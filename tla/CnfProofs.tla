------------------------------- MODULE CnfProofs -------------------------------
(***************************************************************************)
(* Proofs about CnfMerge and CnfBuild.  First the merge: whatever the      *)
(* names and the numbers of variables, incrementWith gives other's         *)
(* variables ids that neither clash nor capture, and keeps the name maps   *)
(* in step.  Then the translation before it: the clauses of a node define  *)
(* its variable, so the solutions of the CNF are the values of the names   *)
(* for which the expressions hold.                                         *)
(***************************************************************************)
EXTENDS CnfBuild, FiniteSetTheorems, WellFoundedInduction, TLAPS

\* A CNF as a translation leaves it: each name has an id of its own.
WellFormed(c) ==
  /\ c.varcount \in 0..MaxVar
  /\ c.cnfvars \in [Name -> 0..c.varcount]
  /\ \A m, n \in Name : c.cnfvars[m] = c.cnfvars[n] /\ c.cnfvars[m] # 0 => m = n

Known(n) == this0.cnfvars[n] # 0
Of(n) == other.cnfvars[n]
Visited(n) == Of(n) # 0 /\ n \notin todo
High(id) == id > this0.varcount /\ id > other.varcount

Typed ==
  /\ cnfvars \in [Name -> Nat]
  /\ boolvars = Pairs(cnfvars)
  /\ varcount \in Nat
  /\ counter \in Nat
  /\ inferenced \in [Id -> Nat]
  /\ todo \subseteq Named(other.cnfvars)
  /\ i \in 1..(this0.varcount + 1)

\* The counter is ahead of every id in use.
Ahead ==
  /\ counter >= this0.varcount
  /\ counter >= other.varcount
  /\ \A k \in Id : inferenced[k] <= counter

\* What the name map says of a name: this's id, or none until the loop visits it, or
\* the id its clauses will use.
NamesSoFar ==
  \A n \in Name :
    /\ Known(n) => cnfvars[n] = this0.cnfvars[n]
    /\ ~ Known(n) /\ ~ Visited(n) => cnfvars[n] = 0
    /\ ~ Known(n) /\ Visited(n) => /\ cnfvars[n] = Renamed(Of(n))
                                   /\ cnfvars[n] > this0.varcount
    /\ Known(n) /\ Visited(n) => inferenced[Of(n)] = this0.cnfvars[n]

\* An id is renamed to this's id of the same name, or to one that is new to both.
EntriesSoFar ==
  /\ \A k \in Id : inferenced[k] # 0 =>
       \/ \E n \in Name : Known(n) /\ Visited(n) /\ Of(n) = k
       \/ High(inferenced[k])
  /\ \A j, k \in Id : inferenced[j] = inferenced[k] /\ High(inferenced[j]) => j = k
  /\ \A n \in todo : inferenced[Of(n)] = 0

Progress ==
  /\ pc = "symbols" => i = 1
  /\ pc # "symbols" => todo = {}
  /\ \A k \in 1..(i - 1) : inferenced[k] # 0
  /\ pc = "done" => i > this0.varcount /\ varcount = counter

\* The inductive invariant.
IInv == /\ WellFormed(this0) /\ WellFormed(other)
        /\ Typed /\ Ahead /\ NamesSoFar /\ EntriesSoFar /\ Progress

LEMMA InitWellFormed ==
  ASSUME NEW c \in Cnf
  PROVE  WellFormed(c)
<1>1. PICK k \in 0..MaxVar : c \in [cnfvars : NameMaps(k), varcount : {k}, clauses : ClausesOf[k]]
  BY DEF Cnf
<1> QED BY <1>1 DEF WellFormed, NameMaps

\* Where the merge starts.
Started ==
  /\ cnfvars = this0.cnfvars /\ boolvars = Pairs(this0.cnfvars) /\ varcount = this0.varcount
  /\ inferenced = [k \in Id |-> 0] /\ counter = FirstCounter
  /\ todo = Named(other.cnfvars) /\ i = 1 /\ pc = "symbols"

BothWellFormed == WellFormed(this0) /\ WellFormed(other)

LEMMA StartIInv == Started /\ BothWellFormed => IInv
<1> SUFFICES ASSUME Started, BothWellFormed PROVE IInv OBVIOUS
<1>1. WellFormed(this0) /\ WellFormed(other) BY DEF BothWellFormed
<1>2. this0.cnfvars \in [Name -> Nat] /\ other.cnfvars \in [Name -> Nat]
      /\ this0.varcount \in Nat /\ other.varcount \in Nat
  BY <1>1, MergeAssumption DEF WellFormed
<1>3. Typed BY <1>2, MergeAssumption DEF Started, Typed, Id, FirstCounter
<1>4. Ahead BY <1>2 DEF Started, Ahead, FirstCounter
<1>5. \A n \in Name : ~ Visited(n) BY DEF Started, Visited, Of, Named
<1>6. NamesSoFar BY <1>2, <1>5 DEF Started, NamesSoFar, Known
<1>7. \A k \in Id : inferenced[k] = 0 BY DEF Started
<1>8. \A n \in Name : Of(n) # 0 => Of(n) \in Id
  BY <1>1, MergeAssumption DEF WellFormed, Of, Id
<1>9. EntriesSoFar BY <1>2, <1>7, <1>8 DEF Started, EntriesSoFar, High, Named, Of
<1>10. Progress BY <1>2 DEF Started, Progress
<1> QED BY <1>1, <1>3, <1>4, <1>6, <1>9, <1>10 DEF IInv

LEMMA InitIInv == Init => IInv
BY StartIInv, InitWellFormed DEF Init, Started, BothWellFormed

\* Where an id of other ends up.
LEMMA RenamedWhere ==
  ASSUME IInv, NEW k \in Id
  PROVE  /\ Renamed(k) \in Nat
         /\ k <= other.varcount => Renamed(k) <= counter
         /\ inferenced[k] # 0 => Renamed(k) = inferenced[k]
         /\ inferenced[k] = 0 => Renamed(k) = k
  BY DEF IInv, Typed, Ahead, Renamed, Id, WellFormed

LEMMA Basics ==
  ASSUME IInv
  PROVE  /\ this0.varcount \in Nat /\ other.varcount \in Nat
         /\ this0.varcount <= MaxVar /\ other.varcount <= MaxVar
         /\ \A n \in Name : /\ this0.cnfvars[n] \in Nat /\ this0.cnfvars[n] <= this0.varcount
                            /\ Of(n) \in Nat /\ Of(n) <= other.varcount
                            /\ Of(n) # 0 => Of(n) \in Id
         /\ \A m, n \in Name : Of(m) = Of(n) /\ Of(m) # 0 => m = n
         /\ counter \in Nat /\ \A k \in Id : inferenced[k] \in Nat
         /\ \A n \in Name : cnfvars[n] \in Nat /\ cnfvars[n] <= counter
<1>1. /\ this0.varcount \in Nat /\ other.varcount \in Nat
      /\ this0.varcount <= MaxVar /\ other.varcount <= MaxVar
  BY MergeAssumption DEF IInv, WellFormed
<1>2. \A n \in Name : /\ this0.cnfvars[n] \in Nat /\ this0.cnfvars[n] <= this0.varcount
                      /\ Of(n) \in Nat /\ Of(n) <= other.varcount
                      /\ Of(n) # 0 => Of(n) \in Id
  BY <1>1, MergeAssumption DEF IInv, WellFormed, Of, Id
<1>3. \A m, n \in Name : Of(m) = Of(n) /\ Of(m) # 0 => m = n
  BY DEF IInv, WellFormed, Of
<1>4. counter \in Nat /\ \A k \in Id : inferenced[k] \in Nat BY DEF IInv, Typed
<1>5. \A n \in Name : cnfvars[n] \in Nat /\ cnfvars[n] <= counter
  <2> SUFFICES ASSUME NEW n \in Name PROVE cnfvars[n] \in Nat /\ cnfvars[n] <= counter
    OBVIOUS
  <2>1. cnfvars[n] \in Nat BY DEF IInv, Typed
  <2>2. CASE Known(n) BY <1>1, <1>2, <1>4, <2>1, <2>2 DEF IInv, NamesSoFar, Ahead
  <2>3. CASE ~ Known(n) /\ ~ Visited(n) BY <1>4, <2>3 DEF IInv, NamesSoFar
  <2>4. CASE ~ Known(n) /\ Visited(n)
    <3>1. cnfvars[n] = Renamed(Of(n)) BY <2>4 DEF IInv, NamesSoFar
    <3>2. Of(n) \in Id /\ Of(n) <= other.varcount BY <1>2, <2>4 DEF Visited
    <3> QED BY <2>1, <3>1, <3>2, RenamedWhere
  <2> QED BY <2>2, <2>3, <2>4
<1> QED BY <1>1, <1>2, <1>3, <1>4, <1>5

\* The three cases of the first loop.
LEMMA SymbolKeeps ==
  ASSUME IInv, NEW n \in Name, Symbol(n)
  PROVE  IInv'
<1> USE DEF Symbol
<1>1. n \in todo /\ Of(n) # 0 /\ ~ Visited(n) /\ pc = "symbols" /\ i = 1
  BY DEF IInv, Typed, Named, Of, Visited, Progress
<1>2. Of(n) \in Id /\ Of(n) \in Nat /\ Of(n) <= other.varcount /\ inferenced[Of(n)] = 0
  BY <1>1, Basics DEF IInv, EntriesSoFar
<1>3. /\ UNCHANGED <<this0, other, varcount, i, pc>>
      /\ todo' = todo \ {n}
      /\ \A m \in Name : Known(m)' = Known(m) /\ Of(m)' = Of(m)
      /\ \A m \in Name : Visited(m)' = (Visited(m) \/ m = n)
      /\ \A k : High(k)' = High(k)
  BY <1>1 DEF Known, Of, Visited, High
<1>4. WellFormed(this0)' /\ WellFormed(other)' BY <1>3 DEF IInv, WellFormed
<1>5. this0.varcount \in Nat /\ other.varcount \in Nat /\ counter \in Nat
      /\ counter >= this0.varcount /\ counter >= other.varcount
  BY Basics DEF IInv, Ahead
<1>6. \A m \in Name : m # n /\ Of(m) # 0 => Of(m) # Of(n) BY <1>1, Basics
<1>7. todo' \subseteq Named(other.cnfvars)' /\ i' \in 1..(this0.varcount' + 1)
  BY <1>3 DEF IInv, Typed, Named
<1>8. Progress' BY <1>1, <1>3, <1>5 DEF IInv, Progress
<1>9. CASE Shared(n)
  <2>1. /\ Known(n) /\ cnfvars[n] = this0.cnfvars[n]
        /\ this0.cnfvars[n] \in Nat /\ this0.cnfvars[n] # 0
        /\ this0.cnfvars[n] <= this0.varcount
    BY <1>1, <1>9, Basics DEF IInv, NamesSoFar, Shared, Known
  <2>2. /\ UNCHANGED <<cnfvars, boolvars, counter>>
        /\ inferenced' = [inferenced EXCEPT ![Of(n)] = this0.cnfvars[n]]
    BY <1>9, <2>1 DEF Shared, Of
  <2>3. inferenced \in [Id -> Nat] BY DEF IInv, Typed
  <2>4. /\ inferenced'[Of(n)] = this0.cnfvars[n]
        /\ \A k \in Id : k # Of(n) => inferenced'[k] = inferenced[k]
    BY <1>2, <2>2, <2>3
  <2>5. Typed' BY <1>3, <1>7, <2>1, <2>2, <2>3 DEF IInv, Typed, Pairs, Named
  <2>6. Ahead' BY <1>3, <1>5, <2>1, <2>2, <2>4 DEF IInv, Ahead
  <2>7. \A m \in Name : Of(m) # 0 /\ m # n => Renamed(Of(m))' = Renamed(Of(m))
    BY <1>3, <1>6, <2>4, Basics DEF Renamed
  <2>8. NamesSoFar'
    BY <1>3, <1>6, <2>1, <2>2, <2>4, <2>7, Basics DEF IInv, NamesSoFar, Visited
  <2>9. ~ High(inferenced'[Of(n)]) BY <1>5, <2>1, <2>4 DEF High
  <2>10. EntriesSoFar'
    <3>1. \A k \in Id : inferenced'[k] # 0 =>
            \/ \E m \in Name : Known(m) /\ Visited(m)' /\ Of(m) = k
            \/ High(inferenced'[k])
      BY <1>3, <2>1, <2>4 DEF IInv, EntriesSoFar
    <3>2. \A j, k \in Id : inferenced'[j] = inferenced'[k] /\ High(inferenced'[j]) => j = k
      BY <2>4, <2>9 DEF IInv, EntriesSoFar
    <3>3. \A m \in todo' : inferenced'[Of(m)] = 0
      BY <1>3, <1>6, <2>4, Basics DEF IInv, EntriesSoFar, Typed, Named, Of
    <3> QED BY <1>3, <3>1, <3>2, <3>3 DEF EntriesSoFar, High, Known, Of
  <2> QED BY <1>4, <1>8, <2>5, <2>6, <2>8, <2>10 DEF IInv
<1>10. CASE Fresh(n)
  <2>1. /\ ~ Known(n) /\ counter' = counter + 1
        /\ cnfvars' = [cnfvars EXCEPT ![n] = counter + 1]
        /\ boolvars' = {p \in boolvars : p[1] # counter + 1} \cup {<<counter + 1, n>>}
        /\ inferenced' = [inferenced EXCEPT ![Of(n)] = counter + 1]
    <3>1. ~ Known(n) BY <1>10 DEF Fresh, IInv, NamesSoFar, Known
    <3> QED BY <3>1, <1>10 DEF Fresh, SetCNFVar, Of
  <2>2. inferenced \in [Id -> Nat] /\ cnfvars \in [Name -> Nat] BY DEF IInv, Typed
  <2>3. /\ inferenced'[Of(n)] = counter + 1
        /\ \A k \in Id : k # Of(n) => inferenced'[k] = inferenced[k]
        /\ cnfvars'[n] = counter + 1
        /\ \A m \in Name : m # n => cnfvars'[m] = cnfvars[m]
    BY <1>2, <2>1, <2>2
  <2>4. boolvars' = Pairs(cnfvars)'
    <3>1. \A m \in Name : cnfvars[m] # counter + 1 BY <1>5, Basics
    <3>2. cnfvars[n] = 0 BY <1>1, <2>1 DEF IInv, NamesSoFar
    <3>3. boolvars = Pairs(cnfvars) BY DEF IInv, Typed
    <3> QED BY <1>5, <2>1, <2>3, <3>1, <3>2, <3>3 DEF Pairs, Named
  <2>5. Typed'
    <3>1. counter + 1 \in Nat BY <1>5
    <3>2. cnfvars' \in [Name -> Nat] /\ inferenced' \in [Id -> Nat]
      BY <2>1, <2>2, <3>1
    <3> QED BY <1>3, <1>7, <2>1, <2>4, <3>1, <3>2 DEF IInv, Typed
  <2>6. Ahead' BY <1>3, <1>5, <2>1, <2>3, Basics DEF IInv, Ahead
  <2>7. \A m \in Name : Of(m) # 0 /\ m # n => Renamed(Of(m))' = Renamed(Of(m))
    BY <1>3, <1>6, <2>3, Basics DEF Renamed
  <2>8. Renamed(Of(n))' = counter + 1 /\ counter + 1 > this0.varcount /\ High(counter + 1)
    BY <1>3, <1>5, <2>3 DEF Renamed, High
  <2>9. NamesSoFar'
    <3>1. \A m \in Name : m # n /\ Visited(m)' =>
            Visited(m) /\ inferenced'[Of(m)] = inferenced[Of(m)]
      BY <1>3, <1>6, <2>3, Basics DEF Visited
    <3> QED BY <1>1, <1>3, <2>1, <2>3, <2>7, <2>8, <3>1 DEF IInv, NamesSoFar, Visited
  <2>10. EntriesSoFar'
    <3>1. \A k \in Id : inferenced'[k] # 0 =>
            \/ \E m \in Name : Known(m) /\ Visited(m)' /\ Of(m) = k
            \/ High(inferenced'[k])
      BY <1>3, <2>3, <2>8 DEF IInv, EntriesSoFar
    <3>2. \A k \in Id : inferenced[k] # counter + 1
      BY <1>5, Basics DEF IInv, Ahead
    <3>3. \A j, k \in Id : inferenced'[j] = inferenced'[k] /\ High(inferenced'[j]) => j = k
      BY <2>3, <3>2 DEF IInv, EntriesSoFar
    <3>4. \A m \in todo' : inferenced'[Of(m)] = 0
      BY <1>3, <1>6, <2>3, Basics DEF IInv, EntriesSoFar, Typed, Named, Of
    <3> QED BY <1>3, <3>1, <3>3, <3>4 DEF EntriesSoFar, High, Known, Of
  <2> QED BY <1>4, <1>8, <2>5, <2>6, <2>9, <2>10 DEF IInv
<1>11. CASE Keep(n)
  <2>1. /\ ~ Known(n) /\ Of(n) > this0.varcount
        /\ UNCHANGED <<inferenced, counter>>
        /\ cnfvars' = [cnfvars EXCEPT ![n] = Of(n)]
        /\ boolvars' = {p \in boolvars : p[1] # Of(n)} \cup {<<Of(n), n>>}
    <3>1. ~ Known(n) BY <1>11 DEF Keep, IInv, NamesSoFar, Known
    <3>2. Of(n) > this0.varcount BY <1>2, <1>5, <1>11 DEF Keep, Taken, Of
    <3> QED BY <3>1, <3>2, <1>11 DEF Keep, SetCNFVar, Of
  <2>2. cnfvars \in [Name -> Nat] BY DEF IInv, Typed
  <2>3. cnfvars'[n] = Of(n) /\ \A m \in Name : m # n => cnfvars'[m] = cnfvars[m]
    BY <2>1, <2>2
  <2>4. \A m \in Name : cnfvars[m] # Of(n)
    <3> SUFFICES ASSUME NEW m \in Name, cnfvars[m] = Of(n) PROVE FALSE
      OBVIOUS
    <3>1. ~ Known(m) BY <1>2, <1>5, <2>1, Basics DEF IInv, NamesSoFar
    <3>2. Visited(m) /\ Renamed(Of(m)) = Of(n) BY <1>1, <3>1 DEF IInv, NamesSoFar
    <3>3. Of(m) \in Id BY <3>2, Basics DEF Visited
    <3>4. CASE inferenced[Of(m)] = 0
      <4>1. Of(m) = Of(n) BY <3>2, <3>3, <3>4, RenamedWhere
      <4> QED BY <1>1, <3>2, <4>1, Basics DEF Visited
    <3>5. CASE inferenced[Of(m)] # 0
      <4>1. inferenced[Of(m)] = Of(n) BY <3>2, <3>3, <3>5, RenamedWhere
      <4>2. ~ High(Of(n)) BY <1>2, <1>5 DEF High
      <4>3. PICK q \in Name : Known(q) /\ Visited(q) /\ Of(q) = Of(m)
        BY <3>3, <3>5, <4>1, <4>2 DEF IInv, EntriesSoFar
      <4>4. q = m BY <3>2, <4>3, Basics DEF Visited
      <4> QED BY <3>1, <4>3, <4>4
    <3> QED BY <3>4, <3>5
  <2>5. boolvars' = Pairs(cnfvars)'
    <3>1. cnfvars[n] = 0 BY <1>1, <2>1 DEF IInv, NamesSoFar
    <3>2. boolvars = Pairs(cnfvars) BY DEF IInv, Typed
    <3> QED BY <1>1, <2>1, <2>3, <2>4, <3>1, <3>2 DEF Pairs, Named
  <2>6. Typed' BY <1>2, <1>3, <1>7, <2>1, <2>2, <2>5 DEF IInv, Typed
  <2>7. Ahead' BY <1>3, <2>1 DEF IInv, Ahead
  <2>8. \A m \in Name : Renamed(Of(m))' = Renamed(Of(m)) BY <1>3, <2>1 DEF Renamed
  <2>9. Renamed(Of(n)) = Of(n) BY <1>2, RenamedWhere
  <2>10. NamesSoFar'
    <3>1. \A m \in Name : m # n /\ Visited(m)' => Visited(m)
      BY <1>3
    <3> QED BY <1>1, <1>3, <2>1, <2>3, <2>8, <2>9, <3>1 DEF IInv, NamesSoFar, Visited
  <2>11. EntriesSoFar'
    <3>1. \A k \in Id : inferenced'[k] # 0 =>
            \/ \E m \in Name : Known(m) /\ Visited(m)' /\ Of(m) = k
            \/ High(inferenced'[k])
      BY <1>3, <2>1 DEF IInv, EntriesSoFar
    <3>2. \A j, k \in Id : inferenced'[j] = inferenced'[k] /\ High(inferenced'[j]) => j = k
      BY <2>1 DEF IInv, EntriesSoFar
    <3>3. \A m \in todo' : inferenced'[Of(m)] = 0 BY <1>3, <2>1 DEF IInv, EntriesSoFar
    <3> QED BY <1>3, <3>1, <3>2, <3>3 DEF EntriesSoFar, High, Known, Of
  <2> QED BY <1>4, <1>8, <2>6, <2>7, <2>10, <2>11 DEF IInv
<1> QED BY <1>9, <1>10, <1>11

\* The second loop gives a new id to each low id the first loop left alone.
LEMMA UnnamedKeeps ==
  ASSUME IInv, Unnamed
  PROVE  IInv'
<1> USE DEF Unnamed
<1>1. /\ pc = "unnamed" /\ todo = {} /\ i <= this0.varcount /\ i' = i + 1
      /\ UNCHANGED <<this0, other, cnfvars, boolvars, varcount, clauses, todo, pc>>
      /\ \A m \in Name : /\ Known(m)' = Known(m) /\ Of(m)' = Of(m)
                         /\ Visited(m)' = Visited(m)
      /\ \A k : High(k)' = High(k)
  BY DEF IInv, Progress, Known, Of, Visited, High
<1>2. /\ this0.varcount \in Nat /\ other.varcount \in Nat /\ counter \in Nat
      /\ counter >= this0.varcount /\ counter >= other.varcount
      /\ this0.varcount <= MaxVar
  BY Basics DEF IInv, Ahead
<1>3. i \in Nat /\ i \in Id BY <1>1, <1>2, MergeAssumption DEF IInv, Typed, Id
<1>4. WellFormed(this0)' /\ WellFormed(other)' BY <1>1 DEF IInv, WellFormed
<1>5. i' \in 1..(this0.varcount' + 1) BY <1>1, <1>2, <1>3
<1>6. CASE ~ NeedsId(i)
  <2>1. UNCHANGED <<counter, inferenced>> BY <1>6
  <2>2. Typed' BY <1>1, <1>5, <2>1 DEF IInv, Typed, Pairs, Named
  <2>3. Ahead' BY <1>1, <2>1 DEF IInv, Ahead
  <2>4. NamesSoFar' BY <1>1, <2>1 DEF IInv, NamesSoFar, Renamed
  <2>5. EntriesSoFar' BY <1>1, <2>1 DEF IInv, EntriesSoFar, High, Known, Of, Visited
  <2>6. Progress'
    <3>1. inferenced[i] # 0 BY <1>6 DEF NeedsId
    <3>2. \A k \in 1..(i' - 1) : inferenced[k] # 0
      BY <1>1, <1>3, <3>1 DEF IInv, Progress
    <3> QED BY <1>1, <2>1, <3>2 DEF Progress
  <2> QED BY <1>4, <2>2, <2>3, <2>4, <2>5, <2>6 DEF IInv
<1>7. CASE NeedsId(i)
  <2>1. /\ inferenced[i] = 0
        /\ counter' = counter + 1
        /\ inferenced' = [inferenced EXCEPT ![i] = counter + 1]
        /\ inferenced \in [Id -> Nat]
    BY <1>7 DEF NeedsId, IInv, Typed
  <2>2. /\ inferenced'[i] = counter + 1
        /\ \A k \in Id : k # i => inferenced'[k] = inferenced[k]
    BY <1>3, <2>1
  <2>3. High(counter + 1) BY <1>2 DEF High
  <2>4. Typed'
    <3>1. counter + 1 \in Nat BY <1>2
    <3>2. inferenced' \in [Id -> Nat] BY <2>1, <3>1
    <3> QED BY <1>1, <1>5, <2>1, <3>1, <3>2 DEF IInv, Typed, Pairs, Named
  <2>5. Ahead' BY <1>1, <1>2, <2>1, <2>2, Basics DEF IInv, Ahead
  <2>6. \A m \in Name : Visited(m) => Of(m) # i
    <3> SUFFICES ASSUME NEW m \in Name, Visited(m), Of(m) = i PROVE FALSE
      OBVIOUS
    <3>1. ~ Known(m)
      <4> SUFFICES ASSUME Known(m) PROVE FALSE OBVIOUS
      <4>1. inferenced[i] = this0.cnfvars[m] BY DEF IInv, NamesSoFar
      <4> QED BY <2>1, <4>1 DEF Known
    <3>2. Renamed(i) > this0.varcount BY <3>1 DEF IInv, NamesSoFar
    <3> QED BY <1>1, <1>2, <1>3, <2>1, <3>2 DEF Renamed
  <2>7. \A m \in Name : Visited(m) =>
          /\ Renamed(Of(m))' = Renamed(Of(m)) /\ inferenced'[Of(m)] = inferenced[Of(m)]
    BY <1>1, <2>2, <2>6, Basics DEF Renamed, Visited
  <2>8. NamesSoFar' BY <1>1, <2>7 DEF IInv, NamesSoFar
  <2>9. EntriesSoFar'
    <3>1. \A k \in Id : inferenced'[k] # 0 =>
            \/ \E m \in Name : Known(m) /\ Visited(m) /\ Of(m) = k
            \/ High(inferenced'[k])
      BY <2>2, <2>3 DEF IInv, EntriesSoFar
    <3>2. \A k \in Id : inferenced[k] # counter + 1 BY <1>2, Basics DEF IInv, Ahead
    <3>3. \A j, k \in Id : inferenced'[j] = inferenced'[k] /\ High(inferenced'[j]) => j = k
      BY <2>2, <3>2 DEF IInv, EntriesSoFar
    <3> QED BY <1>1, <3>1, <3>3 DEF EntriesSoFar, High, Known, Of, Visited
  <2>10. Progress'
    <3>1. \A k \in 1..(i' - 1) : inferenced'[k] # 0
      <4> SUFFICES ASSUME NEW k \in 1..(i' - 1) PROVE inferenced'[k] # 0
        OBVIOUS
      <4>1. k \in Id BY <1>1, <1>2, <1>3, MergeAssumption DEF Id
      <4>2. CASE k = i BY <1>2, <2>2, <4>2
      <4>3. CASE k # i
        <5>1. k \in 1..(i - 1) BY <1>1, <1>3, <4>3
        <5> QED BY <2>2, <4>1, <4>3, <5>1 DEF IInv, Progress
      <4> QED BY <4>2, <4>3
    <3> QED BY <1>1, <3>1 DEF Progress
  <2> QED BY <1>4, <2>4, <2>5, <2>8, <2>9, <2>10 DEF IInv
<1> QED BY <1>6, <1>7

\* The steps that change no id.
LEMMA OthersKeep ==
  ASSUME IInv, SymbolsDone \/ Transfer \/ UNCHANGED vars
  PROVE  IInv'
<1>1. /\ UNCHANGED <<this0, other, cnfvars, boolvars, inferenced, counter, todo, i>>
      /\ \A k : High(k)' = High(k)
  BY DEF SymbolsDone, Transfer, vars, High
<1>2. WellFormed(this0)' /\ WellFormed(other)' BY <1>1 DEF IInv, WellFormed
<1>3. varcount' \in Nat BY DEF IInv, Typed, SymbolsDone, Transfer, vars
<1>4. Typed' BY <1>1, <1>3 DEF IInv, Typed, Pairs, Named
<1>5. Ahead' BY <1>1 DEF IInv, Ahead
<1>6. NamesSoFar' BY <1>1 DEF IInv, NamesSoFar, Known, Visited, Of, Renamed
<1>7. EntriesSoFar' BY <1>1 DEF IInv, EntriesSoFar, High, Known, Of, Visited
<1>8. Progress' BY <1>1 DEF IInv, Progress, SymbolsDone, Transfer, vars
<1> QED BY <1>2, <1>4, <1>5, <1>6, <1>7, <1>8 DEF IInv

LEMMA NextIInv == IInv /\ [Next]_vars => IInv'
BY SymbolKeeps, UnnamedKeeps, OthersKeep DEF Next

\* Different variables of other stay different: RenameInjective follows from IInv.
LEMMA InjectiveFromIInv == IInv => RenameInjective
<1> SUFFICES ASSUME IInv, pc = "done",
                    NEW j \in 1..other.varcount, NEW k \in 1..other.varcount,
                    Renamed(j) = Renamed(k)
             PROVE  j = k
  BY DEF RenameInjective
<1>1. j \in Id /\ k \in Id BY Basics, MergeAssumption DEF Id
<1>2. \A q \in 1..other.varcount : inferenced[q] = 0 => q > this0.varcount
  BY Basics DEF IInv, Progress, Typed
<1>3. \A q \in Id : inferenced[q] # 0 =>
        \/ \E n \in Name : Known(n) /\ Of(n) = q /\ inferenced[q] = this0.cnfvars[n]
        \/ High(inferenced[q])
  BY DEF IInv, EntriesSoFar, NamesSoFar
<1>4. CASE inferenced[j] = 0 /\ inferenced[k] = 0 BY <1>1, <1>4 DEF Renamed
<1>5. CASE inferenced[j] # 0 /\ inferenced[k] # 0
  <2>1. inferenced[j] = inferenced[k] BY <1>5 DEF Renamed
  <2>2. CASE High(inferenced[j]) BY <1>1, <2>1, <2>2 DEF IInv, EntriesSoFar
  <2>3. CASE ~ High(inferenced[j])
    <3>1. PICK m \in Name : Known(m) /\ Of(m) = j /\ inferenced[j] = this0.cnfvars[m]
      BY <1>1, <1>3, <1>5, <2>3
    <3>2. PICK n \in Name : Known(n) /\ Of(n) = k /\ inferenced[k] = this0.cnfvars[n]
      BY <1>1, <1>3, <1>5, <2>1, <2>3
    <3>3. m = n BY <2>1, <3>1, <3>2 DEF IInv, WellFormed, Known
    <3> QED BY <3>1, <3>2, <3>3
  <2> QED BY <2>2, <2>3
<1>6. \A p, q \in 1..other.varcount :
        p \in Id /\ q \in Id /\ inferenced[p] # 0 /\ inferenced[q] = 0 => Renamed(p) # Renamed(q)
  <2> SUFFICES ASSUME NEW p \in 1..other.varcount, NEW q \in 1..other.varcount,
                      p \in Id, q \in Id, inferenced[p] # 0, inferenced[q] = 0,
                      inferenced[p] = q
               PROVE  FALSE
    BY DEF Renamed
  <2>1. ~ High(inferenced[p]) BY Basics DEF High
  <2>2. PICK n \in Name : inferenced[p] = this0.cnfvars[n] BY <1>3, <2>1
  <2> QED BY <1>2, <2>2, Basics
<1> QED BY <1>1, <1>4, <1>5, <1>6

\* Only variables of one name meet: NoCapture follows from IInv.
LEMMA NoCaptureFromIInv == IInv => NoCapture
<1> SUFFICES ASSUME IInv, pc = "done",
                    NEW k \in 1..other.varcount, NEW j \in 1..this0.varcount
             PROVE  Renamed(k) = j <=> \E n \in Name : this0.cnfvars[n] = j /\ Of(n) = k
  BY DEF NoCapture, Of
<1>1. k \in Id /\ k # 0 /\ j # 0 BY Basics, MergeAssumption DEF Id
<1>2. ASSUME Renamed(k) = j
      PROVE  \E n \in Name : this0.cnfvars[n] = j /\ Of(n) = k
  <2>1. inferenced[k] # 0
    <3> SUFFICES ASSUME inferenced[k] = 0 PROVE FALSE OBVIOUS
    <3>1. k = j BY <1>2 DEF Renamed
    <3> QED BY <3>1, Basics DEF IInv, Progress, Typed
  <2>2. inferenced[k] = j BY <1>2, <2>1 DEF Renamed
  <2>3. ~ High(inferenced[k]) BY <2>2, Basics DEF High
  <2> QED BY <1>1, <2>1, <2>2, <2>3 DEF IInv, EntriesSoFar, NamesSoFar
<1>3. ASSUME NEW n \in Name, this0.cnfvars[n] = j, Of(n) = k
      PROVE  Renamed(k) = j
  <2>1. Known(n) /\ Visited(n)
    BY <1>1, <1>3, Basics DEF Known, Visited, IInv, Progress
  <2> QED BY <1>1, <1>3, <2>1 DEF IInv, NamesSoFar, Renamed
<1> QED BY <1>2, <1>3

\* The merged name map is a map of the same kind: NamesInSync follows from IInv.
LEMMA NamesFromIInv == IInv => NamesInSync
<1> SUFFICES ASSUME IInv, pc = "done" PROVE NamesInSync BY DEF NamesInSync
<1>1. todo = {} BY DEF IInv, Progress
<1>2. \A n \in Name : Visited(n) = (Of(n) # 0) BY <1>1 DEF Visited
<1>3. \A n \in Named(other.cnfvars) : cnfvars[n] = Renamed(other.cnfvars[n])
  <2> SUFFICES ASSUME NEW n \in Name, Of(n) # 0 PROVE cnfvars[n] = Renamed(Of(n))
    BY DEF Named, Of
  <2>1. CASE Known(n)
    <3>1. inferenced[Of(n)] = this0.cnfvars[n] /\ cnfvars[n] = this0.cnfvars[n]
      BY <1>2, <2>1 DEF IInv, NamesSoFar
    <3> QED BY <2>1, <3>1 DEF Renamed, Known
  <2>2. CASE ~ Known(n) BY <1>2, <2>2 DEF IInv, NamesSoFar
  <2> QED BY <2>1, <2>2
<1>4. ASSUME NEW m \in Name, NEW n \in Name, cnfvars[m] = cnfvars[n], cnfvars[m] # 0
      PROVE  m = n
  <2>1. CASE Known(m) /\ Known(n) BY <1>4, <2>1 DEF IInv, NamesSoFar, WellFormed, Known
  <2>2. CASE ~ Known(m) /\ ~ Known(n)
    <3>1. Visited(m) /\ Visited(n) BY <1>4, <2>2 DEF IInv, NamesSoFar
    <3>2. Renamed(Of(m)) = Renamed(Of(n)) BY <1>4, <2>2, <3>1 DEF IInv, NamesSoFar
    <3>3. Of(m) \in 1..other.varcount /\ Of(n) \in 1..other.varcount
      BY <3>1, Basics DEF Visited
    <3>4. Of(m) = Of(n) BY <3>2, <3>3, InjectiveFromIInv DEF RenameInjective
    <3> QED BY <3>1, <3>4, Basics DEF Visited
  <2>3. \A p, q \in Name : Known(p) /\ ~ Known(q) /\ cnfvars[q] # 0 => cnfvars[p] # cnfvars[q]
    <3> SUFFICES ASSUME NEW p \in Name, NEW q \in Name,
                        Known(p), ~ Known(q), cnfvars[q] # 0
                 PROVE  cnfvars[p] # cnfvars[q]
      OBVIOUS
    <3>1. cnfvars[p] <= this0.varcount BY Basics DEF IInv, NamesSoFar
    <3>2. cnfvars[q] > this0.varcount BY DEF IInv, NamesSoFar
    <3> QED BY <3>1, <3>2, Basics
  <2> QED BY <1>4, <2>1, <2>2, <2>3
<1>5. \A n \in Named(this0.cnfvars) : cnfvars[n] = this0.cnfvars[n]
  BY DEF IInv, NamesSoFar, Named, Known
<1>6. boolvars = Pairs(cnfvars) BY DEF IInv, Typed
<1> QED BY <1>3, <1>4, <1>5, <1>6 DEF NamesInSync

\* varcount covers every id in use: IdsCounted follows from IInv.
LEMMA CountedFromIInv == IInv => IdsCounted
<1> SUFFICES ASSUME IInv, pc = "done" PROVE IdsCounted BY DEF IdsCounted
<1>1. varcount = counter BY DEF IInv, Progress
<1>2. \A k \in 1..other.varcount : k \in Id BY Basics, MergeAssumption DEF Id
<1>3. \A k \in 1..other.varcount : Renamed(k) <= counter BY <1>2, RenamedWhere
<1> QED BY <1>1, <1>3, Basics DEF IdsCounted, IInv, Ahead

LEMMA IInvHolds == Spec => []IInv
  BY InitIInv, NextIInv, PTL DEF Spec

\* However many variables and names the CNFs have, the renaming is injective, so two
\* variables of other never become one, and varcount covers every id in use.
THEOREM RenamingSound == Spec => [](RenameInjective /\ IdsCounted)
<1>1. IInv => RenameInjective /\ IdsCounted BY InjectiveFromIInv, CountedFromIInv
<1> QED BY IInvHolds, <1>1, PTL

\* A variable of the appended CNF becomes one that this CNF knew before only when
\* both have the same name.
THEOREM NothingCaptured == Spec => []NoCapture
<1>1. IInv => NoCapture BY NoCaptureFromIInv
<1> QED BY IInvHolds, <1>1, PTL

\* The name maps of the merged CNF are each other's inverse and agree with the
\* renaming for every name of either CNF.
THEOREM NamesStayInverse == Spec => []NamesInSync
<1>1. IInv => NamesInSync BY NamesFromIInv
<1> QED BY IInvHolds, <1>1, PTL
-----------------------------------------------------------------------------
(* Translation. *)

NodeRecord == [op : Ops, l : Nat, r : Nat, name : Name, val : BOOLEAN]

\* Operands come first.
Ordered(nodes) ==
  /\ nodes \in Seq(NodeRecord)
  /\ \A x \in 1..Len(nodes) : nodes[x].l < x /\ nodes[x].r < x

\* A set of numbers has a least one.
LEMMA LeastNumber ==
  ASSUME NEW N \in SUBSET Nat, N # {}
  PROVE  \E n \in N : \A m \in N : n <= m
<1>1. PICK n \in N : \A m \in N : ~(<<m, n>> \in OpToRel(<, Nat))
  BY NatLessThanWellFounded, WFMin
<1>2. ASSUME NEW m \in N PROVE n <= m
  <2>1. <<m, n>> \in OpToRel(<, Nat) <=> <<m, n>> \in Nat \X Nat /\ m < n
    BY Zenon DEF OpToRel
  <2>2. m \in Nat /\ n \in Nat OBVIOUS
  <2>3. ~(m < n) BY <1>1, <2>1, <2>2, Zenon
  <2> QED BY <2>2, <2>3
<1> QED BY <1>2

LEMMA OrderedAt ==
  ASSUME NEW nodes, Ordered(nodes), NEW y \in 1..Len(nodes)
  PROVE  nodes[y] \in NodeRecord /\ nodes[y].l \in 0..y - 1 /\ nodes[y].r \in 0..y - 1
<1>1. nodes[y] \in NodeRecord BY DEF Ordered
<1>2. nodes[y].l \in Nat /\ nodes[y].r \in Nat BY <1>1 DEF NodeRecord
<1>3. nodes[y].l < y /\ nodes[y].r < y /\ y \in Nat BY DEF Ordered
<1> QED BY <1>1, <1>2, <1>3

BelowStep(nodes, B, y) == IF y = 0 THEN {} ELSE {y} \cup B[nodes[y].l] \cup B[nodes[y].r]

BelowRun(nodes, x) == LET B[y \in 0..x] == BelowStep(nodes, B, y) IN B

LEMMA BelowExists ==
  ASSUME NEW nodes, Ordered(nodes), NEW n \in 0..Len(nodes)
  PROVE  \E B : B = [y \in 0..n |-> BelowStep(nodes, B, y)]
<1> DEFINE Bad == {k \in 0..Len(nodes) : ~\E B : B = [y \in 0..k |-> BelowStep(nodes, B, y)]}
<1>1. SUFFICES ASSUME Bad # {} PROVE FALSE OBVIOUS
<1>2. Len(nodes) \in Nat BY DEF Ordered
<1>3. PICK k \in Bad : \A m \in Bad : k <= m
  <2>1. Bad \in SUBSET Nat BY <1>2
  <2> HIDE DEF Bad
  <2> QED BY <1>1, <2>1, LeastNumber
<1>4. k # 0
  <2>1. 0..0 = {0} OBVIOUS
  <2>2. [y \in 0..0 |-> {}] = [y \in 0..0 |-> BelowStep(nodes, [z \in 0..0 |-> {}], y)]
    BY <2>1 DEF BelowStep
  <2> QED BY <2>2
<1>5. k - 1 \in 0..Len(nodes) /\ k - 1 \notin Bad /\ k \in 1..Len(nodes)
  <2>1. k \in 0..Len(nodes) OBVIOUS
  <2> HIDE DEF Bad
  <2>2. k \in 1..Len(nodes) /\ k - 1 \in 0..Len(nodes) /\ ~(k <= k - 1)
    BY <1>2, <1>4, <2>1
  <2> QED BY <1>3, <2>2
<1>6. PICK B : B = [y \in 0..k - 1 |-> BelowStep(nodes, B, y)] BY <1>5
<1> DEFINE C == [y \in 0..k |-> IF y = k THEN BelowStep(nodes, B, k) ELSE B[y]]
<1>7. \A y \in 0..k : BelowStep(nodes, C, y) = BelowStep(nodes, B, y)
  <2>1. \A y \in 0..k - 1 : C[y] = B[y] BY <1>5
  <2> HIDE DEF C
  <2>2. ASSUME NEW y \in 0..k PROVE BelowStep(nodes, C, y) = BelowStep(nodes, B, y)
    <3>1. CASE y = 0 BY <3>1 DEF BelowStep
    <3>2. CASE y # 0
      <4>1. y \in 1..k /\ y \in 1..Len(nodes) BY <1>2, <1>5, <3>2
      <4>2. nodes[y].l \in 0..k - 1 /\ nodes[y].r \in 0..k - 1
        <5>1. nodes[y].l \in 0..y - 1 /\ nodes[y].r \in 0..y - 1 BY <4>1, OrderedAt
        <5> QED BY <1>5, <4>1, <5>1
      <4>3. C[nodes[y].l] = B[nodes[y].l] /\ C[nodes[y].r] = B[nodes[y].r] BY <2>1, <4>2
      <4> QED BY <4>3 DEF BelowStep
    <3> QED BY <3>1, <3>2
  <2> QED BY <2>2
<1>8. \A y \in 0..k : C[y] = BelowStep(nodes, B, y)
  <2>1. \A y \in 0..k - 1 : B[y] = BelowStep(nodes, B, y) BY <1>6
  <2>2. ASSUME NEW y \in 0..k PROVE C[y] = BelowStep(nodes, B, y)
    <3>1. CASE y = k BY <3>1
    <3>2. CASE y # k
      <4>1. y \in 0..k - 1 BY <1>5, <3>2
      <4>2. C[y] = B[y] BY <3>2
      <4> QED BY <2>1, <4>1, <4>2
    <3> QED BY <3>1, <3>2
  <2> QED BY <2>2
<1>9. C = [y \in 0..k |-> BelowStep(nodes, C, y)]
  <2>1. C = [y \in 0..k |-> C[y]] OBVIOUS
  <2> HIDE DEF C
  <2> QED BY <1>7, <1>8, <2>1
<1>10. \E D : D = [y \in 0..k |-> BelowStep(nodes, D, y)]
  <2> HIDE DEF C
  <2> QED BY <1>9
<1> QED BY <1>3, <1>10

LEMMA BelowEquation ==
  ASSUME NEW nodes, Ordered(nodes), NEW x \in 0..Len(nodes), NEW y \in 0..x
  PROVE  BelowRun(nodes, x)[y] = BelowStep(nodes, BelowRun(nodes, x), y)
<1>1. \E B : B = [z \in 0..x |-> BelowStep(nodes, B, z)] BY BelowExists
<1>2. BelowRun(nodes, x) = [z \in 0..x |-> BelowStep(nodes, BelowRun(nodes, x), z)]
  BY <1>1, Zenon DEF BelowRun
<1> QED BY <1>2

\* What is below a node, the operands of all of that included.
LEMMA BelowClosed ==
  ASSUME NEW nodes, Ordered(nodes), NEW x \in 1..Len(nodes)
  PROVE  /\ x \in Below(nodes, x)
         /\ \A y \in Below(nodes, x) :
              y \in 1..x /\ {nodes[y].l, nodes[y].r} \ {0} \subseteq Below(nodes, x)
<1> DEFINE B == BelowRun(nodes, x)
           Closed(k) == \A y \in B[k] : y \in 1..k /\ {nodes[y].l, nodes[y].r} \ {0} \subseteq B[k]
           Bad == {k \in 0..x : ~Closed(k)}
<1>1. Len(nodes) \in Nat /\ x \in 0..Len(nodes) /\ x \in 0..x BY DEF Ordered
<1>2. \A y \in 0..x : B[y] = BelowStep(nodes, B, y) BY <1>1, BelowEquation
<1>3. ASSUME NEW y \in 1..x PROVE nodes[y].l \in 0..y - 1 /\ nodes[y].r \in 0..y - 1
  <2>1. y \in 1..Len(nodes) BY <1>1
  <2> QED BY <2>1, OrderedAt
<1> HIDE DEF B
<1>4. ASSUME NEW y \in 1..x PROVE y \in B[y]
  <2>1. y \in 0..x /\ y # 0 BY <1>1
  <2>2. B[y] = {y} \cup B[nodes[y].l] \cup B[nodes[y].r] BY <1>2, <2>1 DEF BelowStep
  <2> QED BY <2>2
<1>5. Bad = {}
  <2>1. SUFFICES ASSUME Bad # {} PROVE FALSE OBVIOUS
  <2>2. PICK k \in Bad : \A m \in Bad : k <= m
    <3>1. Bad \in SUBSET Nat BY <1>1
    <3> HIDE DEF Bad
    <3> QED BY <2>1, <3>1, LeastNumber
  <2>3. k \in 0..x /\ ~Closed(k) OBVIOUS
  <2>4. \A j \in 0..k - 1 : Closed(j)
    <3>1. ASSUME NEW j \in 0..k - 1 PROVE j \notin Bad /\ j \in 0..x BY <1>1, <2>2, <2>3
    <3> QED BY <3>1
  <2>5. k # 0
    <3>1. 0 \in 0..x BY <1>1
    <3>2. B[0] = {} BY <1>2, <3>1 DEF BelowStep
    <3> QED BY <2>3, <3>2
  <2> DEFINE l == nodes[k].l
             r == nodes[k].r
  <2>6. k \in 1..x /\ l \in 0..k - 1 /\ r \in 0..k - 1 BY <1>1, <1>3, <2>3, <2>5
  <2>7. B[k] = {k} \cup B[l] \cup B[r] BY <1>2, <2>3, <2>5 DEF BelowStep
  <2> HIDE DEF Bad
  <2>8. ASSUME NEW j \in 0..k - 1 PROVE j # 0 => j \in B[j] BY <1>1, <1>4, <2>6
  <2>9. (l # 0 => l \in B[l]) /\ (r # 0 => r \in B[r]) BY <2>6, <2>8
  <2>10. \A j \in 0..k - 1 : \A y \in B[j] : y \in 1..k /\ {nodes[y].l, nodes[y].r} \ {0} \subseteq B[j]
    BY <1>1, <2>4, <2>6
  <2>11. ASSUME NEW y \in B[k] PROVE y \in 1..k /\ {nodes[y].l, nodes[y].r} \ {0} \subseteq B[k]
    <3>1. CASE y = k BY <2>6, <2>7, <2>9, <3>1
    <3>2. CASE y \in B[l] BY <2>6, <2>7, <2>10, <3>2
    <3>3. CASE y \in B[r] BY <2>6, <2>7, <2>10, <3>3
    <3> QED BY <2>7, <2>11, <3>1, <3>2, <3>3
  <2> QED BY <2>3, <2>11
<1>6. Below(nodes, x) = B[x] BY DEF Below, B, BelowRun, BelowStep
<1> QED BY <1>1, <1>4, <1>5, <1>6

\* What JobsAssumption says of the job.
LEMMA JobFacts ==
  ASSUME job \in Jobs
  PROVE  /\ Ordered(job.nodes) /\ Len(job.nodes) \in Nat
         /\ DOMAIN job.nodes = 1..Len(job.nodes)
         /\ job.roots \in Seq(DOMAIN job.nodes) /\ Len(job.roots) \in Nat
         /\ \A k \in 1..Len(job.roots) : job.roots[k] \in DOMAIN job.nodes
         /\ job.start \in Cnf /\ job.start.varcount + Len(job.nodes) <= MaxVar
<1>1. /\ job.nodes \in Seq(NodeRecord) /\ job.roots \in Seq(DOMAIN job.nodes)
      /\ \A x \in DOMAIN job.nodes : job.nodes[x].l < x /\ job.nodes[x].r < x
      /\ job.start \in Cnf /\ job.start.varcount + Len(job.nodes) <= MaxVar
  BY JobsAssumption DEF NodeRecord
<1>2. DOMAIN job.nodes = 1..Len(job.nodes) /\ Len(job.nodes) \in Nat BY <1>1
<1>3. Len(job.roots) \in Nat /\ \A k \in 1..Len(job.roots) : job.roots[k] \in DOMAIN job.nodes
  BY <1>1
<1> QED BY <1>1, <1>2, <1>3 DEF Ordered

\* A node of the job, and what it refers to.
LEMMA NodeFacts ==
  ASSUME job \in Jobs, NEW x \in DOMAIN job.nodes
  PROVE  /\ x \in Nat /\ Node(x) \in NodeRecord
         /\ Node(x).op \in Ops /\ Node(x).name \in Name /\ Node(x).val \in BOOLEAN
         /\ Operands(x) \subseteq DOMAIN job.nodes
         /\ \A y \in Operands(x) : y < x
         /\ IsGate(x) => Node(x).l \in Operands(x) /\ Node(x).r \in Operands(x)
         /\ Node(x).op = "not" => Node(x).r \in Operands(x)
<1>1. Ordered(job.nodes) /\ DOMAIN job.nodes = 1..Len(job.nodes) /\ Len(job.nodes) \in Nat
  BY JobFacts
<1>2. Node(x) \in NodeRecord /\ Node(x).l \in 0..x - 1 /\ Node(x).r \in 0..x - 1
  BY <1>1, OrderedAt DEF Node
<1>3. /\ IsGate(x) => Node(x).l # 0 /\ Node(x).r # 0
      /\ Node(x).op = "not" => Node(x).r # 0
  BY JobsAssumption DEF IsGate, Node
<1>4. x \in Nat /\ Operands(x) \subseteq DOMAIN job.nodes /\ \A y \in Operands(x) : y < x
  BY <1>1, <1>2 DEF Operands
<1>5. /\ IsGate(x) => Node(x).l \in Operands(x) /\ Node(x).r \in Operands(x)
      /\ Node(x).op = "not" => Node(x).r \in Operands(x)
  BY <1>3 DEF Operands
<1>6. Node(x).op \in Ops /\ Node(x).name \in Name /\ Node(x).val \in BOOLEAN
  BY <1>2 DEF NodeRecord
<1> QED BY <1>2, <1>4, <1>5, <1>6

\* T gives x the value its operator gives it.
Consistent(T, s, f, x) ==
  /\ IsFree(x) => T[x] = f[x]
  /\ Node(x).op = "const" /\ ~ IsFree(x) => T[x] = Node(x).val
  /\ Node(x).op = "var" /\ ~ IsFree(x) => T[x] = s[Node(x).name]
  /\ Node(x).op = "not" => T[x] = ~ T[Node(x).r]
  /\ Node(x).op = "and" => T[x] = (T[Node(x).l] /\ T[Node(x).r])
  /\ Node(x).op = "or" => T[x] = (T[Node(x).l] \/ T[Node(x).r])
  /\ Node(x).op = "impl" => T[x] = (T[Node(x).l] => T[Node(x).r])
  /\ Node(x).op = "eq" => T[x] = (T[Node(x).l] = T[Node(x).r])

\* What a node's value depends on.
LEMMA ValueDepends ==
  ASSUME job \in Jobs, NEW x \in DOMAIN job.nodes, NEW s, NEW f, NEW t, NEW u,
         \A y \in Operands(x) : t[y] = u[y]
  PROVE  Value(s, f, t, x) = Value(s, f, u, x)
<1>1. Node(x).op \in {"and", "or", "impl", "eq"} =>
        t[Node(x).l] = u[Node(x).l] /\ t[Node(x).r] = u[Node(x).r]
  BY NodeFacts DEF IsGate
<1>2. Node(x).op = "not" => t[Node(x).r] = u[Node(x).r] BY NodeFacts
<1>3. Node(x).op \in Ops BY NodeFacts
<1>4. CASE IsFree(x) BY <1>4 DEF Value, IsFree
<1>5. CASE ~IsFree(x) /\ Node(x).op \in {"const", "var"} BY <1>5 DEF Value
<1>6. CASE Node(x).op = "not" BY <1>2, <1>6 DEF Value, IsFree
<1>7. CASE Node(x).op \in {"and", "or", "impl", "eq"} BY <1>1, <1>7 DEF Value, IsFree
<1>8. Node(x).op = "any" => IsFree(x) BY DEF IsFree
<1> QED BY <1>3, <1>4, <1>5, <1>6, <1>7, <1>8 DEF Ops

LEMMA ValueConsistent ==
  ASSUME NEW x, NEW s, NEW f, NEW t, t[x] = Value(s, f, t, x)
  PROVE  Consistent(t, s, f, x)
<1>1. CASE IsFree(x)
  <2>1. t[x] = f[x] BY <1>1 DEF Value, IsFree
  <2> QED BY <1>1, <2>1 DEF Consistent, IsFree
<1>2. CASE ~IsFree(x)
  <2>1. CASE Node(x).op = "const" BY <1>2, <2>1 DEF Value, Consistent
  <2>2. CASE Node(x).op = "var" BY <1>2, <2>2 DEF Value, Consistent
  <2>3. CASE Node(x).op = "not" BY <1>2, <2>3 DEF Value, Consistent
  <2>4. CASE Node(x).op = "and" BY <1>2, <2>4 DEF Value, Consistent
  <2>5. CASE Node(x).op = "or" BY <1>2, <2>5 DEF Value, Consistent
  <2>6. CASE Node(x).op = "impl" BY <1>2, <2>6 DEF Value, Consistent
  <2>7. CASE Node(x).op = "eq" BY <1>2, <2>7 DEF Value, Consistent
  <2>8. CASE Node(x).op \notin {"const", "var", "not", "and", "or", "impl", "eq"}
    BY <1>2, <2>8 DEF Consistent
  <2> QED BY <2>1, <2>2, <2>3, <2>4, <2>5, <2>6, <2>7, <2>8
<1> QED BY <1>1, <1>2

LEMMA TruthExists ==
  ASSUME job \in Jobs, NEW s, NEW f, NEW n \in 0..Len(job.nodes)
  PROVE  \E t : t = [x \in 1..n |-> Value(s, f, t, x)]
<1> DEFINE Bad == {k \in 0..Len(job.nodes) : ~\E t : t = [x \in 1..k |-> Value(s, f, t, x)]}
<1>1. SUFFICES ASSUME Bad # {} PROVE FALSE OBVIOUS
<1>2. Len(job.nodes) \in Nat /\ DOMAIN job.nodes = 1..Len(job.nodes) BY JobFacts
<1>3. PICK k \in Bad : \A m \in Bad : k <= m
  <2>1. Bad \in SUBSET Nat BY <1>2
  <2> HIDE DEF Bad
  <2> QED BY <1>1, <2>1, LeastNumber
<1>4. k # 0
  <2>1. 1..0 = {} OBVIOUS
  <2>2. [x \in 1..0 |-> 0] = [x \in 1..0 |-> Value(s, f, [y \in 1..0 |-> 0], x)] BY <2>1
  <2> QED BY <2>2
<1>5. k - 1 \in 0..Len(job.nodes) /\ k - 1 \notin Bad /\ k \in 1..Len(job.nodes)
  <2>1. k \in 0..Len(job.nodes) OBVIOUS
  <2> HIDE DEF Bad
  <2>2. k \in 1..Len(job.nodes) /\ k - 1 \in 0..Len(job.nodes) /\ ~(k <= k - 1)
    BY <1>2, <1>4, <2>1
  <2> QED BY <1>3, <2>2
<1>6. PICK t : t = [x \in 1..k - 1 |-> Value(s, f, t, x)] BY <1>5
<1> DEFINE u == [x \in 1..k |-> IF x = k THEN Value(s, f, t, k) ELSE t[x]]
<1>7. \A x \in 1..k : Value(s, f, u, x) = Value(s, f, t, x)
  <2>1. \A x \in 1..k - 1 : u[x] = t[x] BY <1>5
  <2> HIDE DEF u
  <2>2. ASSUME NEW x \in 1..k PROVE Value(s, f, u, x) = Value(s, f, t, x)
    <3>1. x \in DOMAIN job.nodes /\ x <= k BY <1>2, <1>5
    <3>2. Operands(x) \subseteq 1..Len(job.nodes) /\ \A y \in Operands(x) : y < x
      BY <1>2, <3>1, NodeFacts
    <3>3. \A y \in Operands(x) : y \in 1..k - 1 BY <1>2, <1>5, <3>1, <3>2
    <3>4. \A y \in Operands(x) : u[y] = t[y] BY <2>1, <3>3
    <3> QED BY <3>1, <3>4, ValueDepends
  <2> QED BY <2>2
<1>8. \A x \in 1..k : u[x] = Value(s, f, t, x)
  <2>1. \A x \in 1..k - 1 : t[x] = Value(s, f, t, x) BY <1>6
  <2>2. ASSUME NEW x \in 1..k PROVE u[x] = Value(s, f, t, x)
    <3>1. CASE x = k BY <3>1
    <3>2. CASE x # k
      <4>1. x \in 1..k - 1 BY <1>5, <3>2
      <4>2. u[x] = t[x] BY <3>2
      <4> QED BY <2>1, <4>1, <4>2
    <3> QED BY <3>1, <3>2
  <2> QED BY <2>2
<1>9. u = [x \in 1..k |-> Value(s, f, u, x)]
  <2>1. u = [x \in 1..k |-> u[x]] OBVIOUS
  <2> HIDE DEF u
  <2> QED BY <1>7, <1>8, <2>1
<1>10. \E v : v = [x \in 1..k |-> Value(s, f, v, x)]
  <2> HIDE DEF u
  <2> QED BY <1>9
<1> QED BY <1>3, <1>10

\* The recursion of Truth is well-founded.
LEMMA TruthConsistent ==
  ASSUME job \in Jobs, NEW s, NEW f, NEW x \in DOMAIN job.nodes
  PROVE  Consistent(Truth(s, f), s, f, x)
<1>1. DOMAIN job.nodes = 1..Len(job.nodes) /\ Len(job.nodes) \in Nat BY JobFacts
<1>2. \E t : t = [y \in DOMAIN job.nodes |-> Value(s, f, t, y)]
  <2>1. Len(job.nodes) \in 0..Len(job.nodes) BY <1>1
  <2>2. PICK n \in 0..Len(job.nodes) : n = Len(job.nodes) BY <2>1
  <2>3. \E t : t = [y \in 1..n |-> Value(s, f, t, y)] BY TruthExists
  <2> QED BY <1>1, <2>2, <2>3
<1>3. Truth(s, f) = [y \in DOMAIN job.nodes |-> Value(s, f, Truth(s, f), y)]
  BY <1>2, Zenon DEF Truth
<1>4. Truth(s, f)[x] = Value(s, f, Truth(s, f), x) BY <1>3
<1> QED BY <1>4, ValueConsistent

Reads(T, s, f, S) == \A x \in S : Consistent(T, s, f, x)

Closed(S) == \A x \in S : Operands(x) \subseteq S

SameInputs(S, s, s2, f, f2) ==
  /\ \A x \in S : Node(x).op = "var" /\ ~ IsFree(x) => s[Node(x).name] = s2[Node(x).name]
  /\ \A x \in S : IsFree(x) => f[x] = f2[x]

\* On nodes that are there with their operands, names and free nodes decide.
LEMMA ConsistentUnique ==
  ASSUME job \in Jobs, NEW S \in SUBSET DOMAIN job.nodes, Closed(S),
         NEW s, NEW s2, NEW f, NEW f2, SameInputs(S, s, s2, f, f2),
         NEW T, NEW T2, Reads(T, s, f, S), Reads(T2, s2, f2, S)
  PROVE  \A x \in S : T[x] = T2[x]
<1> USE DEF Reads, Closed, SameInputs
<1> DEFINE Bad == {x \in S : T[x] # T2[x]}
<1>1. SUFFICES ASSUME Bad # {} PROVE FALSE OBVIOUS
<1>2. DOMAIN job.nodes = 1..Len(job.nodes) /\ Len(job.nodes) \in Nat BY JobFacts
<1>3. PICK x \in Bad : \A m \in Bad : x <= m
  <2>1. Bad \in SUBSET Nat BY <1>2
  <2> HIDE DEF Bad
  <2> QED BY <1>1, <2>1, LeastNumber
<1>4. x \in S /\ T[x] # T2[x] /\ x \in DOMAIN job.nodes BY <1>3
<1>5. Consistent(T, s, f, x) /\ Consistent(T2, s2, f2, x) BY <1>4
<1>6. ASSUME NEW y \in Operands(x) PROVE T[y] = T2[y]
  <2>1. y \in S /\ y < x /\ y \in Nat /\ x \in Nat BY <1>2, <1>4, NodeFacts
  <2> QED BY <1>3, <2>1
<1>7. /\ Node(x).op \in {"and", "or", "impl", "eq"} =>
           T[Node(x).l] = T2[Node(x).l] /\ T[Node(x).r] = T2[Node(x).r]
      /\ Node(x).op = "not" => T[Node(x).r] = T2[Node(x).r]
  BY <1>4, <1>6, NodeFacts DEF IsGate
<1>8. Node(x).op \in Ops BY <1>4, NodeFacts
<1>9. ~IsFree(x) BY <1>4, <1>5 DEF Consistent
<1>10. Node(x).op \notin {"const", "var"} BY <1>4, <1>5, <1>9 DEF Consistent
<1>11. Node(x).op # "any" BY <1>9 DEF IsFree
<1>12. Node(x).op \in {"and", "or", "impl", "eq", "not"} BY <1>8, <1>10, <1>11 DEF Ops
<1> QED BY <1>4, <1>5, <1>7, <1>12 DEF Consistent

LEMMA TruthBoolean ==
  ASSUME job \in Jobs, NEW s \in [Name -> BOOLEAN], NEW f \in [FreeNodes -> BOOLEAN],
         NEW x \in DOMAIN job.nodes
  PROVE  Truth(s, f)[x] \in BOOLEAN
<1> DEFINE T == Truth(s, f)
<1>1. Consistent(T, s, f, x) BY TruthConsistent
<1>2. Node(x).op \in Ops /\ Node(x).name \in Name /\ Node(x).val \in BOOLEAN BY NodeFacts
<1> HIDE DEF T
<1>3. CASE IsFree(x)
  <2>1. x \in FreeNodes BY <1>3 DEF FreeNodes
  <2> QED BY <1>1, <1>3, <2>1 DEF Consistent, T
<1>4. CASE ~IsFree(x)
  <2>1. Node(x).op # "any" BY <1>4 DEF IsFree
  <2>2. CASE Node(x).op = "const" BY <1>1, <1>2, <1>4, <2>2 DEF Consistent, T
  <2>3. CASE Node(x).op = "var" BY <1>1, <1>2, <1>4, <2>3 DEF Consistent, T
  <2>4. CASE Node(x).op \in {"not", "and", "or", "impl", "eq"} BY <1>1, <2>4 DEF Consistent, T
  <2> QED BY <1>2, <2>1, <2>2, <2>3, <2>4 DEF Ops
<1> QED BY <1>3, <1>4

\* Literals, and what an assignment says of them and of clauses.
Lits(k) == (1..k) \X BOOLEAN

Val(m, l) == m[l[1]] = l[2]

Sat(m, c) == \E l \in c : m[l[1]] = l[2]

LEMMA SolutionsAre ==
  ASSUME NEW cs, NEW k, NEW m
  PROVE  m \in Solutions(cs, k) <=> m \in [1..k -> BOOLEAN] /\ \A c \in cs : Sat(m, c)
BY DEF Solutions, Sat

\* The clauses of a gate define its variable.
LEMMA GateMeans ==
  ASSUME NEW k \in Nat, NEW m \in [1..k -> BOOLEAN],
         NEW h \in Lits(k), NEW a \in Lits(k), NEW b \in Lits(k)
  PROVE  /\ (\A c \in Gate("and", h, a, b) : Sat(m, c)) <=>
              (Val(m, h) <=> (Val(m, a) /\ Val(m, b)))
         /\ (\A c \in Gate("or", h, a, b) : Sat(m, c)) <=>
              (Val(m, h) <=> (Val(m, a) \/ Val(m, b)))
         /\ (\A c \in Gate("impl", h, a, b) : Sat(m, c)) <=>
              (Val(m, h) <=> (Val(m, a) => Val(m, b)))
         /\ (\A c \in Gate("eq", h, a, b) : Sat(m, c)) <=>
              (Val(m, h) <=> (Val(m, a) <=> Val(m, b)))
<1>1. ASSUME NEW l \in Lits(k) PROVE Val(m, Neg(l)) <=> ~ Val(m, l)
  <2>1. l[1] \in 1..k /\ l[2] \in BOOLEAN BY DEF Lits
  <2>2. m[l[1]] \in BOOLEAN BY <2>1
  <2>3. Neg(l)[1] = l[1] /\ Neg(l)[2] = ~ l[2] BY DEF Neg
  <2> QED BY <2>1, <2>2, <2>3 DEF Val
<1>2. ASSUME NEW p, NEW q PROVE Sat(m, {p, q}) <=> Val(m, p) \/ Val(m, q)
  BY DEF Sat, Val
<1>3. ASSUME NEW p, NEW q, NEW r PROVE Sat(m, {p, q, r}) <=> Val(m, p) \/ Val(m, q) \/ Val(m, r)
  BY DEF Sat, Val
<1>4. /\ Val(m, Neg(h)) <=> ~ Val(m, h)
      /\ Val(m, Neg(a)) <=> ~ Val(m, a)
      /\ Val(m, Neg(b)) <=> ~ Val(m, b)
  BY <1>1
<1>5. (\A c \in Gate("and", h, a, b) : Sat(m, c)) <=>
        Sat(m, {Neg(h), a}) /\ Sat(m, {Neg(h), b}) /\ Sat(m, {h, Neg(a), Neg(b)})
  BY DEF Gate
<1>6. (\A c \in Gate("or", h, a, b) : Sat(m, c)) <=>
        Sat(m, {h, Neg(a)}) /\ Sat(m, {h, Neg(b)}) /\ Sat(m, {Neg(h), a, b})
  BY DEF Gate
<1>7. (\A c \in Gate("impl", h, a, b) : Sat(m, c)) <=>
        Sat(m, {h, a}) /\ Sat(m, {h, Neg(b)}) /\ Sat(m, {Neg(h), Neg(a), b})
  BY DEF Gate
<1>8. (\A c \in Gate("eq", h, a, b) : Sat(m, c)) <=>
        /\ Sat(m, {h, Neg(a), Neg(b)}) /\ Sat(m, {h, a, b})
        /\ Sat(m, {Neg(h), a, Neg(b)}) /\ Sat(m, {Neg(h), Neg(a), b})
  BY DEF Gate
<1> HIDE DEF Sat, Val
<1>9. (\A c \in Gate("and", h, a, b) : Sat(m, c)) <=> (Val(m, h) <=> (Val(m, a) /\ Val(m, b)))
  BY <1>2, <1>3, <1>4, <1>5
<1>10. (\A c \in Gate("or", h, a, b) : Sat(m, c)) <=> (Val(m, h) <=> (Val(m, a) \/ Val(m, b)))
  BY <1>2, <1>3, <1>4, <1>6
<1>11. (\A c \in Gate("impl", h, a, b) : Sat(m, c)) <=> (Val(m, h) <=> (Val(m, a) => Val(m, b)))
  BY <1>2, <1>3, <1>4, <1>7
<1>12. (\A c \in Gate("eq", h, a, b) : Sat(m, c)) <=> (Val(m, h) <=> (Val(m, a) <=> Val(m, b)))
  BY <1>2, <1>3, <1>4, <1>8
<1> QED BY <1>9, <1>10, <1>11, <1>12

\* A clause says the same of assignments that agree on its variables.
LEMMA SatAgrees ==
  ASSUME NEW k \in Nat, NEW c \in SUBSET Lits(k), NEW m, NEW m2, \A v \in 1..k : m[v] = m2[v],
         Sat(m, c)
  PROVE  Sat(m2, c)
<1>1. PICK l \in c : m[l[1]] = l[2] BY DEF Sat
<1>2. l[1] \in 1..k BY DEF Lits
<1> QED BY <1>1, <1>2 DEF Sat

\* A variable more, with any value.
LEMMA OneVariableMore ==
  ASSUME NEW k \in Nat, NEW cs, cs \subseteq SUBSET Lits(k), NEW m \in Solutions(cs, k),
         NEW b \in BOOLEAN
  PROVE  \E m2 \in [1..k + 1 -> BOOLEAN] :
           /\ m2[k + 1] = b
           /\ \A v \in 1..k : m2[v] = m[v]
           /\ \A c \in cs : Sat(m2, c)
<1>1. m \in [1..k -> BOOLEAN] /\ \A c \in cs : Sat(m, c) BY SolutionsAre
<1> DEFINE m2 == [v \in 1..k + 1 |-> IF v = k + 1 THEN b ELSE m[v]]
<1>2. m2 \in [1..k + 1 -> BOOLEAN]
  <2>1. \A v \in 1..k + 1 : v # k + 1 => v \in 1..k OBVIOUS
  <2> QED BY <1>1, <2>1
<1>3. m2[k + 1] = b
  <2>1. k + 1 \in 1..k + 1 OBVIOUS
  <2> QED BY <2>1
<1>4. \A v \in 1..k : m2[v] = m[v]
  <2>1. \A v \in 1..k : v \in 1..k + 1 /\ v # k + 1 OBVIOUS
  <2> QED BY <2>1
<1> HIDE DEF m2
<1>5. \A v \in 1..k : m[v] = m2[v] BY <1>4
<1>6. \A c \in cs : Sat(m2, c) BY <1>1, <1>5, SatAgrees
<1> QED BY <1>2, <1>3, <1>4, <1>6

\* The part of a solution that is about the first variables.
LEMMA FirstVariables ==
  ASSUME NEW j \in Nat, NEW k \in Nat, j <= k, NEW cs, cs \subseteq SUBSET Lits(j),
         NEW ds, cs \subseteq ds, NEW m \in Solutions(ds, k)
  PROVE  \E m2 \in Solutions(cs, j) : \A v \in 1..j : m2[v] = m[v]
<1>1. m \in [1..k -> BOOLEAN] /\ \A c \in ds : Sat(m, c) BY SolutionsAre
<1> DEFINE m2 == [v \in 1..j |-> m[v]]
<1>2. m2 \in [1..j -> BOOLEAN]
  <2>1. \A v \in 1..j : v \in 1..k OBVIOUS
  <2> QED BY <1>1, <2>1
<1>3. \A v \in 1..j : m[v] = m2[v] OBVIOUS
<1> HIDE DEF m2
<1>4. \A c \in cs : Sat(m2, c) BY <1>1, <1>3, SatAgrees
<1>5. m2 \in Solutions(cs, j) BY <1>2, <1>4, SolutionsAre
<1> QED BY <1>3, <1>5

-----------------------------------------------------------------------------
(* The inductive invariant of the translation. *)

BuildTyped ==
  /\ job \in Jobs /\ other \in Cnf
  /\ root \in 1..Len(job.roots) + 1
  /\ visited \subseteq DOMAIN job.nodes
  /\ varcount \in Nat
  /\ cnfvars \in [Name -> 0..varcount]
  /\ \A m, n \in Name : cnfvars[m] = cnfvars[n] /\ cnfvars[m] # 0 => m = n
  /\ boolvars = Pairs(cnfvars)
  /\ boolvar \in 0..varcount
  /\ clauses \subseteq SUBSET Lits(varcount)
  /\ lit \in [DOMAIN job.nodes -> {None} \cup Lits(varcount)]
  /\ inferenced = [k \in Id |-> 0] /\ i = 1

Translated == {x \in DOMAIN job.nodes : lit[x] # None}

\* A node that is translated was met below the current root or below an earlier one.
Seen ==
  /\ \A x \in visited : lit[x] # None
  /\ root <= Len(job.roots) => visited \subseteq Below(job.nodes, Root)
  /\ root > Len(job.roots) => visited = {}
  /\ \A x \in Translated :
       x \in visited \/ \E k \in 1..root - 1 : x \in Below(job.nodes, job.roots[k])

\* No node takes two variables.
Room == varcount <= job.start.varcount + Cardinality(Translated)

\* The literal of a node and its clauses are what its operator says of its operands.
Meant(x) ==
  /\ \A y \in Operands(x) : lit[y] # None
  /\ IsGate(x) => Gate(Node(x).op, lit[x], lit[Node(x).l], lit[Node(x).r]) \subseteq clauses
  /\ Node(x).op = "not" => lit[x] = Neg(lit[Node(x).r])
  /\ Node(x).op = "const" /\ ~ IsFree(x) => boolvar # 0 /\ lit[x] = <<boolvar, Node(x).val>>
  /\ Node(x).op = "var" /\ ~ IsFree(x) =>
       cnfvars[Node(x).name] # 0 /\ lit[x] = Pos(cnfvars[Node(x).name])

MeantInv == \A x \in Translated : Meant(x)

\* Nothing of the CNF that was there is changed.
BaseInv ==
  /\ job.start.varcount <= varcount
  /\ job.start.clauses \subseteq clauses
  /\ \A n \in Name : job.start.cnfvars[n] # 0 => cnfvars[n] = job.start.cnfvars[n]
  /\ boolvar # 0 => {Pos(boolvar)} \in clauses

RootSkipped(k) == Node(job.roots[k]).op = "const" /\ Node(job.roots[k]).val

RootsInv ==
  \A k \in 1..root - 1 :
    RootSkipped(k) \/ (lit[job.roots[k]] # None /\ {lit[job.roots[k]]} \in clauses)

\* m gives names and nodes the values they have where names have the values s.
Agrees(m, s, f) ==
  /\ \A n \in Name : cnfvars[n] # 0 => m[cnfvars[n]] = s[n]
  /\ \A x \in Translated : Val(m, lit[x]) <=> Truth(s, f)[x]

\* s and m0 satisfy what was there, s and f the roots that are done.
Admitted(s, f, m0) ==
  /\ m0 \in Solutions(job.start.clauses, job.start.varcount)
  /\ \A n \in Name : job.start.cnfvars[n] # 0 => m0[job.start.cnfvars[n]] = s[n]
  /\ \A k \in 1..root - 1 : RootSkipped(k) \/ Truth(s, f)[job.roots[k]]

\* The clauses exclude nothing that the roots allow.
Extendable ==
  \A s \in [Name -> BOOLEAN], f \in [FreeNodes -> BOOLEAN] :
    (\E m0 : Admitted(s, f, m0)) => \E m \in Solutions(clauses, varcount) : Agrees(m, s, f)

BuildInv == BuildTyped /\ Seen /\ Room /\ MeantInv /\ BaseInv /\ RootsInv /\ Extendable

\* The names of c have values that its clauses allow.
Allowed(s, c) ==
  [n \in Named(c.cnfvars) |-> s[n]] \in Meaning(c.clauses, c.varcount, c.cnfvars)

\* What was translated says what the roots and the CNF that was there say.
Built ==
  \A N \in SUBSET Name : Named(this0.cnfvars) \subseteq N =>
    \A s \in [N -> BOOLEAN] : Allowed(s, this0) <=> Satisfies(s) /\ Allowed(s, job.start)

MergeInv ==
  /\ job \in Jobs /\ IInv /\ Built
  /\ Named(job.start.cnfvars) \subseteq Named(this0.cnfvars)
  /\ this0.clauses \subseteq SUBSET Lits(this0.varcount)
  /\ other.clauses \subseteq SUBSET Lits(other.varcount)
  /\ pc # "done" => clauses = this0.clauses
  /\ pc = "done" => clauses = this0.clauses \cup {{RenamedLit(l) : l \in c} : c \in other.clauses}

WholeInv ==
  /\ pc \in {"build", "symbols", "unnamed", "done"}
  /\ pc = "build" => BuildInv
  /\ pc # "build" => MergeInv

\* The job stays, and what is said of its nodes with it.
LEMMA SameJob ==
  ASSUME job' = job
  PROVE  /\ \A x : Node(x)' = Node(x) /\ IsFree(x)' = IsFree(x) /\ IsGate(x)' = IsGate(x)
                   /\ Operands(x)' = Operands(x)
         /\ FreeNodes' = FreeNodes
         /\ \A s, f : Truth(s, f)' = Truth(s, f)
         /\ \A k : RootSkipped(k)' = RootSkipped(k)
<1>1. \A x : Node(x)' = Node(x) BY DEF Node
<1>2. \A x : IsFree(x)' = IsFree(x) BY DEF IsFree, Node, Free, Ignoring
<1>3. \A x : IsGate(x)' = IsGate(x) BY DEF IsGate, Node
<1>4. \A x : Operands(x)' = Operands(x) BY DEF Operands, Node
<1>5. FreeNodes' = FreeNodes BY <1>2 DEF FreeNodes
<1>6. ASSUME NEW s, NEW f PROVE Truth(s, f)' = Truth(s, f)
  BY DEF Truth, Value, IsFree, Node, Free, Ignoring
<1>7. \A k : RootSkipped(k)' = RootSkipped(k) BY <1>1 DEF RootSkipped, Node
<1> QED BY <1>1, <1>2, <1>3, <1>4, <1>5, <1>6, <1>7

LEMMA CnfTyped ==
  ASSUME NEW c \in Cnf
  PROVE  WellFormed(c) /\ c.varcount \in Nat /\ c.clauses \subseteq SUBSET Lits(c.varcount)
<1>1. PICK k \in 0..MaxVar : c \in [cnfvars : NameMaps(k), varcount : {k}, clauses : ClausesOf[k]]
  BY DEF Cnf
<1>2. c.varcount = k /\ c.clauses \in ClausesOf[k] BY <1>1
<1>3. c.clauses \subseteq SUBSET Lits(k) BY <1>2, ClausesAssumption DEF Lits
<1>4. k \in Nat BY MergeAssumption
<1> QED BY <1>2, <1>3, <1>4, InitWellFormed

LEMMA InitWholeInv == BuildInit => WholeInv
<1> SUFFICES ASSUME BuildInit PROVE WholeInv OBVIOUS
<1> USE DEF BuildInit
<1>1. job \in Jobs /\ job.start \in Cnf /\ other \in Cnf /\ this0 = job.start BY JobFacts
<1>2. WellFormed(job.start) /\ varcount \in Nat /\ clauses \subseteq SUBSET Lits(varcount)
  BY <1>1, CnfTyped
<1>3. Translated = {} BY DEF Translated
<1>4. BuildTyped
  <2>1. root \in 1..Len(job.roots) + 1 BY <1>1, JobFacts
  <2>2. lit \in [DOMAIN job.nodes -> {None} \cup Lits(varcount)] OBVIOUS
  <2>3. boolvar \in 0..varcount BY <1>2
  <2>4. /\ cnfvars \in [Name -> 0..varcount]
        /\ \A m, n \in Name : cnfvars[m] = cnfvars[n] /\ cnfvars[m] # 0 => m = n
    BY <1>1, <1>2 DEF WellFormed
  <2> QED BY <1>1, <1>2, <2>1, <2>2, <2>3, <2>4 DEF BuildTyped
<1>5. Seen BY <1>3 DEF Seen
<1>6. Room
  <2>1. Cardinality(Translated) = 0 BY <1>3, FS_EmptySet
  <2> QED BY <1>1, <1>2, <2>1 DEF Room
<1>7. MeantInv BY <1>3 DEF MeantInv
<1>8. BaseInv BY <1>1, <1>2 DEF BaseInv
<1>9. RootsInv BY DEF RootsInv
<1>10. Extendable
  <2>1. ASSUME NEW s, NEW f, NEW m0, Admitted(s, f, m0)
        PROVE  m0 \in Solutions(clauses, varcount) /\ Agrees(m0, s, f)
    BY <1>1, <1>3, <2>1 DEF Admitted, Agrees
  <2> QED BY <2>1 DEF Extendable
<1>11. BuildInv BY <1>4, <1>5, <1>6, <1>7, <1>8, <1>9, <1>10 DEF BuildInv
<1> QED BY <1>11 DEF WholeInv

\* Where the translation is when it visits a node.
LEMMA VisitFacts ==
  ASSUME BuildInv, NEW x \in DOMAIN job.nodes, Visit(x)
  PROVE  /\ root \in 1..Len(job.roots) /\ Root \in DOMAIN job.nodes
         /\ x \in Below(job.nodes, Root)
         /\ \A y \in Operands(x) : y \in DOMAIN job.nodes /\ lit[y] # None /\ y # x
         /\ Node(x).op = "any" => lit[x] = None
         /\ UNCHANGED <<this0, other, inferenced, counter, todo, i, pc, job, root>>
         /\ visited' = visited \cup {x}
<1>1. /\ job \in Jobs /\ root \in 1..Len(job.roots) + 1 /\ visited \subseteq DOMAIN job.nodes
      /\ lit \in [DOMAIN job.nodes -> {None} \cup Lits(varcount)]
  BY DEF BuildInv, BuildTyped
<1>2. root \in 1..Len(job.roots) BY <1>1, JobFacts DEF Visit
<1>3. Root \in DOMAIN job.nodes BY <1>1, <1>2, JobFacts DEF Root
<1>4. /\ Root \in Below(job.nodes, Root)
      /\ \A y \in Below(job.nodes, Root) :
           y \in 1..Root /\ {job.nodes[y].l, job.nodes[y].r} \ {0} \subseteq Below(job.nodes, Root)
  BY <1>1, <1>3, JobFacts, BelowClosed
<1>5. /\ x \in Below(job.nodes, Root) /\ x \notin visited
      /\ \A y \in Below(job.nodes, Root) \ visited : x <= y
  BY DEF Visit, Pending
<1>6. ASSUME NEW y \in Operands(x)
      PROVE  y \in DOMAIN job.nodes /\ lit[y] # None /\ y # x
  <2>1. y \in DOMAIN job.nodes /\ y < x /\ x \in Nat /\ y \in Nat BY <1>1, JobFacts, NodeFacts
  <2>2. y \in Below(job.nodes, Root) BY <1>4, <1>5 DEF Operands, Node
  <2>3. y \in visited BY <1>5, <2>1, <2>2
  <2>4. lit[y] # None BY <2>3 DEF BuildInv, Seen
  <2> QED BY <2>1, <2>4
<1>7. ASSUME Node(x).op = "any" PROVE lit[x] = None
  <2>1. SUFFICES ASSUME lit[x] # None PROVE FALSE OBVIOUS
  <2>2. x \in Translated BY <2>1 DEF Translated
  <2>3. PICK k \in 1..root - 1 : x \in Below(job.nodes, job.roots[k])
    BY <1>5, <2>2 DEF BuildInv, Seen
  <2>4. DOMAIN job.roots = 1..Len(job.roots) /\ Len(job.roots) \in Nat BY <1>1, JobFacts
  <2>5. k \in DOMAIN job.roots /\ root \in DOMAIN job.roots /\ k # root BY <1>2, <2>4
  <2>6. x \in Below(job.nodes, job.roots[k]) /\ x \in Below(job.nodes, job.roots[root])
    BY <1>5, <2>3 DEF Root
  <2>7. job.nodes[x].op = "any" BY <1>7 DEF Node
  <2> QED BY <1>1, <2>5, <2>6, <2>7, JobsAssumption
<1>8. /\ UNCHANGED <<this0, other, inferenced, counter, todo, i, pc, job, root>>
      /\ visited' = visited \cup {x}
  BY DEF Visit
<1> QED BY <1>2, <1>3, <1>5, <1>6, <1>7, <1>8

\* A node that has its literal keeps it.
LEMMA VisitKnown ==
  ASSUME BuildInv, NEW x \in DOMAIN job.nodes, Visit(x), lit[x] # None, Kept, UNCHANGED lit
  PROVE  BuildInv'
<1>1. /\ root \in 1..Len(job.roots) /\ x \in Below(job.nodes, Root)
      /\ UNCHANGED <<this0, other, inferenced, counter, todo, i, pc, job, root>>
      /\ visited' = visited \cup {x}
  BY VisitFacts
<1>2. UNCHANGED <<cnfvars, boolvars, varcount, clauses, boolvar, lit>> BY DEF Kept
<1>3. /\ \A y : Node(y)' = Node(y) /\ IsFree(y)' = IsFree(y) /\ IsGate(y)' = IsGate(y)
                /\ Operands(y)' = Operands(y)
      /\ FreeNodes' = FreeNodes
      /\ \A s, f : Truth(s, f)' = Truth(s, f)
      /\ \A k : RootSkipped(k)' = RootSkipped(k)
  BY <1>1, SameJob
<1>4. Root' = Root /\ Translated' = Translated BY <1>1, <1>2 DEF Root, Translated
<1>5. BuildTyped' BY <1>1, <1>2 DEF BuildInv, BuildTyped, Pairs, Named
<1>6. Seen'
  <2>1. \A y \in visited' : lit'[y] # None BY <1>1, <1>2 DEF BuildInv, Seen
  <2>2. root' <= Len(job.roots)' => visited' \subseteq Below(job.nodes, Root)'
    BY <1>1, <1>4 DEF BuildInv, Seen
  <2>3. ~(root' > Len(job.roots)') BY <1>1
  <2>4. \A y \in Translated' : y \in visited' \/ \E k \in 1..root' - 1 : y \in Below(job.nodes, job.roots[k])'
    BY <1>1, <1>4 DEF BuildInv, Seen
  <2> QED BY <2>1, <2>2, <2>3, <2>4 DEF Seen
<1>7. Room' BY <1>1, <1>2, <1>4 DEF BuildInv, Room
<1>8. MeantInv' BY <1>2, <1>3, <1>4 DEF BuildInv, MeantInv, Meant
<1>9. BaseInv' BY <1>1, <1>2 DEF BuildInv, BaseInv
<1>10. RootsInv' BY <1>1, <1>2, <1>3 DEF BuildInv, RootsInv
<1>11. Extendable'
  <2>1. \A s, f, m : Agrees(m, s, f)' <=> Agrees(m, s, f) BY <1>2, <1>3, <1>4 DEF Agrees
  <2>2. \A s, f, m : Admitted(s, f, m)' <=> Admitted(s, f, m) BY <1>1, <1>3 DEF Admitted, Solutions
  <2>3. Solutions(clauses, varcount)' = Solutions(clauses, varcount) BY <1>2
  <2> QED BY <1>3, <2>1, <2>2, <2>3 DEF BuildInv, Extendable
<1> QED BY <1>5, <1>6, <1>7, <1>8, <1>9, <1>10, <1>11 DEF BuildInv

\* Agrees, of the next state.
AgreesNext(m, s, f) ==
  /\ \A n \in Name : cnfvars'[n] # 0 => m[cnfvars'[n]] = s[n]
  /\ \A x \in DOMAIN job.nodes : lit'[x] # None => (Val(m, lit'[x]) <=> Truth(s, f)[x])

\* An assignment that goes on with a new node's value.
LEMMA AgreesStep ==
  ASSUME BuildInv, job' = job, NEW x \in DOMAIN job.nodes, lit[x] = None,
         NEW q, lit' = [lit EXCEPT ![x] = q],
         NEW s, NEW f, NEW m, Agrees(m, s, f),
         NEW m2, \A v \in 1..varcount : m2[v] = m[v],
         \A n \in Name : cnfvars'[n] # 0 => m2[cnfvars'[n]] = s[n],
         Val(m2, q) <=> Truth(s, f)[x]
  PROVE  AgreesNext(m2, s, f)
<1>1. lit \in [DOMAIN job.nodes -> {None} \cup Lits(varcount)] BY DEF BuildInv, BuildTyped
<1>2. lit'[x] = q /\ \A y \in DOMAIN job.nodes : y # x => lit'[y] = lit[y] BY <1>1
<1>3. ASSUME NEW y \in DOMAIN job.nodes, lit'[y] # None PROVE Val(m2, lit'[y]) <=> Truth(s, f)[y]
  <2>1. CASE y = x BY <1>2, <2>1
  <2>2. CASE y # x
    <3>1. lit'[y] = lit[y] /\ y \in Translated BY <1>2, <1>3, <2>2 DEF Translated
    <3>2. lit[y] \in Lits(varcount) BY <1>1, <3>1 DEF Translated
    <3>3. m2[lit[y][1]] = m[lit[y][1]] BY <3>2 DEF Lits
    <3>4. Val(m, lit[y]) <=> Truth(s, f)[y] BY <3>1 DEF Agrees
    <3> QED BY <3>1, <3>3, <3>4 DEF Val
  <2> QED BY <2>1, <2>2
<1> QED BY <1>3 DEF AgreesNext

\* What a visit adds, and that it takes nothing away.
Grown ==
  /\ varcount' \in {varcount, varcount + 1}
  /\ clauses \subseteq clauses' /\ clauses' \subseteq SUBSET Lits(varcount')
  /\ cnfvars' \in [Name -> 0..varcount']
  /\ \A m, n \in Name : cnfvars'[m] = cnfvars'[n] /\ cnfvars'[m] # 0 => m = n
  /\ boolvars' = Pairs(cnfvars')
  /\ \A n \in Name : cnfvars[n] # 0 => cnfvars'[n] = cnfvars[n]
  /\ boolvar' \in 0..varcount' /\ (boolvar # 0 => boolvar' = boolvar)
  /\ boolvar' # 0 => {Pos(boolvar')} \in clauses'

\* Solutions that agree with values of names and free nodes go on to do so.
Followed ==
  \A s \in [Name -> BOOLEAN], f \in [FreeNodes -> BOOLEAN] :
    \A m \in Solutions(clauses, varcount) : Agrees(m, s, f) =>
      \E m2 \in Solutions(clauses', varcount') : AgreesNext(m2, s, f)

\* A node gets its literal. The operands are others and have theirs.
LEMMA VisitNew ==
  ASSUME BuildInv, NEW x \in DOMAIN job.nodes, Visit(x), lit[x] = None,
         NEW q \in Lits(varcount'), lit' = [lit EXCEPT ![x] = q],
         Grown, Meant(x)', Followed
  PROVE  BuildInv'
<1> USE DEF Grown
<1>1. /\ root \in 1..Len(job.roots) /\ x \in Below(job.nodes, Root)
      /\ \A y \in Operands(x) : y \in DOMAIN job.nodes /\ lit[y] # None /\ y # x
      /\ UNCHANGED <<this0, other, inferenced, counter, todo, i, pc, job, root>>
      /\ visited' = visited \cup {x}
  BY VisitFacts
<1>2. /\ job \in Jobs /\ varcount \in Nat /\ visited \subseteq DOMAIN job.nodes
      /\ lit \in [DOMAIN job.nodes -> {None} \cup Lits(varcount)]
      /\ clauses \subseteq SUBSET Lits(varcount)
  BY DEF BuildInv, BuildTyped
<1>3. /\ \A y : Node(y)' = Node(y) /\ IsFree(y)' = IsFree(y) /\ IsGate(y)' = IsGate(y)
                /\ Operands(y)' = Operands(y)
      /\ FreeNodes' = FreeNodes
      /\ \A s, f : Truth(s, f)' = Truth(s, f)
      /\ \A k : RootSkipped(k)' = RootSkipped(k)
  BY <1>1, SameJob
<1>4. varcount' \in Nat /\ varcount <= varcount' /\ varcount' <= varcount + 1 BY <1>2
<1>5. q # None
  <2>1. q[1] \in 1..varcount' BY DEF Lits
  <2>2. q[1] # 0 BY <1>4, <2>1
  <2>3. None[1] = 0 BY DEF None
  <2> QED BY <2>2, <2>3
<1>6. lit'[x] = q /\ \A y \in DOMAIN job.nodes : y # x => lit'[y] = lit[y] BY <1>2
<1>7. Root' = Root /\ Translated' = Translated \cup {x} /\ x \notin Translated
  BY <1>1, <1>5, <1>6 DEF Root, Translated
<1>8. Lits(varcount) \subseteq Lits(varcount') BY <1>2, <1>4 DEF Lits
<1>9. BuildTyped'
  <2>1. lit' \in [DOMAIN job.nodes -> {None} \cup Lits(varcount')]
    <3>1. \A y \in DOMAIN job.nodes : lit'[y] \in {None} \cup Lits(varcount')
      BY <1>2, <1>6, <1>8
    <3> QED BY <1>2, <3>1
  <2>2. visited' \subseteq DOMAIN job.nodes BY <1>1, <1>2
  <2>3. other \in Cnf /\ inferenced = [k \in Id |-> 0] /\ i = 1 BY DEF BuildInv, BuildTyped
  <2>4. (Lits(varcount))' = Lits(varcount') BY DEF Lits
  <2>5. root \in 1..Len(job.roots) + 1 BY <1>2, <1>1, JobFacts
  <2>6. (Pairs(cnfvars))' = Pairs(cnfvars') BY DEF Pairs, Named
  <2> QED BY <1>1, <1>2, <1>4, <2>1, <2>2, <2>3, <2>4, <2>5, <2>6 DEF BuildTyped
<1>10. Seen'
  <2>1. \A y \in visited' : lit'[y] # None BY <1>1, <1>2, <1>5, <1>6 DEF BuildInv, Seen
  <2>2. root' <= Len(job.roots)' => visited' \subseteq Below(job.nodes, Root)'
    BY <1>1, <1>7 DEF BuildInv, Seen
  <2>3. ~(root' > Len(job.roots)') BY <1>1, <1>2, JobFacts
  <2>4. \A y \in Translated' :
          y \in visited' \/ \E k \in 1..root' - 1 : y \in Below(job.nodes, job.roots[k])'
    BY <1>1, <1>7 DEF BuildInv, Seen
  <2> QED BY <2>1, <2>2, <2>3, <2>4 DEF Seen
<1>11. Room'
  <2>1. IsFiniteSet(DOMAIN job.nodes)
    <3>1. DOMAIN job.nodes = 1..Len(job.nodes) /\ Len(job.nodes) \in Nat BY <1>2, JobFacts
    <3>2. PICK n \in Nat : n = Len(job.nodes) BY <3>1
    <3>3. IsFiniteSet(1..n) BY FS_Interval
    <3> QED BY <3>1, <3>2, <3>3
  <2>2. IsFiniteSet(Translated) BY <2>1, FS_Subset DEF Translated
  <2>3. Cardinality(Translated \cup {x}) = Cardinality(Translated) + 1
        /\ Cardinality(Translated) \in Nat
    BY <1>7, <2>2, FS_AddElement, FS_CardinalityType
  <2>4. job.start.varcount \in Nat BY <1>2, JobFacts, CnfTyped
  <2> QED BY <1>1, <1>2, <1>4, <1>7, <2>3, <2>4 DEF BuildInv, Room
<1>12. MeantInv'
  <2>1. ASSUME NEW y \in Translated PROVE Meant(y)'
    <3>1. Meant(y) /\ y \in DOMAIN job.nodes /\ y # x
      BY <1>7 DEF BuildInv, MeantInv, Translated
    <3>2. \A z \in Operands(y) : z \in DOMAIN job.nodes /\ lit[z] # None /\ lit'[z] = lit[z]
      <4>1. Operands(y) \subseteq DOMAIN job.nodes BY <1>2, <3>1, NodeFacts
      <4>2. \A z \in Operands(y) : lit[z] # None BY <3>1 DEF Meant
      <4>3. \A z \in Operands(y) : z # x BY <4>2
      <4> QED BY <1>6, <4>1, <4>2, <4>3
    <3>3. lit'[y] = lit[y] BY <1>6, <3>1
    <3>4. IsGate(y) => lit'[Node(y).l] = lit[Node(y).l] /\ lit'[Node(y).r] = lit[Node(y).r]
      BY <1>2, <3>1, <3>2, NodeFacts
    <3>5. Node(y).op = "not" => lit'[Node(y).r] = lit[Node(y).r]
      BY <1>2, <3>1, <3>2, NodeFacts
    <3>6. Node(y).op = "var" => Node(y).name \in Name BY <1>2, <3>1, NodeFacts
    <3>7. \A z \in Operands(y)' : lit'[z] # None BY <1>3, <3>2
    <3>8. IsGate(y)' =>
            Gate(Node(y)'.op, lit'[y], lit'[Node(y)'.l], lit'[Node(y)'.r]) \subseteq clauses'
      BY <1>3, <3>1, <3>3, <3>4 DEF Meant
    <3>9. Node(y)'.op = "not" => lit'[y] = Neg(lit'[Node(y)'.r])
      BY <1>3, <3>1, <3>3, <3>5 DEF Meant
    <3>10. Node(y)'.op = "const" /\ ~ IsFree(y)' =>
             boolvar' # 0 /\ lit'[y] = <<boolvar', Node(y)'.val>>
      BY <1>3, <3>1, <3>3 DEF Meant
    <3>11. Node(y)'.op = "var" /\ ~ IsFree(y)' =>
             cnfvars'[Node(y)'.name] # 0 /\ lit'[y] = Pos(cnfvars'[Node(y)'.name])
      BY <1>3, <3>1, <3>3, <3>6 DEF Meant
    <3>12. (Meant(y))' <=>
             /\ \A z \in Operands(y)' : lit'[z] # None
             /\ IsGate(y)' =>
                  Gate(Node(y)'.op, lit'[y], lit'[Node(y)'.l], lit'[Node(y)'.r]) \subseteq clauses'
             /\ Node(y)'.op = "not" => lit'[y] = Neg(lit'[Node(y)'.r])
             /\ Node(y)'.op = "const" /\ ~ IsFree(y)' =>
                  boolvar' # 0 /\ lit'[y] = <<boolvar', Node(y)'.val>>
             /\ Node(y)'.op = "var" /\ ~ IsFree(y)' =>
                  cnfvars'[Node(y)'.name] # 0 /\ lit'[y] = Pos(cnfvars'[Node(y)'.name])
      BY DEF Meant, Gate, Neg, Pos
    <3> QED BY <3>7, <3>8, <3>9, <3>10, <3>11, <3>12
  <2> QED BY <1>7, <2>1 DEF MeantInv
<1>13. BaseInv'
  <2>1. job.start.varcount \in Nat BY <1>2, JobFacts, CnfTyped
  <2>2. /\ job.start.varcount <= varcount /\ job.start.clauses \subseteq clauses
        /\ \A n \in Name : job.start.cnfvars[n] # 0 => cnfvars[n] = job.start.cnfvars[n]
    BY DEF BuildInv, BaseInv
  <2> QED BY <1>1, <1>2, <1>4, <2>1, <2>2 DEF BaseInv, Pos
<1>14. RootsInv'
  <2>1. ASSUME NEW k \in 1..root - 1, ~ RootSkipped(k)
        PROVE  lit'[job.roots[k]] # None /\ {lit'[job.roots[k]]} \in clauses'
    <3>1. lit[job.roots[k]] # None /\ {lit[job.roots[k]]} \in clauses
      BY <2>1 DEF BuildInv, RootsInv
    <3>2. k \in 1..Len(job.roots) BY <1>1, <1>2, JobFacts
    <3>3. job.roots[k] \in DOMAIN job.nodes BY <1>2, <3>2, JobFacts
    <3>4. job.roots[k] # x BY <3>1
    <3> QED BY <1>6, <3>1, <3>3, <3>4
  <2> QED BY <1>1, <1>3, <2>1 DEF RootsInv
<1>15. Extendable'
  <2>1. \A s, f, m : Admitted(s, f, m)' <=> Admitted(s, f, m) BY <1>1, <1>3 DEF Admitted, Solutions
  <2>2. (Solutions(clauses, varcount))' = Solutions(clauses', varcount') BY DEF Solutions
  <2>3. ASSUME NEW s \in [Name -> BOOLEAN], NEW f \in [FreeNodes -> BOOLEAN],
               NEW m0, Admitted(s, f, m0)
        PROVE  \E m \in Solutions(clauses', varcount') : Agrees(m, s, f)'
    <3>1. PICK m1 \in Solutions(clauses, varcount) : Agrees(m1, s, f)
      BY <2>3 DEF BuildInv, Extendable
    <3>2. PICK m \in Solutions(clauses', varcount') : AgreesNext(m, s, f) BY <3>1 DEF Followed
    <3>3. Agrees(m, s, f)' BY <1>1, <1>3, <3>2 DEF Agrees, AgreesNext, Translated, Val
    <3> QED BY <3>2, <3>3
  <2> QED BY <1>3, <2>1, <2>2, <2>3 DEF Extendable
<1> QED BY <1>9, <1>10, <1>11, <1>12, <1>13, <1>14, <1>15 DEF BuildInv

\* The solutions of the clauses so far, with one more variable.
LEMMA GrownSolution ==
  ASSUME BuildInv, NEW m \in Solutions(clauses, varcount), NEW b \in BOOLEAN
  PROVE  \E m2 \in [1..varcount + 1 -> BOOLEAN] :
           /\ m2[varcount + 1] = b
           /\ \A v \in 1..varcount : m2[v] = m[v]
           /\ \A c \in clauses : Sat(m2, c)
<1>1. varcount \in Nat /\ clauses \subseteq SUBSET Lits(varcount) BY DEF BuildInv, BuildTyped
<1> QED BY <1>1, OneVariableMore

\* The literal q of the node x has a new variable.
Grows(x, q) ==
  /\ job' = job /\ varcount' = varcount + 1
  /\ lit[x] = None /\ q[1] = varcount' /\ lit' = [lit EXCEPT ![x] = q]

\* The value b of that variable suits the names and the node.
Suits(b, s, f, x, q) ==
  /\ (b = q[2]) <=> Truth(s, f)[x]
  /\ \A n \in Name : cnfvars'[n] # 0 =>
       \/ cnfvars'[n] = cnfvars[n]
       \/ cnfvars'[n] = varcount' /\ b = s[n]

LEMMA GrownAgrees ==
  ASSUME BuildInv, NEW x \in DOMAIN job.nodes, NEW q, Grows(x, q),
         NEW s, NEW f, NEW m \in Solutions(clauses, varcount), Agrees(m, s, f),
         NEW b \in BOOLEAN, Suits(b, s, f, x, q)
  PROVE  \E m2 \in [1..varcount' -> BOOLEAN] :
           /\ m2[varcount'] = b
           /\ \A v \in 1..varcount : m2[v] = m[v]
           /\ \A c \in clauses : Sat(m2, c)
           /\ AgreesNext(m2, s, f)
<1>1. varcount \in Nat /\ cnfvars \in [Name -> 0..varcount] BY DEF BuildInv, BuildTyped
<1>2. PICK m2 \in [1..varcount + 1 -> BOOLEAN] :
        /\ m2[varcount + 1] = b
        /\ \A v \in 1..varcount : m2[v] = m[v]
        /\ \A c \in clauses : Sat(m2, c)
  BY GrownSolution
<1>3. ASSUME NEW n \in Name, cnfvars'[n] # 0 PROVE m2[cnfvars'[n]] = s[n]
  <2>1. CASE cnfvars'[n] = cnfvars[n]
    <3>1. cnfvars[n] \in 1..varcount /\ cnfvars[n] # 0 BY <1>1, <1>3, <2>1
    <3>2. m[cnfvars[n]] = s[n] BY <3>1 DEF Agrees
    <3> QED BY <1>2, <2>1, <3>1, <3>2
  <2>2. CASE cnfvars'[n] = varcount' /\ b = s[n] BY <1>2, <2>2 DEF Grows
  <2> QED BY <1>3, <2>1, <2>2 DEF Suits
<1>4. Val(m2, q) <=> Truth(s, f)[x] BY <1>2 DEF Val, Grows, Suits
<1>5. job' = job /\ lit[x] = None /\ lit' = [lit EXCEPT ![x] = q] BY DEF Grows
<1>6. AgreesNext(m2, s, f) BY <1>2, <1>3, <1>4, <1>5, AgreesStep
<1>7. varcount' = varcount + 1 BY DEF Grows
<1> QED BY <1>2, <1>6, <1>7

\* operator() of the nodes that get a variable and no clauses.
LEMMA NewFreeKeeps ==
  ASSUME BuildInv, NEW x \in DOMAIN job.nodes, Visit(x), lit[x] = None, NewFree(x)
  PROVE  BuildInv'
<1>1. /\ UNCHANGED <<this0, other, inferenced, counter, todo, i, pc, job, root>>
      /\ \A y \in Operands(x) : y \in DOMAIN job.nodes /\ lit[y] # None /\ y # x
  BY VisitFacts
<1>2. /\ IsFree(x) /\ varcount' = varcount + 1 /\ lit' = [lit EXCEPT ![x] = Pos(varcount')]
      /\ UNCHANGED <<cnfvars, boolvars, clauses, boolvar>>
  BY DEF NewFree
<1>3. /\ job \in Jobs /\ varcount \in Nat /\ clauses \subseteq SUBSET Lits(varcount)
      /\ lit \in [DOMAIN job.nodes -> {None} \cup Lits(varcount)]
      /\ cnfvars \in [Name -> 0..varcount] /\ boolvars = Pairs(cnfvars) /\ boolvar \in 0..varcount
      /\ \A m, n \in Name : cnfvars[m] = cnfvars[n] /\ cnfvars[m] # 0 => m = n
      /\ boolvar # 0 => {Pos(boolvar)} \in clauses
  BY DEF BuildInv, BuildTyped, BaseInv
<1>4. /\ varcount' \in Nat /\ varcount' \in 1..varcount' /\ 0..varcount \subseteq 0..varcount'
      /\ 1..varcount \subseteq 1..varcount'
  BY <1>2, <1>3
<1>5. Pos(varcount') \in Lits(varcount') /\ Lits(varcount) \subseteq Lits(varcount')
  BY <1>4 DEF Pos, Lits
<1>6. Meant(x)'
  <2>1. \A y \in Operands(x) : lit'[y] # None BY <1>1, <1>2, <1>3
  <2>2. Node(x).op \in {"any", "const", "var"} BY <1>2 DEF IsFree
  <2>3. IsFree(x)' /\ Node(x)' = Node(x) /\ Operands(x)' = Operands(x) BY <1>1, <1>2, SameJob
  <2>4. ~ IsGate(x)' /\ Node(x)'.op # "not" BY <2>2, <2>3 DEF IsGate
  <2> QED BY <2>1, <2>3, <2>4 DEF Meant
<1>7. PICK q \in Lits(varcount') : q = Pos(varcount') BY <1>5
<1>8. q[1] = varcount' /\ q[2] = TRUE /\ lit' = [lit EXCEPT ![x] = q] BY <1>2, <1>7 DEF Pos
<1>9. Grows(x, q) BY <1>1, <1>2, <1>8 DEF Grows
<1>10. ASSUME NEW s \in [Name -> BOOLEAN], NEW f \in [FreeNodes -> BOOLEAN],
              NEW m \in Solutions(clauses, varcount), Agrees(m, s, f)
       PROVE  \E m2 \in Solutions(clauses', varcount') : AgreesNext(m2, s, f)
  <2>1. Truth(s, f)[x] \in BOOLEAN BY <1>3, TruthBoolean
  <2>2. PICK b \in BOOLEAN : b = Truth(s, f)[x] BY <2>1
  <2>3. Suits(b, s, f, x, q) BY <1>2, <1>8, <2>2 DEF Suits
  <2>4. PICK m2 \in [1..varcount' -> BOOLEAN] :
          (\A c \in clauses : Sat(m2, c)) /\ AgreesNext(m2, s, f)
    BY <1>9, <1>10, <2>3, GrownAgrees
  <2>5. m2 \in Solutions(clauses', varcount') BY <1>2, <2>4, SolutionsAre
  <2> QED BY <2>4, <2>5
<1>11. Grown BY <1>2, <1>3, <1>4, <1>5 DEF Grown, Pairs, Named
<1>12. Followed BY <1>10 DEF Followed
<1> QED BY <1>2, <1>6, <1>7, <1>8, <1>11, <1>12, VisitNew

\* The clauses of a gate are about its three variables.
LEMMA GateLits ==
  ASSUME NEW k \in Nat, NEW h \in Lits(k), NEW a \in Lits(k), NEW b \in Lits(k),
         NEW op \in {"and", "or", "impl", "eq"}
  PROVE  Gate(op, h, a, b) \subseteq SUBSET Lits(k)
<1>1. ASSUME NEW l \in Lits(k) PROVE Neg(l) \in Lits(k) BY DEF Neg, Lits
<1>2. Neg(h) \in Lits(k) /\ Neg(a) \in Lits(k) /\ Neg(b) \in Lits(k) BY <1>1
<1>3. CASE op = "and" BY <1>2, <1>3 DEF Gate
<1>4. CASE op = "or" BY <1>2, <1>4 DEF Gate
<1>5. CASE op = "impl" BY <1>2, <1>5 DEF Gate
<1>6. CASE op = "eq" BY <1>2, <1>6 DEF Gate
<1> QED BY <1>3, <1>4, <1>5, <1>6

\* They hold where the variables have the values of the node and of its operands.
LEMMA GateHolds ==
  ASSUME NEW x, IsGate(x), NEW T, NEW s, NEW f, Consistent(T, s, f, x),
         T[Node(x).l] \in BOOLEAN, T[Node(x).r] \in BOOLEAN,
         NEW k \in Nat, NEW m \in [1..k -> BOOLEAN],
         NEW h \in Lits(k), NEW a \in Lits(k), NEW b \in Lits(k),
         Val(m, h) <=> T[x], Val(m, a) <=> T[Node(x).l], Val(m, b) <=> T[Node(x).r]
  PROVE  \A c \in Gate(Node(x).op, h, a, b) : Sat(m, c)
<1>1. CASE Node(x).op = "and"
  <2>1. T[x] = (T[Node(x).l] /\ T[Node(x).r]) BY <1>1 DEF Consistent
  <2> QED BY <1>1, <2>1, GateMeans
<1>2. CASE Node(x).op = "or"
  <2>1. T[x] = (T[Node(x).l] \/ T[Node(x).r]) BY <1>2 DEF Consistent
  <2> QED BY <1>2, <2>1, GateMeans
<1>3. CASE Node(x).op = "impl"
  <2>1. T[x] = (T[Node(x).l] => T[Node(x).r]) BY <1>3 DEF Consistent
  <2> QED BY <1>3, <2>1, GateMeans
<1>4. CASE Node(x).op = "eq"
  <2>1. T[x] = (T[Node(x).l] = T[Node(x).r]) BY <1>4 DEF Consistent
  <2>2. Val(m, h) <=> (Val(m, a) <=> Val(m, b)) BY <2>1
  <2>3. (\A c \in Gate("eq", h, a, b) : Sat(m, c)) <=> (Val(m, h) <=> (Val(m, a) <=> Val(m, b)))
    BY GateMeans
  <2> QED BY <1>4, <2>2, <2>3
<1> QED BY <1>1, <1>2, <1>3, <1>4 DEF IsGate

\* operator() of the binary operators.
LEMMA NewGateKeeps ==
  ASSUME BuildInv, NEW x \in DOMAIN job.nodes, Visit(x), lit[x] = None, NewGate(x)
  PROVE  BuildInv'
<1> DEFINE l == Node(x).l
           r == Node(x).r
<1>1. /\ UNCHANGED <<this0, other, inferenced, counter, todo, i, pc, job, root>>
      /\ \A y \in Operands(x) : y \in DOMAIN job.nodes /\ lit[y] # None /\ y # x
  BY VisitFacts
<1>2. /\ IsGate(x) /\ varcount' = varcount + 1 /\ lit' = [lit EXCEPT ![x] = Pos(varcount')]
      /\ clauses' = clauses \cup Gate(Node(x).op, lit'[x], lit[l], lit[r])
      /\ UNCHANGED <<cnfvars, boolvars, boolvar>>
  BY DEF NewGate
<1>3. /\ job \in Jobs /\ varcount \in Nat /\ clauses \subseteq SUBSET Lits(varcount)
      /\ lit \in [DOMAIN job.nodes -> {None} \cup Lits(varcount)]
      /\ cnfvars \in [Name -> 0..varcount] /\ boolvars = Pairs(cnfvars) /\ boolvar \in 0..varcount
      /\ \A m, n \in Name : cnfvars[m] = cnfvars[n] /\ cnfvars[m] # 0 => m = n
      /\ boolvar # 0 => {Pos(boolvar)} \in clauses
  BY DEF BuildInv, BuildTyped, BaseInv
<1>4. /\ varcount' \in Nat /\ varcount' \in 1..varcount' /\ 0..varcount \subseteq 0..varcount'
      /\ 1..varcount \subseteq 1..varcount'
  BY <1>2, <1>3
<1>5. Pos(varcount') \in Lits(varcount') /\ Lits(varcount) \subseteq Lits(varcount')
  BY <1>4 DEF Pos, Lits
<1>6. PICK q \in Lits(varcount') : q = Pos(varcount') BY <1>5
<1>7. q[1] = varcount' /\ q[2] = TRUE /\ lit' = [lit EXCEPT ![x] = q] /\ lit'[x] = q
  BY <1>2, <1>3, <1>6 DEF Pos
<1>8. /\ l \in Operands(x) /\ r \in Operands(x) /\ l \in DOMAIN job.nodes /\ r \in DOMAIN job.nodes
      /\ l # x /\ r # x /\ lit[l] # None /\ lit[r] # None
      /\ lit[l] \in Lits(varcount) /\ lit[r] \in Lits(varcount)
      /\ lit'[l] = lit[l] /\ lit'[r] = lit[r]
  <2>1. l \in Operands(x) /\ r \in Operands(x) BY <1>2, <1>3, NodeFacts
  <2> QED BY <1>1, <1>3, <1>7, <2>1
<1>9. PICK a \in Lits(varcount') : a = lit[l] BY <1>5, <1>8
<1>10. PICK b \in Lits(varcount') : b = lit[r] BY <1>5, <1>8
<1>11. clauses' = clauses \cup Gate(Node(x).op, q, a, b) BY <1>2, <1>7, <1>9, <1>10
<1>12. Node(x).op \in {"and", "or", "impl", "eq"} BY <1>2 DEF IsGate
<1>13. Gate(Node(x).op, q, a, b) \subseteq SUBSET Lits(varcount') BY <1>4, <1>12, GateLits
<1>14. Grown
  <2>1. clauses \subseteq clauses' /\ clauses' \subseteq SUBSET Lits(varcount')
    BY <1>3, <1>5, <1>11, <1>13
  <2>2. boolvars' = Pairs(cnfvars') BY <1>2, <1>3 DEF Pairs, Named
  <2> QED BY <1>2, <1>3, <1>4, <2>1, <2>2 DEF Grown
<1>15. Meant(x)'
  <2>1. \A y \in Operands(x) : lit'[y] # None BY <1>1, <1>3, <1>7
  <2>2. IsGate(x)' = IsGate(x) /\ IsFree(x)' = IsFree(x) /\ Node(x)' = Node(x)
        /\ Operands(x)' = Operands(x)
    BY <1>1, SameJob
  <2>3. Gate(Node(x).op, lit'[x], lit'[l], lit'[r]) \subseteq clauses' BY <1>2, <1>8
  <2> QED BY <1>12, <2>1, <2>2, <2>3 DEF Meant, Gate, Neg
<1> HIDE DEF l, r
<1>16. Grows(x, q) BY <1>1, <1>2, <1>7 DEF Grows
<1>17. ASSUME NEW s \in [Name -> BOOLEAN], NEW f \in [FreeNodes -> BOOLEAN],
              NEW m \in Solutions(clauses, varcount), Agrees(m, s, f)
       PROVE  \E m2 \in Solutions(clauses', varcount') : AgreesNext(m2, s, f)
  <2>1. PICK T : T = Truth(s, f) OBVIOUS
  <2>2. T[x] \in BOOLEAN /\ T[l] \in BOOLEAN /\ T[r] \in BOOLEAN
    BY <1>3, <1>8, <2>1, TruthBoolean
  <2>3. PICK v \in BOOLEAN : v = Truth(s, f)[x] BY <2>1, <2>2
  <2>4. Suits(v, s, f, x, q) BY <1>2, <1>7, <2>3 DEF Suits
  <2>5. PICK m2 \in [1..varcount' -> BOOLEAN] :
          (\A c \in clauses : Sat(m2, c)) /\ AgreesNext(m2, s, f)
    BY <1>16, <1>17, <2>4, GrownAgrees
  <2>6. /\ Val(m2, q) <=> T[x]
        /\ Val(m2, a) <=> T[l]
        /\ Val(m2, b) <=> T[r]
    <3>1. \A y \in DOMAIN job.nodes : lit'[y] # None => (Val(m2, lit'[y]) <=> T[y])
      BY <2>1, <2>5 DEF AgreesNext
    <3>2. q # None
      <4>1. None[1] = 0 BY DEF None
      <4> QED BY <1>4, <1>7, <4>1
    <3> QED BY <1>7, <1>8, <1>9, <1>10, <3>1, <3>2
  <2>7. Consistent(T, s, f, x) BY <1>3, <2>1, TruthConsistent
  <2>8. \A c \in Gate(Node(x).op, q, a, b) : Sat(m2, c)
    BY <1>2, <1>4, <2>2, <2>6, <2>7, GateHolds DEF l, r
  <2>9. m2 \in Solutions(clauses', varcount') BY <1>11, <2>5, <2>8, SolutionsAre
  <2> QED BY <2>5, <2>9
<1>18. Followed BY <1>17 DEF Followed
<1> QED BY <1>7, <1>14, <1>15, <1>18, VisitNew

\* What the invariant says of the state, for the visits.
LEMMA Before ==
  ASSUME BuildInv
  PROVE  /\ job \in Jobs /\ varcount \in Nat /\ clauses \subseteq SUBSET Lits(varcount)
         /\ lit \in [DOMAIN job.nodes -> {None} \cup Lits(varcount)]
         /\ cnfvars \in [Name -> 0..varcount] /\ boolvars = Pairs(cnfvars)
         /\ boolvar \in 0..varcount
         /\ \A m, n \in Name : cnfvars[m] = cnfvars[n] /\ cnfvars[m] # 0 => m = n
         /\ boolvar # 0 => {Pos(boolvar)} \in clauses
BY DEF BuildInv, BuildTyped, BaseInv

LEMMA UnitClause ==
  ASSUME NEW m, NEW v
  PROVE  Sat(m, {Pos(v)}) <=> m[v] = TRUE
<1>1. Pos(v)[1] = v /\ Pos(v)[2] = TRUE BY DEF Pos
<1> QED BY <1>1 DEF Sat

\* operator() of BoolExpNot.
LEMMA NewNotKeeps ==
  ASSUME BuildInv, NEW x \in DOMAIN job.nodes, Visit(x), lit[x] = None, NewNot(x)
  PROVE  BuildInv'
<1> DEFINE r == Node(x).r
<1>1. /\ UNCHANGED <<this0, other, inferenced, counter, todo, i, pc, job, root>>
      /\ \A y \in Operands(x) : y \in DOMAIN job.nodes /\ lit[y] # None /\ y # x
  BY VisitFacts
<1>2. /\ Node(x).op = "not" /\ lit' = [lit EXCEPT ![x] = Neg(lit[r])]
      /\ UNCHANGED <<cnfvars, boolvars, varcount, clauses, boolvar>>
  BY DEF NewNot, Kept
<1>3. /\ job \in Jobs /\ varcount \in Nat /\ clauses \subseteq SUBSET Lits(varcount)
      /\ lit \in [DOMAIN job.nodes -> {None} \cup Lits(varcount)]
      /\ cnfvars \in [Name -> 0..varcount] /\ boolvars = Pairs(cnfvars) /\ boolvar \in 0..varcount
      /\ \A m, n \in Name : cnfvars[m] = cnfvars[n] /\ cnfvars[m] # 0 => m = n
      /\ boolvar # 0 => {Pos(boolvar)} \in clauses
  BY Before
<1>4. r \in DOMAIN job.nodes /\ r # x /\ lit[r] \in Lits(varcount) /\ lit'[r] = lit[r]
  <2>1. r \in Operands(x) BY <1>2, <1>3, NodeFacts
  <2> QED BY <1>1, <1>2, <1>3, <2>1
<1>5. PICK q \in Lits(varcount') : q = Neg(lit[r])
  <2>1. Neg(lit[r]) \in Lits(varcount) BY <1>4 DEF Neg, Lits
  <2> QED BY <1>2, <2>1
<1>6. lit' = [lit EXCEPT ![x] = q] /\ lit'[x] = q BY <1>2, <1>3, <1>5
<1>7. Grown BY <1>2, <1>3 DEF Grown, Pairs, Named
<1>8. Meant(x)'
  <2>1. \A y \in Operands(x) : lit'[y] # None BY <1>1, <1>3, <1>6
  <2>2. IsGate(x)' = IsGate(x) /\ IsFree(x)' = IsFree(x) /\ Node(x)' = Node(x)
        /\ Operands(x)' = Operands(x)
    BY <1>1, SameJob
  <2>3. ~ IsGate(x) BY <1>2 DEF IsGate
  <2>4. lit'[x] = Neg(lit'[r]) BY <1>4, <1>5, <1>6
  <2> QED BY <1>2, <2>1, <2>2, <2>3, <2>4 DEF Meant, Neg
<1> HIDE DEF r
<1>9. ASSUME NEW s \in [Name -> BOOLEAN], NEW f \in [FreeNodes -> BOOLEAN],
             NEW m \in Solutions(clauses, varcount), Agrees(m, s, f)
      PROVE  \E m2 \in Solutions(clauses', varcount') : AgreesNext(m2, s, f)
  <2>1. PICK T : T = Truth(s, f) OBVIOUS
  <2>2. T[x] = ~ T[r] /\ T[r] \in BOOLEAN
    BY <1>2, <1>3, <1>4, <2>1, TruthConsistent, TruthBoolean DEF Consistent, r
  <2>3. Val(m, lit[r]) <=> T[r] BY <1>1, <1>2, <1>3, <1>4, <1>9, <2>1, NodeFacts DEF Agrees, Translated, r
  <2>4. Val(m, q) <=> ~ Val(m, lit[r])
    <3>1. lit[r][1] \in 1..varcount /\ lit[r][2] \in BOOLEAN BY <1>4 DEF Lits
    <3>2. m \in [1..varcount -> BOOLEAN] BY SolutionsAre
    <3>3. m[lit[r][1]] \in BOOLEAN BY <3>1, <3>2
    <3>4. q[1] = lit[r][1] /\ q[2] = ~ lit[r][2] BY <1>5 DEF Neg
    <3> QED BY <3>1, <3>3, <3>4 DEF Val
  <2>5. Val(m, q) <=> Truth(s, f)[x] BY <2>1, <2>2, <2>3, <2>4
  <2>6. \A n \in Name : cnfvars'[n] # 0 => m[cnfvars'[n]] = s[n] BY <1>2, <1>9 DEF Agrees
  <2>7. AgreesNext(m, s, f) BY <1>1, <1>6, <1>9, <2>5, <2>6, AgreesStep
  <2> QED BY <1>2, <2>7
<1>10. Followed BY <1>9 DEF Followed
<1> QED BY <1>6, <1>7, <1>8, <1>10, VisitNew

\* operator() of BoolExpConst: the first constant gets a variable that is true.
LEMMA NewConstKeeps ==
  ASSUME BuildInv, NEW x \in DOMAIN job.nodes, Visit(x), lit[x] = None, NewConst(x)
  PROVE  BuildInv'
<1>1. /\ UNCHANGED <<this0, other, inferenced, counter, todo, i, pc, job, root>>
      /\ \A y \in Operands(x) : y \in DOMAIN job.nodes /\ lit[y] # None /\ y # x
  BY VisitFacts
<1>2. /\ Node(x).op = "const" /\ ~ IsFree(x)
      /\ lit' = [lit EXCEPT ![x] = <<boolvar', Node(x).val>>]
      /\ UNCHANGED <<cnfvars, boolvars>>
  BY DEF NewConst
<1>3. /\ job \in Jobs /\ varcount \in Nat /\ clauses \subseteq SUBSET Lits(varcount)
      /\ lit \in [DOMAIN job.nodes -> {None} \cup Lits(varcount)]
      /\ cnfvars \in [Name -> 0..varcount] /\ boolvars = Pairs(cnfvars) /\ boolvar \in 0..varcount
      /\ \A m, n \in Name : cnfvars[m] = cnfvars[n] /\ cnfvars[m] # 0 => m = n
      /\ boolvar # 0 => {Pos(boolvar)} \in clauses
  BY Before
<1>4. \/ boolvar # 0 /\ UNCHANGED <<varcount, clauses, boolvar>>
      \/ /\ boolvar = 0 /\ varcount' = varcount + 1 /\ boolvar' = varcount'
         /\ clauses' = clauses \cup {{Pos(varcount')}}
  BY DEF NewConst, Pos
<1>5. varcount' \in Nat /\ boolvar' \in 1..varcount' /\ Lits(varcount) \subseteq Lits(varcount')
  BY <1>3, <1>4 DEF Lits
<1>6. Node(x).val \in BOOLEAN BY <1>3, NodeFacts
<1>7. PICK q \in Lits(varcount') : q = <<boolvar', Node(x).val>> BY <1>5, <1>6 DEF Lits
<1>8. /\ lit' = [lit EXCEPT ![x] = q] /\ lit'[x] = q /\ q[1] = boolvar' /\ q[2] = Node(x).val
  BY <1>2, <1>3, <1>7
<1>9. Grown
  <2>1. {Pos(boolvar')} \in SUBSET Lits(varcount')
    <3>1. Pos(boolvar') \in Lits(varcount') BY <1>5 DEF Pos, Lits
    <3> QED BY <3>1
  <2>2. clauses \subseteq clauses' /\ clauses' \subseteq SUBSET Lits(varcount')
        /\ {Pos(boolvar')} \in clauses'
    BY <1>3, <1>4, <1>5, <2>1
  <2>3. varcount' \in {varcount, varcount + 1} /\ 0..varcount \subseteq 0..varcount'
    BY <1>3, <1>4
  <2>4. cnfvars' \in [Name -> 0..varcount'] BY <1>2, <1>3, <2>3
  <2>5. boolvars' = Pairs(cnfvars') BY <1>2, <1>3 DEF Pairs, Named
  <2>6. boolvar' \in 0..varcount' /\ (boolvar # 0 => boolvar' = boolvar) BY <1>4, <1>5
  <2> QED BY <1>2, <1>3, <2>2, <2>3, <2>4, <2>5, <2>6 DEF Grown
<1>10. Meant(x)'
  <2>1. \A y \in Operands(x) : lit'[y] # None BY <1>1, <1>3, <1>8
  <2>2. IsGate(x)' = IsGate(x) /\ IsFree(x)' = IsFree(x) /\ Node(x)' = Node(x)
        /\ Operands(x)' = Operands(x)
    BY <1>1, SameJob
  <2>3. ~ IsGate(x) /\ Node(x).op # "not" /\ Node(x).op # "var" BY <1>2 DEF IsGate
  <2>4. boolvar' # 0 /\ lit'[x] = <<boolvar', Node(x).val>> BY <1>5, <1>7, <1>8
  <2> QED BY <2>1, <2>2, <2>3, <2>4 DEF Meant
<1>11. ASSUME NEW s \in [Name -> BOOLEAN], NEW f \in [FreeNodes -> BOOLEAN],
              NEW m \in Solutions(clauses, varcount), Agrees(m, s, f)
       PROVE  \E m2 \in Solutions(clauses', varcount') : AgreesNext(m2, s, f)
  <2>1. Truth(s, f)[x] = Node(x).val BY <1>2, <1>3, TruthConsistent DEF Consistent
  <2>2. CASE boolvar # 0
    <3>1. UNCHANGED <<varcount, clauses, boolvar>> BY <1>4, <2>2
    <3>2. m[boolvar] = TRUE
      <4>1. Sat(m, {Pos(boolvar)}) BY <1>3, <2>2, SolutionsAre
      <4> QED BY <4>1, UnitClause
    <3>3. Val(m, q) <=> Truth(s, f)[x] BY <1>6, <1>8, <2>1, <3>1, <3>2 DEF Val
    <3>4. \A n \in Name : cnfvars'[n] # 0 => m[cnfvars'[n]] = s[n] BY <1>2, <1>11 DEF Agrees
    <3>5. AgreesNext(m, s, f) BY <1>1, <1>8, <1>11, <3>3, <3>4, AgreesStep
    <3> QED BY <3>1, <3>5
  <2>3. CASE boolvar = 0
    <3>1. varcount' = varcount + 1 /\ boolvar' = varcount'
          /\ clauses' = clauses \cup {{Pos(varcount')}}
      BY <1>4, <2>3
    <3>2. Grows(x, q) BY <1>1, <1>8, <3>1 DEF Grows
    <3>3. PICK b \in BOOLEAN : b = TRUE OBVIOUS
    <3>4. Suits(b, s, f, x, q) BY <1>2, <1>6, <1>8, <2>1, <3>3 DEF Suits
    <3>5. PICK m2 \in [1..varcount' -> BOOLEAN] :
            m2[varcount'] = b /\ (\A c \in clauses : Sat(m2, c)) /\ AgreesNext(m2, s, f)
      BY <1>11, <3>2, <3>4, GrownAgrees
    <3>6. Sat(m2, {Pos(varcount')}) BY <3>3, <3>5, UnitClause
    <3>7. \A c \in clauses' : Sat(m2, c) BY <3>1, <3>5, <3>6
    <3>8. m2 \in Solutions(clauses', varcount') BY <3>5, <3>7, SolutionsAre
    <3> QED BY <3>5, <3>8
  <2> QED BY <2>2, <2>3
<1>12. Followed BY <1>11 DEF Followed
<1> QED BY <1>8, <1>9, <1>10, <1>12, VisitNew

\* operator() of BoolExpVar: a name gets a variable when it has none.
LEMMA NewVarKeeps ==
  ASSUME BuildInv, NEW x \in DOMAIN job.nodes, Visit(x), lit[x] = None, NewVar(x)
  PROVE  BuildInv'
<1> DEFINE n0 == Node(x).name
<1>1. /\ UNCHANGED <<this0, other, inferenced, counter, todo, i, pc, job, root>>
      /\ \A y \in Operands(x) : y \in DOMAIN job.nodes /\ lit[y] # None /\ y # x
  BY VisitFacts
<1>2. /\ Node(x).op = "var" /\ ~ IsFree(x)
      /\ lit' = [lit EXCEPT ![x] = Pos(cnfvars'[n0])]
      /\ UNCHANGED <<clauses, boolvar>>
  BY DEF NewVar
<1>3. /\ job \in Jobs /\ varcount \in Nat /\ clauses \subseteq SUBSET Lits(varcount)
      /\ lit \in [DOMAIN job.nodes -> {None} \cup Lits(varcount)]
      /\ cnfvars \in [Name -> 0..varcount] /\ boolvars = Pairs(cnfvars) /\ boolvar \in 0..varcount
      /\ \A m, n \in Name : cnfvars[m] = cnfvars[n] /\ cnfvars[m] # 0 => m = n
      /\ boolvar # 0 => {Pos(boolvar)} \in clauses
  BY Before
<1>4. n0 \in Name BY <1>3, NodeFacts
<1>5. \/ cnfvars[n0] # 0 /\ UNCHANGED <<cnfvars, boolvars, varcount>>
      \/ /\ cnfvars[n0] = 0 /\ varcount' = varcount + 1
         /\ cnfvars' = [cnfvars EXCEPT ![n0] = varcount + 1]
         /\ boolvars' = {p \in boolvars : p[1] # varcount + 1} \cup {<<varcount + 1, n0>>}
  BY DEF NewVar, SetCNFVar
<1> HIDE DEF n0
<1>6. /\ varcount' \in {varcount, varcount + 1} /\ varcount' \in Nat
      /\ Lits(varcount) \subseteq Lits(varcount')
      /\ cnfvars'[n0] \in 1..varcount' /\ (cnfvars[n0] = 0 => cnfvars'[n0] = varcount')
      /\ \A n \in Name : n # n0 => cnfvars'[n] = cnfvars[n]
      /\ cnfvars[n0] # 0 => cnfvars'[n0] = cnfvars[n0]
  <2>1. varcount' \in {varcount, varcount + 1} /\ varcount' \in Nat BY <1>3, <1>5
  <2>2. Lits(varcount) \subseteq Lits(varcount') BY <1>3, <2>1 DEF Lits
  <2>3. cnfvars[n0] \in 0..varcount BY <1>3, <1>4
  <2> QED BY <1>3, <1>4, <1>5, <2>1, <2>2, <2>3
<1>7. PICK q \in Lits(varcount') : q = Pos(cnfvars'[n0]) BY <1>6 DEF Pos, Lits
<1>8. lit' = [lit EXCEPT ![x] = q] /\ lit'[x] = q /\ q[1] = cnfvars'[n0] /\ q[2] = TRUE
  BY <1>2, <1>3, <1>7 DEF Pos
<1>9. Grown
  <2>1. cnfvars' \in [Name -> 0..varcount']
    <3>1. 0..varcount \subseteq 0..varcount' /\ 1..varcount' \subseteq 0..varcount' BY <1>3, <1>6
    <3>2. \A n \in Name : cnfvars'[n] \in 0..varcount' BY <1>3, <1>4, <1>6, <3>1
    <3>3. cnfvars' = [n \in Name |-> cnfvars'[n]] BY <1>3, <1>5
    <3> QED BY <3>2, <3>3
  <2>2. \A n \in Name : cnfvars[n] # 0 => cnfvars'[n] = cnfvars[n] BY <1>6
  <2>3. \A n \in Name : cnfvars[n] # varcount + 1
    <3>1. ASSUME NEW n \in Name PROVE cnfvars[n] # varcount + 1
      <4>1. cnfvars[n] \in 0..varcount BY <1>3
      <4> QED BY <1>3, <4>1
    <3> QED BY <3>1
  <2>4. \A m, n \in Name : cnfvars'[m] = cnfvars'[n] /\ cnfvars'[m] # 0 => m = n
    BY <1>3, <1>5, <1>6, <2>3
  <2>5. boolvars' = Pairs(cnfvars')
    <3>1. CASE cnfvars[n0] # 0 BY <1>3, <1>5, <3>1 DEF Pairs, Named
    <3>2. CASE cnfvars[n0] = 0
      <4>1. {p \in boolvars : p[1] # varcount + 1} = Pairs(cnfvars)
        BY <1>3, <2>3 DEF Pairs, Named
      <4>2. boolvars' = Pairs(cnfvars) \cup {<<varcount + 1, n0>>} BY <1>5, <3>2, <4>1
      <4>3. Named(cnfvars') = Named(cnfvars) \cup {n0} BY <1>3, <1>4, <1>6 DEF Named
      <4>4. \A n \in Named(cnfvars) : cnfvars'[n] = cnfvars[n] BY <2>2 DEF Named
      <4>5. cnfvars'[n0] = varcount + 1 BY <1>5, <1>6, <3>2
      <4> QED BY <4>2, <4>3, <4>4, <4>5 DEF Pairs
    <3> QED BY <3>1, <3>2
  <2>6. clauses \subseteq clauses' /\ clauses' \subseteq SUBSET Lits(varcount') BY <1>2, <1>3, <1>6
  <2>7. boolvar' \in 0..varcount' /\ (boolvar # 0 => boolvar' = boolvar)
        /\ (boolvar' # 0 => {Pos(boolvar')} \in clauses')
    BY <1>2, <1>3, <1>6
  <2> QED BY <1>6, <2>1, <2>2, <2>4, <2>5, <2>6, <2>7 DEF Grown
<1>10. Meant(x)'
  <2>1. \A y \in Operands(x) : lit'[y] # None BY <1>1, <1>3, <1>8
  <2>2. IsGate(x)' = IsGate(x) /\ IsFree(x)' = IsFree(x) /\ Node(x)' = Node(x)
        /\ Operands(x)' = Operands(x)
    BY <1>1, SameJob
  <2>3. ~ IsGate(x) /\ Node(x).op # "not" /\ Node(x).op # "const" BY <1>2 DEF IsGate
  <2>4. cnfvars'[n0] # 0 /\ lit'[x] = Pos(cnfvars'[n0]) BY <1>6, <1>7, <1>8
  <2> QED BY <2>1, <2>2, <2>3, <2>4 DEF Meant, Pos, n0
<1>11. ASSUME NEW s \in [Name -> BOOLEAN], NEW f \in [FreeNodes -> BOOLEAN],
              NEW m \in Solutions(clauses, varcount), Agrees(m, s, f)
       PROVE  \E m2 \in Solutions(clauses', varcount') : AgreesNext(m2, s, f)
  <2>1. Truth(s, f)[x] = s[n0] /\ s[n0] \in BOOLEAN
    BY <1>2, <1>3, <1>4, TruthConsistent DEF Consistent, n0
  <2>2. CASE cnfvars[n0] # 0
    <3>1. UNCHANGED <<cnfvars, boolvars, varcount>> BY <1>5, <2>2
    <3>2. \A n \in Name : cnfvars'[n] # 0 => m[cnfvars'[n]] = s[n] BY <1>11, <3>1 DEF Agrees
    <3>3. m[cnfvars'[n0]] = s[n0] BY <1>4, <2>2, <3>1, <3>2
    <3>4. Val(m, q) <=> Truth(s, f)[x] BY <1>8, <2>1, <3>3 DEF Val
    <3>5. AgreesNext(m, s, f) BY <1>1, <1>8, <1>11, <3>2, <3>4, AgreesStep
    <3> QED BY <1>2, <3>1, <3>5
  <2>3. CASE cnfvars[n0] = 0
    <3>1. varcount' = varcount + 1 /\ cnfvars'[n0] = varcount' BY <1>5, <1>6, <2>3
    <3>2. Grows(x, q) BY <1>1, <1>8, <3>1 DEF Grows
    <3>3. PICK b \in BOOLEAN : b = s[n0] BY <2>1
    <3>4. Suits(b, s, f, x, q) BY <1>6, <1>8, <2>1, <3>1, <3>3 DEF Suits
    <3>5. PICK m2 \in [1..varcount' -> BOOLEAN] :
            (\A c \in clauses : Sat(m2, c)) /\ AgreesNext(m2, s, f)
      BY <1>11, <3>2, <3>4, GrownAgrees
    <3>6. m2 \in Solutions(clauses', varcount') BY <1>2, <3>5, SolutionsAre
    <3> QED BY <3>5, <3>6
  <2> QED BY <2>2, <2>3
<1>12. Followed BY <1>11 DEF Followed
<1> QED BY <1>8, <1>9, <1>10, <1>12, VisitNew

LEMMA VisitKeeps ==
  ASSUME BuildInv, NEW x \in DOMAIN job.nodes, Visit(x)
  PROVE  BuildInv'
<1>1. CASE lit[x] # None
  <2>1. Node(x).op # "any" BY <1>1, VisitFacts
  <2>2. Kept /\ UNCHANGED lit BY <1>1, <2>1 DEF Visit
  <2> QED BY <1>1, <2>2, VisitKnown
<1>2. CASE lit[x] = None
  <2>1. NewFree(x) \/ NewGate(x) \/ NewNot(x) \/ NewConst(x) \/ NewVar(x) BY <1>2 DEF Visit
  <2> QED BY <1>2, <2>1, NewFreeKeeps, NewGateKeeps, NewNotKeeps, NewConstKeeps, NewVarKeeps
<1> QED BY <1>1, <1>2

\* A root's clause: its literal is there, and excludes what does not satisfy the root.
LEMMA PushClauseKeeps ==
  ASSUME BuildInv, PushClause
  PROVE  BuildInv'
<1>1. /\ root <= Len(job.roots) /\ (Skipped \/ Pending = {})
      /\ clauses' = IF Skipped THEN clauses ELSE clauses \cup {{lit[Root]}}
      /\ root' = root + 1 /\ visited' = {}
      /\ UNCHANGED <<this0, other, cnfvars, boolvars, varcount, inferenced, counter, todo, i, pc,
                     job, lit, boolvar>>
  BY DEF PushClause
<1>2. /\ job \in Jobs /\ varcount \in Nat /\ clauses \subseteq SUBSET Lits(varcount)
      /\ lit \in [DOMAIN job.nodes -> {None} \cup Lits(varcount)]
  BY Before
<1>3. /\ \A y : Node(y)' = Node(y) /\ IsFree(y)' = IsFree(y) /\ IsGate(y)' = IsGate(y)
                /\ Operands(y)' = Operands(y)
      /\ FreeNodes' = FreeNodes
      /\ \A s, f : Truth(s, f)' = Truth(s, f)
      /\ \A k : RootSkipped(k)' = RootSkipped(k)
  BY <1>1, SameJob
<1>4. /\ Len(job.roots) \in Nat /\ root \in 1..Len(job.roots) /\ root \in Nat
      /\ root' - 1 = root /\ 1..root = 1..root - 1 \cup {root}
  <2>1. Len(job.roots) \in Nat /\ root \in 1..Len(job.roots) + 1
    BY <1>2, JobFacts DEF BuildInv, BuildTyped
  <2> QED BY <1>1, <2>1
<1>5. Root = job.roots[root] /\ Root \in DOMAIN job.nodes BY <1>2, <1>4, JobFacts DEF Root
<1>6. Skipped <=> RootSkipped(root) BY <1>5 DEF Skipped, RootSkipped
<1>7. ~ Skipped => lit[Root] # None /\ lit[Root] \in Lits(varcount)
  <2>1. ASSUME ~ Skipped PROVE lit[Root] # None
    <3>1. Root \in Below(job.nodes, Root) BY <1>2, <1>5, JobFacts, BelowClosed
    <3>2. Root \in visited BY <1>1, <2>1, <3>1 DEF Pending
    <3> QED BY <3>2 DEF BuildInv, Seen
  <2> QED BY <1>2, <1>5, <2>1
<1>8. clauses \subseteq clauses' BY <1>1
<1>9. BuildTyped'
  <2>1. clauses' \subseteq SUBSET Lits(varcount) BY <1>1, <1>2, <1>7
  <2>2. root' \in 1..Len(job.roots) + 1 BY <1>1, <1>4
  <2> QED BY <1>1, <2>1, <2>2 DEF BuildInv, BuildTyped, Pairs, Named, Lits
<1>10. Translated' = Translated BY <1>1 DEF Translated
<1>11. Seen'
  <2>1. ASSUME NEW x \in Translated PROVE \E k \in 1..root : x \in Below(job.nodes, job.roots[k])
    <3>1. CASE x \in visited
      <4>1. x \in Below(job.nodes, job.roots[root]) BY <1>1, <1>5, <3>1 DEF BuildInv, Seen
      <4> QED BY <1>4, <4>1
    <3>2. CASE x \notin visited BY <1>4, <3>2 DEF BuildInv, Seen
    <3> QED BY <3>1, <3>2
  <2> QED BY <1>1, <1>4, <1>10, <2>1 DEF Seen
<1>12. Room' BY <1>1, <1>10 DEF BuildInv, Room
<1>13. MeantInv' BY <1>1, <1>3, <1>8, <1>10 DEF BuildInv, MeantInv, Meant
<1>14. BaseInv' BY <1>1, <1>8 DEF BuildInv, BaseInv
<1>15. RootsInv'
  <2>1. ASSUME NEW k \in 1..root - 1, ~ RootSkipped(k)
        PROVE  lit[job.roots[k]] # None /\ {lit[job.roots[k]]} \in clauses'
    BY <1>8, <2>1 DEF BuildInv, RootsInv
  <2>2. ~ RootSkipped(root) => lit[job.roots[root]] # None /\ {lit[job.roots[root]]} \in clauses'
    BY <1>1, <1>5, <1>6, <1>7
  <2> QED BY <1>1, <1>3, <1>4, <2>1, <2>2 DEF RootsInv
<1>16. Extendable'
  <2>1. \A s, f, m : Admitted(s, f, m)' =>
          Admitted(s, f, m) /\ (RootSkipped(root) \/ Truth(s, f)[Root])
    BY <1>1, <1>3, <1>4, <1>5 DEF Admitted, Solutions
  <2>2. \A s, f, m : Agrees(m, s, f)' <=> Agrees(m, s, f) BY <1>1, <1>3, <1>10 DEF Agrees
  <2>3. (Solutions(clauses, varcount))' = Solutions(clauses', varcount) BY <1>1 DEF Solutions
  <2>4. ASSUME NEW s \in [Name -> BOOLEAN], NEW f \in [FreeNodes -> BOOLEAN],
               NEW m0, Admitted(s, f, m0), RootSkipped(root) \/ Truth(s, f)[Root]
        PROVE  \E m \in Solutions(clauses', varcount) : Agrees(m, s, f)
    <3>1. PICK m \in Solutions(clauses, varcount) : Agrees(m, s, f)
      BY <2>4 DEF BuildInv, Extendable
    <3>2. ASSUME ~ Skipped PROVE Sat(m, {lit[Root]})
      <4>1. Truth(s, f)[Root] BY <1>6, <2>4, <3>2
      <4>2. Root \in Translated BY <1>5, <1>7, <3>2 DEF Translated
      <4>3. Val(m, lit[Root]) BY <3>1, <4>1, <4>2 DEF Agrees
      <4> QED BY <4>3 DEF Sat, Val
    <3>3. \A c \in clauses' : Sat(m, c) BY <1>1, <3>1, <3>2, SolutionsAre
    <3>4. m \in Solutions(clauses', varcount) BY <3>1, <3>3, SolutionsAre
    <3> QED BY <3>1, <3>4
  <2> QED BY <1>3, <2>1, <2>2, <2>3, <2>4 DEF Extendable
<1> QED BY <1>9, <1>11, <1>12, <1>13, <1>14, <1>15, <1>16 DEF BuildInv

LEMMA AllowedIs ==
  ASSUME NEW s, NEW c
  PROVE  Allowed(s, c) <=> \E m \in Solutions(c.clauses, c.varcount) :
                             \A n \in Named(c.cnfvars) : s[n] = m[c.cnfvars[n]]
<1> DEFINE S == Solutions(c.clauses, c.varcount)
           N == Named(c.cnfvars)
           F(m) == [n \in N |-> m[c.cnfvars[n]]]
           G == [n \in N |-> s[n]]
<1>1. Meaning(c.clauses, c.varcount, c.cnfvars) = {F(m) : m \in S} BY DEF Meaning
<1>2. Allowed(s, c) <=> \E m \in S : G = F(m) BY <1>1 DEF Allowed
<1>3. ASSUME NEW m PROVE G = F(m) <=> \A n \in N : s[n] = m[c.cnfvars[n]]
  <2>1. ASSUME G = F(m), NEW n \in N PROVE s[n] = m[c.cnfvars[n]]
    <3>1. G[n] = s[n] /\ F(m)[n] = m[c.cnfvars[n]] OBVIOUS
    <3> QED BY <2>1, <3>1
  <2> QED BY <2>1
<1> HIDE DEF S, N, F, G
<1>4. Allowed(s, c) <=> \E m \in S : \A n \in N : s[n] = m[c.cnfvars[n]] BY <1>2, <1>3
<1> QED BY <1>4 DEF S, N

\* The values that a solution gives to the nodes are those their operators give them.
LEMMA SolutionConsistent ==
  ASSUME BuildInv, NEW m \in Solutions(clauses, varcount), NEW s, NEW f, NEW T,
         \A n \in Named(cnfvars) : s[n] = m[cnfvars[n]],
         \A x \in Translated : T[x] = Val(m, lit[x]),
         \A x \in Translated : IsFree(x) => f[x] = T[x],
         NEW x \in Translated
  PROVE  Consistent(T, s, f, x)
<1>1. /\ job \in Jobs /\ varcount \in Nat /\ clauses \subseteq SUBSET Lits(varcount)
      /\ lit \in [DOMAIN job.nodes -> {None} \cup Lits(varcount)]
      /\ cnfvars \in [Name -> 0..varcount] /\ boolvar \in 0..varcount
      /\ boolvar # 0 => {Pos(boolvar)} \in clauses
  BY Before
<1>2. m \in [1..varcount -> BOOLEAN] /\ \A c \in clauses : Sat(m, c) BY SolutionsAre
<1>3. x \in DOMAIN job.nodes /\ lit[x] \in Lits(varcount) /\ Meant(x)
  BY <1>1 DEF Translated, BuildInv, MeantInv
<1>4. \A y \in Operands(x) : y \in Translated /\ lit[y] \in Lits(varcount) /\ T[y] = Val(m, lit[y])
  <2>1. ASSUME NEW y \in Operands(x) PROVE y \in Translated /\ lit[y] \in Lits(varcount)
    <3>1. y \in DOMAIN job.nodes BY <1>1, <1>3, NodeFacts
    <3>2. lit[y] # None BY <1>3 DEF Meant
    <3> QED BY <1>1, <3>1, <3>2 DEF Translated
  <2> QED BY <2>1
<1>5. /\ Node(x).op \in Ops /\ Node(x).name \in Name /\ Node(x).val \in BOOLEAN
      /\ IsGate(x) => Node(x).l \in Operands(x) /\ Node(x).r \in Operands(x)
      /\ Node(x).op = "not" => Node(x).r \in Operands(x)
  BY <1>1, <1>3, NodeFacts
<1>6. T[x] = Val(m, lit[x]) /\ (IsFree(x) => T[x] = f[x]) OBVIOUS
<1>7. ASSUME Node(x).op = "const", ~ IsFree(x) PROVE T[x] = Node(x).val
  <2>1. boolvar # 0 /\ lit[x] = <<boolvar, Node(x).val>> BY <1>3, <1>7 DEF Meant
  <2>2. m[boolvar] = TRUE
    <3>1. Sat(m, {Pos(boolvar)}) BY <1>1, <1>2, <2>1
    <3> QED BY <3>1, UnitClause
  <2>3. lit[x][1] = boolvar /\ lit[x][2] = Node(x).val BY <2>1
  <2> QED BY <1>5, <1>6, <2>2, <2>3 DEF Val
<1>8. ASSUME Node(x).op = "var", ~ IsFree(x) PROVE T[x] = s[Node(x).name]
  <2>1. cnfvars[Node(x).name] # 0 /\ lit[x] = Pos(cnfvars[Node(x).name]) BY <1>3, <1>8 DEF Meant
  <2>2. lit[x][1] = cnfvars[Node(x).name] /\ lit[x][2] = TRUE BY <2>1 DEF Pos
  <2>3. s[Node(x).name] = m[cnfvars[Node(x).name]] BY <1>5, <2>1 DEF Named
  <2>4. m[cnfvars[Node(x).name]] \in BOOLEAN
    <3>1. cnfvars[Node(x).name] \in 1..varcount BY <1>1, <1>5, <2>1
    <3> QED BY <1>2, <3>1
  <2> QED BY <1>6, <2>2, <2>3, <2>4 DEF Val
<1>9. ASSUME Node(x).op = "not" PROVE T[x] = ~ T[Node(x).r]
  <2>1. lit[x] = Neg(lit[Node(x).r]) BY <1>3, <1>9 DEF Meant
  <2>2. PICK l \in Lits(varcount) : l = lit[Node(x).r] BY <1>4, <1>5, <1>9
  <2>3. T[Node(x).r] = Val(m, l) BY <1>4, <1>5, <1>9, <2>2
  <2>4. l[1] \in 1..varcount /\ l[2] \in BOOLEAN BY DEF Lits
  <2>5. m[l[1]] \in BOOLEAN BY <1>2, <2>4
  <2>6. lit[x][1] = l[1] /\ lit[x][2] = ~ l[2] BY <2>1, <2>2 DEF Neg
  <2> QED BY <1>6, <2>3, <2>4, <2>5, <2>6 DEF Val
<1>10. ASSUME IsGate(x)
       PROVE  /\ Node(x).op = "and" => T[x] = (T[Node(x).l] /\ T[Node(x).r])
              /\ Node(x).op = "or" => T[x] = (T[Node(x).l] \/ T[Node(x).r])
              /\ Node(x).op = "impl" => T[x] = (T[Node(x).l] => T[Node(x).r])
              /\ Node(x).op = "eq" => T[x] = (T[Node(x).l] = T[Node(x).r])
  <2>1. PICK h \in Lits(varcount) : h = lit[x] BY <1>3
  <2>2. PICK a \in Lits(varcount) : a = lit[Node(x).l] BY <1>4, <1>5, <1>10
  <2>3. PICK b \in Lits(varcount) : b = lit[Node(x).r] BY <1>4, <1>5, <1>10
  <2>4. \A c \in Gate(Node(x).op, h, a, b) : Sat(m, c)
    BY <1>2, <1>3, <1>10, <2>1, <2>2, <2>3 DEF Meant
  <2>5. T[x] = Val(m, h) /\ T[Node(x).l] = Val(m, a) /\ T[Node(x).r] = Val(m, b)
    BY <1>4, <1>5, <1>6, <1>10, <2>1, <2>2, <2>3
  <2>6. /\ (\A c \in Gate("and", h, a, b) : Sat(m, c)) <=>
              (Val(m, h) <=> (Val(m, a) /\ Val(m, b)))
        /\ (\A c \in Gate("or", h, a, b) : Sat(m, c)) <=>
              (Val(m, h) <=> (Val(m, a) \/ Val(m, b)))
        /\ (\A c \in Gate("impl", h, a, b) : Sat(m, c)) <=>
              (Val(m, h) <=> (Val(m, a) => Val(m, b)))
        /\ (\A c \in Gate("eq", h, a, b) : Sat(m, c)) <=>
              (Val(m, h) <=> (Val(m, a) <=> Val(m, b)))
    BY <1>1, <1>2, GateMeans
  <2>7. Val(m, h) \in BOOLEAN /\ Val(m, a) \in BOOLEAN /\ Val(m, b) \in BOOLEAN BY DEF Val
  <2>8. CASE Node(x).op = "and" BY <2>4, <2>5, <2>6, <2>7, <2>8
  <2>9. CASE Node(x).op = "or" BY <2>4, <2>5, <2>6, <2>7, <2>9
  <2>10. CASE Node(x).op = "impl" BY <2>4, <2>5, <2>6, <2>7, <2>10
  <2>11. CASE Node(x).op = "eq" BY <2>4, <2>5, <2>6, <2>7, <2>11
  <2> QED BY <1>10, <2>8, <2>9, <2>10, <2>11 DEF IsGate
<1>11. Node(x).op \in {"and", "or", "impl", "eq"} => IsGate(x) BY DEF IsGate
<1> QED BY <1>6, <1>7, <1>8, <1>9, <1>10, <1>11 DEF Consistent

\* Free nodes' values that a solution stands for satisfy the roots.
LEMMA SolutionSatisfies ==
  ASSUME BuildInv, root > Len(job.roots), NEW m \in Solutions(clauses, varcount), NEW s,
         \A n \in Named(cnfvars) : s[n] = m[cnfvars[n]]
  PROVE  Satisfies(s)
<1>1. /\ job \in Jobs /\ varcount \in Nat
      /\ lit \in [DOMAIN job.nodes -> {None} \cup Lits(varcount)]
  BY Before
<1>2. m \in [1..varcount -> BOOLEAN] /\ \A c \in clauses : Sat(m, c) BY SolutionsAre
<1> DEFINE f == [x \in FreeNodes |-> IF x \in Translated THEN Val(m, lit[x]) ELSE FALSE]
           V == [x \in Translated |-> Val(m, lit[x])]
           T == Truth(s, f)
<1>3. f \in [FreeNodes -> BOOLEAN] BY DEF Val
<1>4. \A x \in Translated : V[x] = Val(m, lit[x]) OBVIOUS
<1>5. \A x \in Translated : IsFree(x) => f[x] = V[x] BY DEF FreeNodes, Translated
<1> HIDE DEF f, V
<1>6. \A x \in Translated : Consistent(V, s, f, x) BY <1>4, <1>5, SolutionConsistent
<1>7. \A x \in Translated : Consistent(T, s, f, x) BY <1>1, TruthConsistent DEF Translated
<1> HIDE DEF T
<1>8. Translated \subseteq DOMAIN job.nodes /\ \A x \in Translated : Operands(x) \subseteq Translated
  <2>1. ASSUME NEW x \in Translated PROVE Operands(x) \subseteq Translated
    <3>1. x \in DOMAIN job.nodes /\ \A y \in Operands(x) : lit[y] # None
      BY DEF Translated, BuildInv, MeantInv, Meant
    <3>2. Operands(x) \subseteq DOMAIN job.nodes BY <1>1, <3>1, NodeFacts
    <3> QED BY <3>1, <3>2 DEF Translated
  <2> QED BY <2>1 DEF Translated
<1>9. PICK S \in SUBSET DOMAIN job.nodes : S = Translated BY <1>8
<1>10. Closed(S) /\ Reads(V, s, f, S) /\ Reads(T, s, f, S) /\ SameInputs(S, s, s, f, f)
  BY <1>6, <1>7, <1>8, <1>9 DEF Closed, Reads, SameInputs
<1>11. \A x \in S : V[x] = T[x] BY <1>1, <1>10, ConsistentUnique
<1>12. ASSUME NEW k \in DOMAIN job.roots
       PROVE  RootSkipped(k) \/ T[job.roots[k]]
  <2>1. SUFFICES ASSUME ~ RootSkipped(k) PROVE T[job.roots[k]] OBVIOUS
  <2>2. k \in 1..Len(job.roots) /\ Len(job.roots) \in Nat BY <1>1, JobFacts
  <2>3. root \in 1..Len(job.roots) + 1 BY DEF BuildInv, BuildTyped
  <2>4. k \in 1..root - 1 BY <2>2, <2>3
  <2>5. lit[job.roots[k]] # None /\ {lit[job.roots[k]]} \in clauses
    BY <2>1, <2>4 DEF BuildInv, RootsInv
  <2>6. job.roots[k] \in DOMAIN job.nodes BY <1>1, <2>2, JobFacts
  <2>7. job.roots[k] \in Translated BY <2>5, <2>6 DEF Translated
  <2>8. Sat(m, {lit[job.roots[k]]}) BY <1>2, <2>5
  <2>9. Val(m, lit[job.roots[k]]) BY <2>8 DEF Sat, Val
  <2> QED BY <1>4, <1>9, <1>11, <2>7, <2>9
<1>13. \A k \in DOMAIN job.roots :
         \/ Node(job.roots[k]).op = "const" /\ Node(job.roots[k]).val
         \/ Truth(s, f)[job.roots[k]]
  BY <1>12 DEF RootSkipped, T
<1> QED BY <1>3, <1>13 DEF Satisfies

LEMMA StartSolution ==
  ASSUME BuildInv, NEW m \in Solutions(clauses, varcount)
  PROVE  \E m0 \in Solutions(job.start.clauses, job.start.varcount) :
           \A v \in 1..job.start.varcount : m0[v] = m[v]
<1>1. job \in Jobs /\ varcount \in Nat BY Before
<1>2. PICK j \in Nat : j = job.start.varcount BY <1>1, JobFacts, CnfTyped
<1>3. PICK cs : cs = job.start.clauses OBVIOUS
<1>4. cs \subseteq SUBSET Lits(j) BY <1>1, <1>2, <1>3, JobFacts, CnfTyped
<1>5. j <= varcount /\ cs \subseteq clauses BY <1>2, <1>3 DEF BuildInv, BaseInv
<1>6. \E m0 \in Solutions(cs, j) : \A v \in 1..j : m0[v] = m[v]
  BY <1>1, <1>4, <1>5, FirstVariables
<1> QED BY <1>2, <1>3, <1>6

\* c says of the names in N what the roots and the CNF that was there say.
BuiltAs(c) ==
  \A N \in SUBSET Name : Named(c.cnfvars) \subseteq N =>
    \A s \in [N -> BOOLEAN] : Allowed(s, c) <=> Satisfies(s) /\ Allowed(s, job.start)

LEMMA BuildMeaning ==
  ASSUME BuildInv, root > Len(job.roots),
         NEW c, c = [cnfvars |-> cnfvars, varcount |-> varcount, clauses |-> clauses]
  PROVE  BuiltAs(c)
<1>1. c.cnfvars = cnfvars /\ c.varcount = varcount /\ c.clauses = clauses OBVIOUS
<1>2. /\ job \in Jobs /\ varcount \in Nat /\ clauses \subseteq SUBSET Lits(varcount)
      /\ lit \in [DOMAIN job.nodes -> {None} \cup Lits(varcount)]
      /\ cnfvars \in [Name -> 0..varcount]
  BY Before
<1>3. PICK c0 : c0 = job.start OBVIOUS
<1>4. c0 \in Cnf BY <1>2, <1>3, JobFacts
<1>5. /\ c0.varcount \in Nat /\ c0.clauses \subseteq SUBSET Lits(c0.varcount)
      /\ c0.cnfvars \in [Name -> 0..c0.varcount]
  BY <1>4, CnfTyped DEF WellFormed
<1>6. /\ c0.varcount <= varcount /\ c0.clauses \subseteq clauses
      /\ \A n \in Name : c0.cnfvars[n] # 0 => cnfvars[n] = c0.cnfvars[n]
  BY <1>3 DEF BuildInv, BaseInv
<1>7. Len(job.roots) \in Nat /\ root - 1 = Len(job.roots) /\ DOMAIN job.roots = 1..Len(job.roots)
  <2>1. Len(job.roots) \in Nat /\ DOMAIN job.roots = 1..Len(job.roots) BY <1>2, JobFacts
  <2>2. root \in 1..Len(job.roots) + 1 BY DEF BuildInv, BuildTyped
  <2> QED BY <2>1, <2>2
<1>8. ASSUME NEW N \in SUBSET Name, Named(cnfvars) \subseteq N, NEW s \in [N -> BOOLEAN],
             Allowed(s, c)
      PROVE  Satisfies(s) /\ Allowed(s, c0)
  <2>1. PICK m \in Solutions(clauses, varcount) : \A n \in Named(cnfvars) : s[n] = m[cnfvars[n]]
    BY <1>1, <1>8, AllowedIs
  <2>2. Satisfies(s) BY <2>1, SolutionSatisfies
  <2>3. PICK m0 \in Solutions(c0.clauses, c0.varcount) : \A v \in 1..c0.varcount : m0[v] = m[v]
    BY <1>3, StartSolution
  <2>4. ASSUME NEW n \in Named(c0.cnfvars) PROVE s[n] = m0[c0.cnfvars[n]]
    <3>1. n \in Name /\ c0.cnfvars[n] # 0 /\ cnfvars[n] = c0.cnfvars[n] BY <1>6 DEF Named
    <3>2. n \in Named(cnfvars) BY <3>1 DEF Named
    <3>3. c0.cnfvars[n] \in 1..c0.varcount BY <1>5, <3>1
    <3> QED BY <2>1, <2>3, <3>1, <3>2, <3>3
  <2>5. Allowed(s, c0) BY <2>3, <2>4, AllowedIs
  <2> QED BY <2>2, <2>5
<1>9. ASSUME NEW N \in SUBSET Name, Named(cnfvars) \subseteq N, NEW s \in [N -> BOOLEAN],
             Satisfies(s), Allowed(s, c0)
      PROVE  Allowed(s, c)
  <2>1. PICK f \in [FreeNodes -> BOOLEAN] :
          \A k \in DOMAIN job.roots : RootSkipped(k) \/ Truth(s, f)[job.roots[k]]
    BY <1>9 DEF Satisfies, RootSkipped
  <2>2. PICK m0 \in Solutions(c0.clauses, c0.varcount) :
          \A n \in Named(c0.cnfvars) : s[n] = m0[c0.cnfvars[n]]
    BY <1>9, AllowedIs
  <2> DEFINE r == [n \in Name |-> IF n \in N THEN s[n] ELSE FALSE]
  <2>3. r \in [Name -> BOOLEAN] /\ \A n \in N : r[n] = s[n] OBVIOUS
  <2> HIDE DEF r
  <2>4. PICK S \in SUBSET DOMAIN job.nodes : S = Translated BY DEF Translated
  <2>5. \A x \in S : Operands(x) \subseteq S
    <3>1. ASSUME NEW x \in S PROVE Operands(x) \subseteq S
      <4>1. x \in DOMAIN job.nodes /\ \A y \in Operands(x) : lit[y] # None
        BY <2>4 DEF Translated, BuildInv, MeantInv, Meant
      <4>2. Operands(x) \subseteq DOMAIN job.nodes BY <1>2, <4>1, NodeFacts
      <4> QED BY <2>4, <4>1, <4>2 DEF Translated
    <3> QED BY <3>1
  <2>6. ASSUME NEW x \in S, Node(x).op = "var", ~ IsFree(x)
        PROVE  s[Node(x).name] = r[Node(x).name]
    <3>1. cnfvars[Node(x).name] # 0 BY <2>4, <2>6 DEF BuildInv, MeantInv, Meant
    <3>2. Node(x).name \in Name BY <1>2, <2>6, NodeFacts
    <3>3. Node(x).name \in N BY <1>9, <3>1, <3>2 DEF Named
    <3> QED BY <2>3, <3>3
  <2>7. PICK T : T = Truth(s, f) OBVIOUS
  <2>8. PICK R : R = Truth(r, f) OBVIOUS
  <2>9. \A x \in S : Consistent(T, s, f, x) /\ Consistent(R, r, f, x)
    BY <1>2, <2>7, <2>8, TruthConsistent
  <2>10. \A x \in S : T[x] = R[x]
    <3>1. Closed(S) /\ Reads(T, s, f, S) /\ Reads(R, r, f, S) /\ SameInputs(S, s, r, f, f)
      BY <2>5, <2>6, <2>9 DEF Closed, Reads, SameInputs
    <3> QED BY <1>2, <3>1, ConsistentUnique
  <2>11. Admitted(r, f, m0)
    <3>1. ASSUME NEW n \in Name, c0.cnfvars[n] # 0 PROVE m0[c0.cnfvars[n]] = r[n]
      <4>1. n \in Named(c0.cnfvars) /\ n \in Named(cnfvars) BY <1>6, <3>1 DEF Named
      <4> QED BY <1>9, <2>2, <2>3, <4>1
    <3>2. ASSUME NEW k \in 1..root - 1 PROVE RootSkipped(k) \/ Truth(r, f)[job.roots[k]]
      <4>1. k \in DOMAIN job.roots /\ job.roots[k] \in DOMAIN job.nodes BY <1>2, <1>7, JobFacts
      <4>2. ~ RootSkipped(k) => lit[job.roots[k]] # None BY DEF BuildInv, RootsInv
      <4>3. ~ RootSkipped(k) => job.roots[k] \in S BY <2>4, <4>1, <4>2 DEF Translated
      <4>4. ~ RootSkipped(k) => T[job.roots[k]] BY <2>1, <2>7, <4>1
      <4> QED BY <2>8, <2>10, <4>3, <4>4
    <3> QED BY <1>3, <3>1, <3>2 DEF Admitted
  <2>12. PICK m \in Solutions(clauses, varcount) : Agrees(m, r, f)
    BY <2>3, <2>11 DEF BuildInv, Extendable
  <2>13. ASSUME NEW n \in Named(cnfvars) PROVE s[n] = m[cnfvars[n]]
    <3>1. n \in Name /\ cnfvars[n] # 0 /\ n \in N BY <1>9 DEF Named
    <3>2. m[cnfvars[n]] = r[n] BY <2>12, <3>1 DEF Agrees
    <3> QED BY <2>3, <3>1, <3>2
  <2> QED BY <1>1, <2>12, <2>13, AllowedIs
<1> QED BY <1>1, <1>3, <1>8, <1>9 DEF BuiltAs

\* The CNF that was built goes into the merge.
LEMMA LoadKeeps ==
  ASSUME BuildInv, LoadCnfModel
  PROVE  MergeInv'
<1>1. /\ root > Len(job.roots)
      /\ this0' = [cnfvars |-> cnfvars, varcount |-> varcount, clauses |-> clauses]
      /\ todo' = Named(other.cnfvars) /\ pc' = "symbols" /\ counter' = FirstCounter'
      /\ UNCHANGED <<other, cnfvars, boolvars, varcount, clauses, inferenced, i,
                     job, lit, visited, boolvar, root>>
  BY DEF LoadCnfModel, buildVars
<1>2. /\ this0'.cnfvars = cnfvars /\ this0'.varcount = varcount /\ this0'.clauses = clauses
  BY <1>1
<1>3. /\ job \in Jobs /\ varcount \in Nat /\ clauses \subseteq SUBSET Lits(varcount)
      /\ cnfvars \in [Name -> 0..varcount] /\ boolvars = Pairs(cnfvars)
      /\ \A m, n \in Name : cnfvars[m] = cnfvars[n] /\ cnfvars[m] # 0 => m = n
      /\ other \in Cnf /\ inferenced = [k \in Id |-> 0] /\ i = 1
  BY Before DEF BuildInv, BuildTyped
<1>4. varcount <= MaxVar
  <2>1. PICK len \in Nat : len = Len(job.nodes) BY <1>3, JobFacts
  <2>2. DOMAIN job.nodes = 1..len BY <1>3, <2>1, JobFacts
  <2>3. IsFiniteSet(1..len) /\ Cardinality(1..len) = len
    <3>1. IsFiniteSet(1..len) /\ Cardinality(1..len) = IF 1 > len THEN 0 ELSE len - 1 + 1
      BY FS_Interval
    <3> QED BY <3>1
  <2>4. Translated \subseteq 1..len BY <2>2 DEF Translated
  <2>5. IsFiniteSet(Translated) /\ Cardinality(Translated) <= Cardinality(1..len)
    BY <2>3, <2>4, FS_Subset
  <2>6. Cardinality(Translated) \in Nat BY <2>5, FS_CardinalityType
  <2>7. job.start.varcount \in Nat BY <1>3, JobFacts, CnfTyped
  <2>8. job.start.varcount + len <= MaxVar BY <1>3, <2>1, JobFacts
  <2>9. varcount <= job.start.varcount + Cardinality(Translated) BY DEF BuildInv, Room
  <2> QED BY <1>3, <2>3, <2>5, <2>6, <2>7, <2>8, <2>9, MergeAssumption
<1>5. WellFormed(this0)' /\ WellFormed(other)'
  <2>1. varcount \in 0..MaxVar BY <1>3, <1>4, MergeAssumption
  <2>2. WellFormed(this0)' BY <1>2, <1>3, <2>1 DEF WellFormed
  <2>3. WellFormed(other) BY <1>3, CnfTyped
  <2>4. WellFormed(other)' BY <1>1, <2>3 DEF WellFormed
  <2> QED BY <2>2, <2>4
<1>6. BothWellFormed' BY <1>5 DEF BothWellFormed
<1>7. Started' BY <1>1, <1>2, <1>3 DEF Started, Pairs, Named
<1>8. Started' /\ BothWellFormed' => IInv' BY StartIInv, PTL
<1>9. IInv' BY <1>6, <1>7, <1>8
<1>10. Built'
  <2>1. PICK c : c = [cnfvars |-> cnfvars, varcount |-> varcount, clauses |-> clauses] OBVIOUS
  <2>2. BuiltAs(c) BY <1>1, <2>1, BuildMeaning
  <2>3. this0' = c /\ job' = job BY <1>1, <2>1
  <2>4. \A s : Satisfies(s)' <=> Satisfies(s)
    BY <2>3, SameJob DEF Satisfies
  <2> QED BY <2>2, <2>3, <2>4 DEF Built, BuiltAs, Allowed, Meaning, Solutions, Named
<1>11. Named(job.start.cnfvars)' \subseteq Named(this0.cnfvars)'
  <2>1. \A n \in Name : job.start.cnfvars[n] # 0 => cnfvars[n] # 0 BY DEF BuildInv, BaseInv
  <2> QED BY <1>1, <1>2, <2>1 DEF Named
<1>12. (this0.clauses \subseteq SUBSET Lits(this0.varcount))' BY <1>2, <1>3 DEF Lits
<1>13. other.clauses \subseteq SUBSET Lits(other.varcount) BY <1>3, CnfTyped
<1> QED BY <1>1, <1>2, <1>3, <1>9, <1>10, <1>11, <1>12, <1>13 DEF MergeInv, Lits

\* The merge adds clauses at its end only, and leaves the job alone.
LEMMA MergeKeeps ==
  ASSUME MergeInv, pc \in {"symbols", "unnamed", "done"}, [Next]_vars, UNCHANGED buildVars
  PROVE  MergeInv' /\ pc' \in {"symbols", "unnamed", "done"}
<1>1. UNCHANGED <<this0, other, job>>
  BY DEF Next, vars, buildVars, Symbol, SymbolsDone, Unnamed, Transfer
<1>2. IInv' BY NextIInv DEF MergeInv
<1>3. Built'
  <2>1. \A s : Satisfies(s)' <=> Satisfies(s) BY <1>1, SameJob DEF Satisfies
  <2> QED BY <1>1, <2>1 DEF MergeInv, Built, Allowed, Meaning, Solutions, Named
<1>4. /\ job' \in Jobs /\ Named(job.start.cnfvars)' \subseteq Named(this0.cnfvars)'
      /\ (this0.clauses \subseteq SUBSET Lits(this0.varcount))'
      /\ (other.clauses \subseteq SUBSET Lits(other.varcount))'
  BY <1>1 DEF MergeInv, Named, Lits
<1>5. CASE Transfer
  <2>1. /\ pc = "unnamed" /\ pc' = "done" /\ UNCHANGED inferenced
        /\ clauses' = clauses \cup {{RenamedLit(l) : l \in c} : c \in other.clauses}
    BY <1>5 DEF Transfer
  <2>2. clauses = this0.clauses BY <2>1 DEF MergeInv
  <2>3. \A l : RenamedLit(l)' = RenamedLit(l) BY <2>1 DEF RenamedLit, Renamed
  <2>4. clauses' = this0'.clauses \cup {{RenamedLit(l)' : l \in c} : c \in other'.clauses}
    BY <1>1, <2>1, <2>2, <2>3
  <2> QED BY <1>2, <1>3, <1>4, <2>1, <2>4 DEF MergeInv
<1>6. CASE UNCHANGED vars
  <2>1. UNCHANGED <<pc, inferenced, clauses>> BY <1>6 DEF vars
  <2>2. \A l : RenamedLit(l)' = RenamedLit(l) BY <2>1 DEF RenamedLit, Renamed
  <2>3. {{RenamedLit(l)' : l \in c} : c \in other'.clauses}
        = {{RenamedLit(l) : l \in c} : c \in other.clauses}
    BY <1>1, <2>2
  <2> QED BY <1>1, <1>2, <1>3, <1>4, <2>1, <2>3 DEF MergeInv
<1>7. CASE SymbolsDone \/ Unnamed \/ \E n \in Name : Symbol(n)
  <2>1. pc # "done" /\ pc' # "done" /\ clauses' = clauses /\ pc' \in {"symbols", "unnamed"}
    BY <1>7 DEF SymbolsDone, Unnamed, Symbol
  <2>2. clauses' = this0'.clauses BY <1>1, <2>1 DEF MergeInv
  <2> QED BY <1>2, <1>3, <1>4, <2>1, <2>2 DEF MergeInv
<1> QED BY <1>5, <1>6, <1>7 DEF Next

\* What is known of the ids at the end.
LEMMA DoneFacts ==
  ASSUME MergeInv, pc = "done"
  PROVE  /\ this0.varcount \in Nat /\ other.varcount \in Nat /\ varcount \in Nat
         /\ this0.varcount <= varcount
         /\ \A k \in 1..other.varcount : Renamed(k) \in 1..varcount
         /\ \A j, k \in 1..other.varcount : Renamed(j) = Renamed(k) => j = k
         /\ \A k \in 1..other.varcount, j \in 1..this0.varcount :
              Renamed(k) = j => \E n \in Name : this0.cnfvars[n] = j /\ other.cnfvars[n] = k
         /\ \A n \in Named(this0.cnfvars) :
              n \in Named(cnfvars) /\ cnfvars[n] = this0.cnfvars[n]
              /\ this0.cnfvars[n] \in 1..this0.varcount
         /\ \A n \in Named(other.cnfvars) :
              n \in Named(cnfvars) /\ cnfvars[n] = Renamed(other.cnfvars[n])
              /\ other.cnfvars[n] \in 1..other.varcount
         /\ Named(cnfvars) = Named(this0.cnfvars) \cup Named(other.cnfvars)
<1>1. IInv BY DEF MergeInv
<1>2. RenameInjective /\ NoCapture /\ NamesInSync /\ IdsCounted
  BY <1>1, InjectiveFromIInv, NoCaptureFromIInv, NamesFromIInv, CountedFromIInv
<1>3. /\ this0.varcount \in Nat /\ other.varcount \in Nat
      /\ other.varcount <= MaxVar
      /\ \A n \in Name : /\ this0.cnfvars[n] \in Nat /\ this0.cnfvars[n] <= this0.varcount
                         /\ other.cnfvars[n] \in Nat /\ other.cnfvars[n] <= other.varcount
  BY <1>1, Basics DEF Of
<1>4. varcount \in Nat BY <1>1 DEF IInv, Typed
<1>5. this0.varcount <= varcount BY <1>2 DEF IdsCounted
<1>6. ASSUME NEW k \in 1..other.varcount PROVE Renamed(k) \in 1..varcount
  <2>1. k \in Id /\ k # 0 BY <1>3, MergeAssumption DEF Id
  <2>2. Renamed(k) \in Nat /\ Renamed(k) # 0 BY <1>1, <2>1, RenamedWhere DEF Renamed
  <2>3. Renamed(k) <= varcount BY <1>2 DEF IdsCounted
  <2> QED BY <1>4, <2>2, <2>3
<1>7. \A j, k \in 1..other.varcount : Renamed(j) = Renamed(k) => j = k BY <1>2 DEF RenameInjective
<1>8. \A k \in 1..other.varcount, j \in 1..this0.varcount :
        Renamed(k) = j => \E n \in Name : this0.cnfvars[n] = j /\ other.cnfvars[n] = k
  BY <1>2 DEF NoCapture
<1>9. ASSUME NEW n \in Named(this0.cnfvars)
      PROVE  /\ n \in Named(cnfvars) /\ cnfvars[n] = this0.cnfvars[n]
             /\ this0.cnfvars[n] \in 1..this0.varcount
  <2>1. n \in Name /\ this0.cnfvars[n] # 0 BY DEF Named
  <2>2. cnfvars[n] = this0.cnfvars[n] BY <1>2 DEF NamesInSync
  <2>3. this0.cnfvars[n] \in 1..this0.varcount BY <1>3, <2>1
  <2> QED BY <2>1, <2>2, <2>3 DEF Named
<1>10. ASSUME NEW n \in Named(other.cnfvars)
       PROVE  /\ n \in Named(cnfvars) /\ cnfvars[n] = Renamed(other.cnfvars[n])
              /\ other.cnfvars[n] \in 1..other.varcount
  <2>1. n \in Name /\ other.cnfvars[n] # 0 BY DEF Named
  <2>2. cnfvars[n] = Renamed(other.cnfvars[n]) BY <1>2 DEF NamesInSync
  <2>3. other.cnfvars[n] \in 1..other.varcount BY <1>3, <2>1
  <2>4. cnfvars[n] # 0 BY <1>4, <1>6, <2>2, <2>3
  <2> QED BY <2>1, <2>2, <2>3, <2>4 DEF Named
<1>11. Named(cnfvars) \subseteq Named(this0.cnfvars) \cup Named(other.cnfvars)
  <2>1. ASSUME NEW n \in Name, cnfvars[n] # 0 PROVE this0.cnfvars[n] # 0 \/ other.cnfvars[n] # 0
    BY <1>1, <2>1 DEF IInv, NamesSoFar, Known, Visited, Of
  <2> QED BY <2>1 DEF Named
<1>12. Named(cnfvars) = Named(this0.cnfvars) \cup Named(other.cnfvars) BY <1>9, <1>10, <1>11
<1> QED BY <1>3, <1>4, <1>5, <1>6, <1>7, <1>8, <1>9, <1>10, <1>12

\* A renamed clause says of m what the clause says of the values m gives to its variables.
LEMMA RenamedSat ==
  ASSUME MergeInv, NEW m, NEW m2, NEW c \in other.clauses,
         \A k \in 1..other.varcount : m2[k] = m[Renamed(k)]
  PROVE  Sat(m, {RenamedLit(l) : l \in c}) <=> Sat(m2, c)
<1>1. ASSUME NEW l \in c
      PROVE  /\ l[1] \in 1..other.varcount
             /\ RenamedLit(l)[1] = Renamed(l[1]) /\ RenamedLit(l)[2] = l[2]
             /\ m2[l[1]] = m[RenamedLit(l)[1]]
  <2>1. other.clauses \subseteq SUBSET Lits(other.varcount) BY DEF MergeInv
  <2>2. l \in Lits(other.varcount) BY <2>1
  <2>3. l[1] \in 1..other.varcount BY <2>2 DEF Lits
  <2>4. RenamedLit(l)[1] = Renamed(l[1]) /\ RenamedLit(l)[2] = l[2] BY DEF RenamedLit
  <2> QED BY <2>3, <2>4
<1> DEFINE D == {RenamedLit(l) : l \in c}
<1>2. ASSUME Sat(m, D) PROVE Sat(m2, c)
  <2>1. PICK d \in D : m[d[1]] = d[2] BY <1>2 DEF Sat
  <2>2. PICK l \in c : d = RenamedLit(l) OBVIOUS
  <2>3. m2[l[1]] = l[2] BY <1>1, <2>1, <2>2
  <2> QED BY <2>3 DEF Sat
<1>3. ASSUME Sat(m2, c) PROVE Sat(m, D)
  <2>1. PICK l \in c : m2[l[1]] = l[2] BY <1>3 DEF Sat
  <2>2. RenamedLit(l) \in D OBVIOUS
  <2>3. m[RenamedLit(l)[1]] = RenamedLit(l)[2] BY <1>1, <2>1
  <2> HIDE DEF D
  <2> QED BY <2>2, <2>3 DEF Sat
<1> QED BY <1>2, <1>3

\* Solutions of the merged clauses are solutions of both parts.
LEMMA MergedSplits ==
  ASSUME MergeInv, pc = "done", NEW m \in Solutions(clauses, varcount), NEW s,
         \A n \in Named(cnfvars) : s[n] = m[cnfvars[n]]
  PROVE  Allowed(s, this0) /\ Allowed(s, other)
<1>1. m \in [1..varcount -> BOOLEAN] /\ \A c \in clauses : Sat(m, c) BY SolutionsAre
<1>2. clauses = this0.clauses \cup {{RenamedLit(l) : l \in c} : c \in other.clauses}
      /\ this0.clauses \subseteq SUBSET Lits(this0.varcount)
  BY DEF MergeInv
<1>3. /\ this0.varcount \in Nat /\ other.varcount \in Nat /\ varcount \in Nat
      /\ this0.varcount <= varcount
      /\ \A k \in 1..other.varcount : Renamed(k) \in 1..varcount
      /\ \A n \in Named(this0.cnfvars) :
           n \in Named(cnfvars) /\ cnfvars[n] = this0.cnfvars[n]
           /\ this0.cnfvars[n] \in 1..this0.varcount
      /\ \A n \in Named(other.cnfvars) :
           n \in Named(cnfvars) /\ cnfvars[n] = Renamed(other.cnfvars[n])
           /\ other.cnfvars[n] \in 1..other.varcount
  BY DoneFacts
<1>4. Allowed(s, this0)
  <2>1. PICK j \in Nat : j = this0.varcount BY <1>3
  <2>2. PICK cs : cs = this0.clauses OBVIOUS
  <2>3. cs \subseteq SUBSET Lits(j) /\ cs \subseteq clauses /\ j <= varcount
    BY <1>2, <1>3, <2>1, <2>2
  <2>4. PICK m1 \in Solutions(cs, j) : \A v \in 1..j : m1[v] = m[v]
    BY <1>3, <2>3, FirstVariables
  <2>5. \A n \in Named(this0.cnfvars) : s[n] = m1[this0.cnfvars[n]] BY <1>3, <2>1, <2>4
  <2>6. m1 \in Solutions(this0.clauses, this0.varcount) BY <2>1, <2>2, <2>4
  <2> QED BY <2>5, <2>6, AllowedIs
<1>5. Allowed(s, other)
  <2> DEFINE m2 == [k \in 1..other.varcount |-> m[Renamed(k)]]
  <2>1. m2 \in [1..other.varcount -> BOOLEAN] BY <1>1, <1>3
  <2>2. \A k \in 1..other.varcount : m2[k] = m[Renamed(k)] OBVIOUS
  <2> HIDE DEF m2
  <2>3. ASSUME NEW c \in other.clauses PROVE Sat(m2, c)
    <3>1. Sat(m, {RenamedLit(l) : l \in c}) BY <1>1, <1>2
    <3> QED BY <2>2, <3>1, RenamedSat
  <2>4. m2 \in Solutions(other.clauses, other.varcount) BY <2>1, <2>3, SolutionsAre
  <2>5. \A n \in Named(other.cnfvars) : s[n] = m2[other.cnfvars[n]] BY <1>3, <2>2
  <2> QED BY <2>4, <2>5, AllowedIs
<1> QED BY <1>4, <1>5

\* Solutions of both parts that agree on the names make one of the merged clauses.
LEMMA MergedJoins ==
  ASSUME MergeInv, pc = "done", NEW s, Allowed(s, this0), Allowed(s, other)
  PROVE  \E m \in Solutions(clauses, varcount) : \A n \in Named(cnfvars) : s[n] = m[cnfvars[n]]
<1>1. clauses = this0.clauses \cup {{RenamedLit(l) : l \in c} : c \in other.clauses}
      /\ this0.clauses \subseteq SUBSET Lits(this0.varcount)
  BY DEF MergeInv
<1>2. /\ this0.varcount \in Nat /\ other.varcount \in Nat /\ varcount \in Nat
      /\ this0.varcount <= varcount
      /\ \A k \in 1..other.varcount : Renamed(k) \in 1..varcount
      /\ \A j, k \in 1..other.varcount : Renamed(j) = Renamed(k) => j = k
      /\ \A k \in 1..other.varcount, j \in 1..this0.varcount :
           Renamed(k) = j => \E n \in Name : this0.cnfvars[n] = j /\ other.cnfvars[n] = k
      /\ \A n \in Named(this0.cnfvars) :
           n \in Named(cnfvars) /\ cnfvars[n] = this0.cnfvars[n]
           /\ this0.cnfvars[n] \in 1..this0.varcount
      /\ \A n \in Named(other.cnfvars) :
           n \in Named(cnfvars) /\ cnfvars[n] = Renamed(other.cnfvars[n])
           /\ other.cnfvars[n] \in 1..other.varcount
      /\ Named(cnfvars) = Named(this0.cnfvars) \cup Named(other.cnfvars)
  BY DoneFacts
<1>3. PICK m1 \in Solutions(this0.clauses, this0.varcount) :
        \A n \in Named(this0.cnfvars) : s[n] = m1[this0.cnfvars[n]]
  BY AllowedIs
<1>4. PICK m2 \in Solutions(other.clauses, other.varcount) :
        \A n \in Named(other.cnfvars) : s[n] = m2[other.cnfvars[n]]
  BY AllowedIs
<1>5. m1 \in [1..this0.varcount -> BOOLEAN] /\ \A c \in this0.clauses : Sat(m1, c)
  BY <1>3, SolutionsAre
<1>6. m2 \in [1..other.varcount -> BOOLEAN] /\ \A c \in other.clauses : Sat(m2, c)
  BY <1>4, SolutionsAre
<1> DEFINE Source(v) == CHOOSE k \in 1..other.varcount : Renamed(k) = v
           m == [v \in 1..varcount |->
                   IF v \in 1..this0.varcount THEN m1[v]
                   ELSE IF \E k \in 1..other.varcount : Renamed(k) = v THEN m2[Source(v)]
                   ELSE FALSE]
<1>7. ASSUME NEW v, \E k \in 1..other.varcount : Renamed(k) = v
      PROVE  Source(v) \in 1..other.varcount /\ Renamed(Source(v)) = v
  BY <1>7
<1>8. m \in [1..varcount -> BOOLEAN] BY <1>5, <1>6, <1>7
<1>9. \A v \in 1..this0.varcount : m[v] = m1[v]
  <2>1. \A v \in 1..this0.varcount : v \in 1..varcount BY <1>2
  <2> QED BY <2>1
<1>10. \A v \in 1..varcount :
          v \notin 1..this0.varcount /\ (\E k \in 1..other.varcount : Renamed(k) = v)
            => m[v] = m2[Source(v)]
  OBVIOUS
<1> HIDE DEF m, Source
<1>11. ASSUME NEW k \in 1..other.varcount PROVE m2[k] = m[Renamed(k)]
  <2>1. CASE Renamed(k) \in 1..this0.varcount
    <3>1. PICK n \in Name : this0.cnfvars[n] = Renamed(k) /\ other.cnfvars[n] = k BY <1>2, <2>1
    <3>2. n \in Named(this0.cnfvars) /\ n \in Named(other.cnfvars) BY <1>2, <2>1, <3>1 DEF Named
    <3> QED BY <1>3, <1>4, <1>9, <2>1, <3>1, <3>2
  <2>2. CASE Renamed(k) \notin 1..this0.varcount
    <3>1. Source(Renamed(k)) = k BY <1>2, <1>7
    <3>2. m[Renamed(k)] = m2[Source(Renamed(k))] BY <1>2, <1>10, <2>2
    <3> QED BY <3>1, <3>2
  <2> QED BY <2>1, <2>2
<1>12. ASSUME NEW c \in this0.clauses PROVE Sat(m, c)
  <2>1. PICK j \in Nat : j = this0.varcount BY <1>2
  <2>2. c \in SUBSET Lits(j) BY <1>1, <2>1
  <2>3. \A v \in 1..j : m1[v] = m[v] BY <1>9, <2>1
  <2>4. Sat(m1, c) BY <1>5
  <2> QED BY <2>2, <2>3, <2>4, SatAgrees
<1>13. ASSUME NEW c \in other.clauses PROVE Sat(m, {RenamedLit(l) : l \in c})
  <2>1. Sat(m2, c) BY <1>6
  <2> QED BY <1>11, <2>1, RenamedSat
<1>14. \A c \in clauses : Sat(m, c) BY <1>1, <1>12, <1>13
<1>15. m \in Solutions(clauses, varcount) BY <1>8, <1>14, SolutionsAre
<1>16. ASSUME NEW n \in Named(cnfvars) PROVE s[n] = m[cnfvars[n]]
  <2>1. CASE n \in Named(this0.cnfvars) BY <1>2, <1>3, <1>9, <2>1
  <2>2. CASE n \in Named(other.cnfvars) BY <1>2, <1>4, <1>11, <2>2
  <2> QED BY <1>2, <2>1, <2>2
<1> QED BY <1>15, <1>16

\* FormulaCnf follows from MergeInv.
LEMMA FormulaFromMergeInv ==
  ASSUME MergeInv, pc = "done"
  PROVE  FormulaCnf
<1> DEFINE N == Named(cnfvars)
<1>1. PICK c : c = [cnfvars |-> cnfvars, varcount |-> varcount, clauses |-> clauses] OBVIOUS
<1>2. c.cnfvars = cnfvars /\ c.varcount = varcount /\ c.clauses = clauses BY <1>1
<1>3. N \in SUBSET Name /\ Named(this0.cnfvars) \subseteq N BY DoneFacts DEF Named
<1>4. ASSUME NEW s \in [N -> BOOLEAN]
      PROVE  Allowed(s, c) <=> Satisfies(s) /\ Allowed(s, job.start) /\ Allowed(s, other)
  <2>1. Allowed(s, this0) <=> Satisfies(s) /\ Allowed(s, job.start)
    BY <1>3 DEF MergeInv, Built
  <2>2. Allowed(s, c) <=> \E m \in Solutions(clauses, varcount) :
                            \A n \in N : s[n] = m[cnfvars[n]]
    BY <1>2, AllowedIs
  <2>3. Allowed(s, c) => Allowed(s, this0) /\ Allowed(s, other) BY <2>2, MergedSplits
  <2>4. Allowed(s, this0) /\ Allowed(s, other) => Allowed(s, c) BY <2>2, MergedJoins
  <2> QED BY <2>1, <2>3, <2>4
<1>5. Meaning(clauses, varcount, cnfvars) \subseteq [N -> BOOLEAN]
  <2>1. \A n \in N : cnfvars[n] \in 1..varcount
    <3>1. ASSUME NEW n \in N PROVE cnfvars[n] \in 1..varcount
      <4>1. CASE n \in Named(this0.cnfvars)
        <5>1. cnfvars[n] \in 1..this0.varcount BY <4>1, DoneFacts
        <5> QED BY <5>1, DoneFacts
      <4>2. CASE n \in Named(other.cnfvars) BY <4>2, DoneFacts
      <4> QED BY <4>1, <4>2, DoneFacts
    <3> QED BY <3>1
  <2>2. ASSUME NEW m \in Solutions(clauses, varcount)
        PROVE  [n \in N |-> m[cnfvars[n]]] \in [N -> BOOLEAN]
    <3>1. m \in [1..varcount -> BOOLEAN] BY SolutionsAre
    <3>2. \A n \in N : m[cnfvars[n]] \in BOOLEAN BY <2>1, <3>1
    <3> HIDE DEF N
    <3> QED BY <3>2
  <2> QED BY <2>2 DEF Meaning
<1>6. ASSUME NEW s \in [N -> BOOLEAN]
      PROVE  Allowed(s, c) <=> s \in Meaning(clauses, varcount, cnfvars)
  <2>1. [n \in N |-> s[n]] = s OBVIOUS
  <2> QED BY <1>2, <2>1 DEF Allowed
<1>7. \A s : (\A cnf \in {job.start, other} : Allowed(s, cnf))
               <=> Allowed(s, job.start) /\ Allowed(s, other)
  OBVIOUS
<1> HIDE DEF N
<1>8. Meaning(clauses, varcount, cnfvars) =
        {s \in [N -> BOOLEAN] : Satisfies(s) /\ \A cnf \in {job.start, other} : Allowed(s, cnf)}
  BY <1>4, <1>5, <1>6, <1>7
<1> QED BY <1>8 DEF FormulaCnf, Allowed, N

LEMMA StutterBuild ==
  ASSUME BuildInv, UNCHANGED vars, UNCHANGED buildVars
  PROVE  BuildInv'
<1>1. UNCHANGED <<other, cnfvars, boolvars, varcount, clauses, inferenced, i,
                  job, lit, visited, boolvar, root>>
  BY DEF vars, buildVars
<1>2. /\ \A y : Node(y)' = Node(y) /\ IsFree(y)' = IsFree(y) /\ IsGate(y)' = IsGate(y)
                /\ Operands(y)' = Operands(y)
      /\ FreeNodes' = FreeNodes
      /\ \A s, f : Truth(s, f)' = Truth(s, f)
      /\ \A k : RootSkipped(k)' = RootSkipped(k)
  BY <1>1, SameJob
<1>3. Root' = Root /\ Translated' = Translated BY <1>1 DEF Root, Translated
<1>4. BuildTyped' BY <1>1 DEF BuildInv, BuildTyped, Pairs, Named, Lits
<1>5. Seen' BY <1>1, <1>3 DEF BuildInv, Seen
<1>6. Room' BY <1>1, <1>3 DEF BuildInv, Room
<1>7. MeantInv' BY <1>1, <1>2, <1>3 DEF BuildInv, MeantInv, Meant
<1>8. BaseInv' BY <1>1 DEF BuildInv, BaseInv
<1>9. RootsInv' BY <1>1, <1>2 DEF BuildInv, RootsInv
<1>10. Extendable'
  <2>1. \A s, f, m : Agrees(m, s, f)' <=> Agrees(m, s, f) BY <1>1, <1>2, <1>3 DEF Agrees
  <2>2. \A s, f, m : Admitted(s, f, m)' <=> Admitted(s, f, m) BY <1>1, <1>2 DEF Admitted, Solutions
  <2>3. Solutions(clauses, varcount)' = Solutions(clauses, varcount) BY <1>1
  <2> QED BY <1>2, <2>1, <2>2, <2>3 DEF BuildInv, Extendable
<1> QED BY <1>4, <1>5, <1>6, <1>7, <1>8, <1>9, <1>10 DEF BuildInv

LEMMA NextWholeInv == WholeInv /\ [BuildNext]_<<vars, buildVars>> => WholeInv'
<1> SUFFICES ASSUME WholeInv, [BuildNext]_<<vars, buildVars>> PROVE WholeInv' OBVIOUS
<1>1. ASSUME NEW x \in DOMAIN job.nodes, Visit(x) PROVE WholeInv'
  <2>1. pc = "build" /\ pc' = "build" BY <1>1 DEF Visit
  <2>2. BuildInv BY <2>1 DEF WholeInv
  <2>3. BuildInv' BY <1>1, <2>2, VisitKeeps
  <2> QED BY <2>1, <2>3 DEF WholeInv
<1>2. CASE PushClause
  <2>1. pc = "build" /\ pc' = "build" BY <1>2 DEF PushClause
  <2>2. BuildInv BY <2>1 DEF WholeInv
  <2>3. BuildInv' BY <1>2, <2>2, PushClauseKeeps
  <2> QED BY <2>1, <2>3 DEF WholeInv
<1>3. CASE LoadCnfModel
  <2>1. pc = "build" /\ pc' = "symbols" BY <1>3 DEF LoadCnfModel
  <2>2. BuildInv BY <2>1 DEF WholeInv
  <2>3. MergeInv' BY <1>3, <2>2, LoadKeeps
  <2> QED BY <2>1, <2>3 DEF WholeInv
<1>4. CASE Merge
  <2>1. [Next]_vars /\ UNCHANGED buildVars BY <1>4 DEF Merge
  <2>2. pc # "build" BY <1>4 DEF Merge, Next, Symbol, SymbolsDone, Unnamed, Transfer
  <2>3. MergeInv /\ pc \in {"symbols", "unnamed", "done"} BY <2>2 DEF WholeInv
  <2>4. MergeInv' /\ pc' \in {"symbols", "unnamed", "done"} BY <2>1, <2>3, MergeKeeps
  <2> QED BY <2>4 DEF WholeInv
<1>5. CASE UNCHANGED <<vars, buildVars>>
  <2>1. UNCHANGED vars /\ UNCHANGED buildVars /\ pc' = pc BY <1>5 DEF vars
  <2>2. CASE pc = "build"
    <3>1. BuildInv BY <2>2 DEF WholeInv
    <3>2. BuildInv' BY <2>1, <3>1, StutterBuild
    <3> QED BY <2>1, <2>2, <3>2 DEF WholeInv
  <2>3. CASE pc # "build"
    <3>1. MergeInv /\ pc \in {"symbols", "unnamed", "done"} BY <2>3 DEF WholeInv
    <3>2. MergeInv' BY <2>1, <3>1, MergeKeeps
    <3> QED BY <2>1, <3>1, <3>2 DEF WholeInv
  <2> QED BY <2>2, <2>3
<1> QED BY <1>1, <1>2, <1>3, <1>4, <1>5 DEF BuildNext

LEMMA WholeInvHolds == BuildSpec => []WholeInv
BY InitWholeInv, NextWholeInv, PTL DEF BuildSpec

\* Whatever expressions are translated, onto whatever CNF, and whatever model is merged:
\* the CNF has a solution for exactly those values of its names that satisfy the
\* expressions, for some values of their free nodes, and both CNFs.
THEOREM TranslationExact == BuildSpec => []FormulaCnf
<1>1. WholeInv => FormulaCnf
  <2>1. CASE pc = "done" BY <2>1, FormulaFromMergeInv DEF WholeInv
  <2>2. CASE pc # "done" BY <2>2 DEF FormulaCnf
  <2> QED BY <2>1, <2>2
<1> QED BY WholeInvHolds, <1>1, PTL

\* The CNF of a translation is merged as any other: the ids of the model's variables
\* clash with none of it, and the maps of names stay in step.
THEOREM TranslationMerges ==
  BuildSpec => [](RenameInjective /\ IdsCounted /\ NoCapture /\ NamesInSync)
<1>1. WholeInv => RenameInjective /\ IdsCounted /\ NoCapture /\ NamesInSync
  <2> SUFFICES ASSUME WholeInv PROVE RenameInjective /\ IdsCounted /\ NoCapture /\ NamesInSync
    OBVIOUS
  <2>1. CASE pc = "done"
    <3>1. IInv BY <2>1 DEF WholeInv, MergeInv
    <3> QED BY <3>1, InjectiveFromIInv, NoCaptureFromIInv, NamesFromIInv, CountedFromIInv
  <2>2. CASE pc # "done" BY <2>2 DEF RenameInjective, IdsCounted, NoCapture, NamesInSync
  <2> QED BY <2>1, <2>2
<1> QED BY WholeInvHolds, <1>1, PTL
================================================================================
