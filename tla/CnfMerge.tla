------------------------------ MODULE CnfMerge ------------------------------
(***************************************************************************)
(* PicosatCNF::incrementWith: a model's CNF ("other") is added to the CNF  *)
(* of a formula that was translated before ("this").  Both number their    *)
(* variables from 1, and only some variables have names: the translation   *)
(* leaves auxiliary ones unnamed.  Variables of one name are one variable, *)
(* every other variable of other must get an id that this does not use.    *)
(*                                                                         *)
(* Loops are one action per iteration, std::map's order is left open.  A   *)
(* map from names to ids has 0 for the names it lacks, as getCNFVar does;  *)
(* inferenced has 0 for the ids it lacks, and its entries for negated      *)
(* literals, which are always added in pairs, are left to RenamedLit.      *)
(***************************************************************************)
EXTENDS Integers, FiniteSets

CONSTANTS Name,      \* names of variables
          MaxVar,    \* bound: variables of a CNF before the merge
          ClausesOf  \* ClausesOf[k]: the clause sets a CNF of k variables may have

ASSUME MergeAssumption == MaxVar \in Nat

\* The clauses of k variables are over these.
ASSUME ClausesAssumption ==
  \A k \in 0..MaxVar : ClausesOf[k] \subseteq SUBSET SUBSET ((1..k) \X BOOLEAN)

Id == 1..MaxVar

\* The states a translation leaves: names have ids of their own.
NameMaps(count) ==
  {f \in [Name -> 0..count] : \A m, n \in Name : f[m] = f[n] /\ f[m] # 0 => m = n}

Cnf == UNION {[cnfvars : NameMaps(k), varcount : {k}, clauses : ClausesOf[k]] : k \in 0..MaxVar}

VARIABLES
  this0,       \* this when incrementWith is called
  other,       \* its argument
  cnfvars,     \* this->cnfvars
  boolvars,    \* this->boolvars, as pairs of an id and its name
  varcount,    \* this->varcount
  clauses,     \* this->clauses
  inferenced,  \* the new ids of other's variables
  counter,     \* the last id given out
  todo,        \* names of other the first loop has still to visit
  i,           \* the index of the second loop
  pc           \* the loop that runs

vars == <<this0, other, cnfvars, boolvars, varcount, clauses, inferenced, counter, todo, i, pc>>

Named(f) == {n \in Name : f[n] # 0}
Pairs(f) == {<<f[n], n>> : n \in Named(f)}

\* Counting on from this's ids only: Mutation of FirstCounter.
FirstCounterOwn == this0.varcount
\* The ids that are given out are new to both.
FirstCounter == IF other.varcount > this0.varcount THEN other.varcount ELSE this0.varcount

Init == /\ this0 \in Cnf
        /\ other \in Cnf
        /\ cnfvars = this0.cnfvars
        /\ boolvars = Pairs(this0.cnfvars)
        /\ varcount = this0.varcount
        /\ clauses = this0.clauses
        /\ inferenced = [k \in Id |-> 0]
        /\ counter = FirstCounter
        /\ todo = Named(other.cnfvars)
        /\ i = 1
        /\ pc = "symbols"

\* setCNFVar_fast: both maps, varcount is left for the end.
SetCNFVar(n, id) ==
  /\ cnfvars' = [cnfvars EXCEPT ![n] = id]
  /\ boolvars' = {p \in boolvars : p[1] # id} \cup {<<id, n>>}

\* The name is known to this: its id is used.
Shared(n) ==
  /\ cnfvars[n] # 0
  /\ inferenced' = [inferenced EXCEPT ![other.cnfvars[n]] = cnfvars[n]]
  /\ UNCHANGED <<cnfvars, boolvars, counter>>

\* A test with < for ids this may use: Mutation of Taken.
TakenBelow(id) == id < this0.varcount
Taken(id) == id <= this0.varcount

\* The name is new, its id may be used by this: it gets a new one.
Fresh(n) ==
  /\ cnfvars[n] = 0
  /\ Taken(other.cnfvars[n])
  /\ counter' = counter + 1
  /\ SetCNFVar(n, counter')
  /\ inferenced' = [inferenced EXCEPT ![other.cnfvars[n]] = counter']

\* The name is new and so is its id.
Keep(n) ==
  /\ cnfvars[n] = 0
  /\ ~ Taken(other.cnfvars[n])
  /\ SetCNFVar(n, other.cnfvars[n])
  /\ UNCHANGED <<inferenced, counter>>

Symbol(n) ==
  /\ pc = "symbols"
  /\ n \in todo
  /\ todo' = todo \ {n}
  /\ Shared(n) \/ Fresh(n) \/ Keep(n)
  /\ UNCHANGED <<this0, other, varcount, clauses, i, pc>>

SymbolsDone ==
  /\ pc = "symbols"
  /\ todo = {}
  /\ pc' = "unnamed"
  /\ UNCHANGED <<this0, other, cnfvars, boolvars, varcount, clauses, inferenced, counter, todo, i>>

\* Ids that are renamed already are skipped by the second loop: without the test,
\* Mutation of NeedsId.
AlwaysNeedsId(k) == TRUE
\* No second loop at all: Mutation of NeedsId.
NeverNeedsId(k) == FALSE
NeedsId(k) == inferenced[k] = 0

\* Ids that other's unnamed variables may have in common with this.
Unnamed ==
  /\ pc = "unnamed"
  /\ i <= this0.varcount
  /\ i' = i + 1
  /\ IF NeedsId(i)
       THEN counter' = counter + 1 /\ inferenced' = [inferenced EXCEPT ![i] = counter']
       ELSE UNCHANGED <<counter, inferenced>>
  /\ UNCHANGED <<this0, other, cnfvars, boolvars, varcount, clauses, todo, pc>>

Renamed(id) == IF inferenced[id] # 0 THEN inferenced[id] ELSE id
RenamedLit(l) == <<Renamed(l[1]), l[2]>>

\* The ids are all given: other's clauses are added, renamed.
Transfer ==
  /\ pc = "unnamed"
  /\ i > this0.varcount
  /\ varcount' = counter
  /\ clauses' = clauses \cup {{RenamedLit(l) : l \in c} : c \in other.clauses}
  /\ pc' = "done"
  /\ UNCHANGED <<this0, other, cnfvars, boolvars, inferenced, counter, todo, i>>

Next == SymbolsDone \/ Unnamed \/ Transfer \/ \E n \in Name : Symbol(n)

Spec == Init /\ [][Next]_vars

-----------------------------------------------------------------------------
TypeOK == /\ cnfvars \in [Name -> Nat]
          /\ boolvars \subseteq (Nat \ {0}) \X Name
          /\ varcount \in Nat
          /\ counter \in Nat
          /\ inferenced \in [Id -> Nat]
          /\ todo \subseteq Name
          /\ i \in 1..(MaxVar + 1)

\* In the merged CNF different variables of other are different variables still.
RenameInjective ==
  pc = "done" => \A j, k \in 1..other.varcount : Renamed(j) = Renamed(k) => j = k

\* A variable of other becomes one of this only if they have the same name, and
\* then it does: no auxiliary variable of this is captured.
NoCapture ==
  pc = "done" =>
    \A k \in 1..other.varcount, j \in 1..this0.varcount :
      Renamed(k) = j <=> \E n \in Name : this0.cnfvars[n] = j /\ other.cnfvars[n] = k

\* The name maps of the merged CNF: they are inverse to each other, this keeps its
\* ids, and each name of other has the id its clauses now use.
NamesInSync ==
  pc = "done" =>
    /\ boolvars = Pairs(cnfvars)
    /\ \A m, n \in Name : cnfvars[m] = cnfvars[n] /\ cnfvars[m] # 0 => m = n
    /\ \A n \in Named(this0.cnfvars) : cnfvars[n] = this0.cnfvars[n]
    /\ \A n \in Named(other.cnfvars) : cnfvars[n] = Renamed(other.cnfvars[n])

\* No id is beyond varcount, which is what picosat_adjust and newVar count on.
IdsCounted ==
  pc = "done" => /\ \A k \in 1..other.varcount : Renamed(k) <= varcount
                 /\ \A n \in Name : cnfvars[n] <= varcount
                 /\ this0.varcount <= varcount
=============================================================================
