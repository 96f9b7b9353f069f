---------------------------- MODULE SliceProofs ----------------------------
(***************************************************************************)
(* Proofs about ModelSlice: for every model, whatever its formulas mention *)
(* and whether or not they do so in cycles, the worklist computes exactly  *)
(* what can be reached, and two calls without a blacklist emit exactly the *)
(* formulas of what both expressions need.                                 *)
(***************************************************************************)
EXTENDS ModelSlice, TLAPS

HasFormula(S) == {x \in S : mentions[x] # {}}

Typed == /\ TypeOK
         /\ mentions \in [Item -> SUBSET Item]
         /\ \A x \in Item \ Known : mentions[x] = {}
         /\ exps \in [1..2 -> SUBSET Item]
         /\ lists \in [on : SUBSET Item, off : SUBSET Item]
         /\ call \in 1..2
         /\ pc \in {"extend", "extendOff", "lists", "returned"}
         /\ call = 1 => exclude = {}

\* In the first extension: the start is in, all that left the stack is closed, and
\* nothing is in that any covering set could do without.
Worklist ==
  pc = "extend" =>
    /\ Start(call) \subseteq items
    /\ \A x \in items \ stack : mentions[x] \subseteq items
    /\ \A C \in SUBSET Item : Covers(C, Start(call)) => items \subseteq C

\* Items of the lists that the first call has to assert.
Listed ==
  /\ call = 1 /\ pc \in {"extendOff", "lists"} => lists.on \cup lists.off \subseteq items
  /\ call = 2 \/ pc = "returned" =>
       /\ \A x \in lists.on \cap Known : <<x, TRUE>> \in asserted
       /\ \A x \in lists.off \cap Known : <<x, FALSE>> \in asserted

Both == exps[1] \cup exps[2] \cup lists.on

\* Without a blacklist: what was emitted so far, and for what.
Emitted ==
  lists.off = {} =>
    /\ pc # "extendOff"
    /\ call = 1 /\ pc = "extend" => emitted = {}
    /\ call = 1 /\ pc # "extend" => /\ Reach(items, Start(1))
                                    /\ emitted = HasFormula(items)
    /\ call = 2 => Reach(exclude, Start(1))
    /\ call = 2 /\ pc = "extend" => emitted = HasFormula(exclude)
    /\ call = 2 /\ pc # "extend" => /\ Reach(exclude \cup items, Both)
                                    /\ emitted = HasFormula(exclude \cup items)

\* The inductive invariant.
IInv == Typed /\ Worklist /\ Listed /\ Emitted

\* What can be reached from a set is one set.
LEMMA ReachUnique ==
  ASSUME NEW S \in SUBSET Item, NEW T \in SUBSET Item, NEW B, Reach(S, B), Reach(T, B)
  PROVE  S = T
BY DEF Reach

\* Reaching from two sets is reaching from their union.
LEMMA ReachUnion ==
  ASSUME NEW S \in SUBSET Item, NEW T \in SUBSET Item, NEW A, NEW B,
         Reach(S, A), Reach(T, B)
  PROVE  Reach(S \cup T, A \cup B)
BY DEF Reach, Covers, Closed

\* An empty stack: the worklist has reached everything.
LEMMA WorklistDone ==
  ASSUME IInv, pc = "extend", stack = {}
  PROVE  Reach(items, Start(call))
BY DEF IInv, Worklist, Reach, Covers, Closed

LEMMA InitIInv == Init => IInv
<1> SUFFICES ASSUME Init PROVE IInv OBVIOUS
<1>1. /\ mentions \in [Item -> SUBSET Item]
      /\ \A x \in Item \ Known : mentions[x] = {}
      /\ exps \in [1..2 -> SUBSET Item]
      /\ lists \in [on : SUBSET Item, off : SUBSET Item]
  BY SliceAssumption DEF Init
<1>2. Start(1) \subseteq Item BY <1>1 DEF Start
<1>3. Typed BY <1>1, <1>2 DEF Init, Typed, TypeOK
<1>4. Worklist BY DEF Init, Worklist, Covers
<1>5. Listed BY DEF Init, Listed
<1>6. Emitted BY DEF Init, Emitted
<1> QED BY <1>3, <1>4, <1>5, <1>6 DEF IInv

\* One item is taken from the stack.
LEMMA ExtendKeeps ==
  ASSUME IInv, Extend
  PROVE  IInv'
<1>1. PICK x \in stack : /\ items' = items \cup New(x)
                         /\ stack' = (stack \ {x}) \cup New(x)
  BY DEF Extend
<1>2. /\ UNCHANGED <<mentions, exps, lists, call, pc, exclude, emitted, asserted, missing>>
      /\ pc \in {"extend", "extendOff"}
  BY DEF Extend, input
<1>3. x \in items /\ x \in Item /\ mentions[x] \subseteq Item
      /\ New(x) \subseteq mentions[x] /\ mentions[x] \subseteq items \cup New(x)
  BY DEF IInv, Typed, TypeOK, New
<1>4. Typed' BY <1>1, <1>2, <1>3 DEF IInv, Typed, TypeOK
<1>5. Worklist'
  <2> SUFFICES ASSUME pc = "extend"
               PROVE  /\ Start(call) \subseteq items'
                      /\ \A y \in items' \ stack' : mentions[y] \subseteq items'
                      /\ \A C \in SUBSET Item : Covers(C, Start(call)) => items' \subseteq C
    BY <1>2 DEF Worklist, Start, Covers, Closed
  <2>1. Start(call) \subseteq items' BY <1>1 DEF IInv, Worklist
  <2>2. \A y \in items' \ stack' : mentions[y] \subseteq items'
    BY <1>1, <1>3 DEF IInv, Worklist
  <2>3. \A C \in SUBSET Item : Covers(C, Start(call)) => items' \subseteq C
    BY <1>1, <1>3 DEF IInv, Worklist, Covers, Closed
  <2> QED BY <2>1, <2>2, <2>3
<1>6. Listed' BY <1>1, <1>2 DEF IInv, Listed
<1>7. Emitted' BY <1>2 DEF IInv, Emitted, Reach, Covers, Closed, Start, HasFormula, Both
<1> QED BY <1>4, <1>5, <1>6, <1>7 DEF IInv

\* The formulas of the slice are emitted, the blacklist joins.
LEMMA EmitKeeps ==
  ASSUME IInv, Emit
  PROVE  IInv'
<1> USE DEF Extended, ExtendsAgain
<1>1. /\ UNCHANGED <<mentions, exps, lists, call, exclude, asserted, missing>>
      /\ pc = "extend" /\ stack = {}
      /\ emitted' = emitted \cup HasFormula(Remaining)
      /\ items' = Remaining \cup lists.off
      /\ pc' \in {"extendOff", "lists"}
      /\ pc' = "extendOff" <=> lists.off # {}
      /\ stack' \subseteq items'
  BY DEF Emit, input, HasFormula
<1>2. Remaining \subseteq Item /\ lists.off \subseteq Item
  BY DEF Remaining, IInv, Typed, TypeOK
<1>3. HasFormula(Remaining) \subseteq Known BY <1>2 DEF HasFormula, IInv, Typed
<1>4. Typed' BY <1>1, <1>2, <1>3 DEF IInv, Typed, TypeOK
<1>5. Worklist' BY <1>1 DEF Worklist
<1>6. Listed'
  <2>1. ASSUME call = 1 PROVE lists.on \cup lists.off \subseteq items'
    <3>1. Remaining = items /\ lists.on \subseteq items
      BY <1>1, <2>1 DEF Remaining, IInv, Typed, Worklist, Start
    <3> QED BY <1>1, <3>1
  <2> QED BY <1>1, <2>1 DEF IInv, Listed
<1>7. Emitted'
  <2> SUFFICES ASSUME lists.off = {} PROVE Emitted' BY <1>1 DEF Emitted
  <2>1. items' = Remaining /\ pc' = "lists" BY <1>1
  <2>2. Reach(items, Start(call)) BY <1>1, WorklistDone
  <2>3. CASE call = 1
    <3>1. Remaining = items /\ emitted = {}
      BY <1>1, <2>3 DEF Remaining, IInv, Typed, Emitted
    <3>2. Reach(items, Start(1))' BY <1>1, <2>1, <2>2, <2>3, <3>1 DEF Reach, Covers, Closed, Start
    <3>3. emitted' = HasFormula(items)' BY <1>1, <2>1, <3>1 DEF HasFormula
    <3> QED BY <1>1, <2>1, <2>3, <3>2, <3>3 DEF Emitted
  <2>4. CASE call = 2
    <3>1. Reach(exclude, Start(1)) /\ emitted = HasFormula(exclude)
      BY <1>1, <2>4 DEF IInv, Emitted
    <3>2. exclude \in SUBSET Item /\ items \in SUBSET Item BY DEF IInv, Typed, TypeOK
    <3>3. Reach(exclude \cup items, Start(1) \cup Start(2))
      BY <2>2, <2>4, <3>1, <3>2, ReachUnion
    <3>4. exclude \cup items' = exclude \cup items /\ Start(1) \cup Start(2) = Both
      BY <2>1 DEF Remaining, Start, Both
    <3>5. Reach(exclude \cup items, Both)'
      BY <1>1, <3>3, <3>4 DEF Reach, Covers, Closed, Both
    <3>6. emitted' = HasFormula(exclude \cup items)'
      BY <1>1, <3>1, <3>4 DEF HasFormula, Remaining
    <3>7. Reach(exclude, Start(1))' BY <1>1, <3>1 DEF Reach, Covers, Closed, Start
    <3> QED BY <1>1, <2>1, <2>4, <3>5, <3>6, <3>7 DEF Emitted
  <2> QED BY <2>3, <2>4 DEF IInv, Typed
<1> QED BY <1>4, <1>5, <1>6, <1>7 DEF IInv

\* The remaining phases of a call.
LEMMA IntersectKeeps ==
  ASSUME IInv, ExtendedOff \/ Intersect
  PROVE  IInv'
<1>1. /\ UNCHANGED <<mentions, exps, lists, call, items, stack, exclude, emitted>>
      /\ pc' \in {"lists", "returned"} /\ pc \in {"extendOff", "lists"}
  BY DEF ExtendedOff, Intersect, input
<1>2. Typed'
  <2>1. items \subseteq Item BY DEF IInv, Typed, TypeOK
  <2>2. asserted' \subseteq Item \X BOOLEAN
    <3>1. asserted \subseteq Item \X BOOLEAN BY DEF IInv, Typed, TypeOK
    <3>2. \A x \in items : <<x, TRUE>> \in Item \X BOOLEAN /\ <<x, FALSE>> \in Item \X BOOLEAN
      BY <2>1
    <3>3. CASE ExtendedOff BY <3>1, <3>3 DEF ExtendedOff
    <3>4. CASE Intersect
      <4>1. \A p \in asserted' : p \in asserted \/ \E x \in items : p = <<x, TRUE>> \/ p = <<x, FALSE>>
        BY <3>4 DEF Intersect
      <4> QED BY <3>1, <3>2, <4>1
    <3> QED BY <3>3, <3>4
  <2>3. missing' \subseteq Item \ Known
    BY <2>1 DEF IInv, Typed, TypeOK, ExtendedOff, Intersect
  <2> QED BY <1>1, <2>2, <2>3 DEF IInv, Typed, TypeOK
<1>3. Worklist' BY <1>1 DEF Worklist
<1>4. Listed'
  <2>1. CASE ExtendedOff BY <1>1, <2>1 DEF IInv, Listed, ExtendedOff
  <2>2. CASE Intersect
    <3>1. asserted \subseteq asserted' BY <2>2 DEF Intersect
    <3>2. CASE call = 2 BY <1>1, <2>2, <3>1, <3>2 DEF IInv, Listed, Intersect
    <3>3. CASE call = 1
      <4>1. lists.on \cup lists.off \subseteq items BY <2>2, <3>3 DEF IInv, Listed, Intersect
      <4>2. /\ \A x \in lists.on \cap Known : <<x, TRUE>> \in asserted'
            /\ \A x \in lists.off \cap Known : <<x, FALSE>> \in asserted'
        BY <2>2, <4>1 DEF Intersect
      <4> QED BY <1>1, <2>2, <4>2 DEF Listed, Intersect
    <3> QED BY <3>2, <3>3 DEF IInv, Typed
  <2> QED BY <2>1, <2>2
<1>5. Emitted' BY <1>1 DEF IInv, Emitted, Reach, Covers, Closed, Start, HasFormula, Both
<1> QED BY <1>2, <1>3, <1>4, <1>5 DEF IInv

\* The second call starts.
LEMMA SecondCallKeeps ==
  ASSUME IInv, SecondCall
  PROVE  IInv'
<1>1. /\ UNCHANGED <<mentions, exps, lists, emitted, asserted, missing>>
      /\ pc = "returned" /\ call = 1 /\ call' = 2 /\ pc' = "extend"
      /\ exclude' = items /\ items' = Start(2) /\ stack' = Start(2)
  BY DEF SecondCall, input
<1>2. Start(2) \subseteq Item BY DEF IInv, Typed, Start
<1>3. Typed' BY <1>1, <1>2 DEF IInv, Typed, TypeOK
<1>4. Worklist' BY <1>1 DEF Worklist, Covers, Start
<1>5. Listed' BY <1>1 DEF IInv, Listed
<1>6. Emitted' BY <1>1 DEF IInv, Emitted, Reach, Covers, Closed, Start, HasFormula
<1> QED BY <1>3, <1>4, <1>5, <1>6 DEF IInv

LEMMA NextIInv == IInv /\ [Next]_vars => IInv'
<1>1. ASSUME IInv, UNCHANGED vars PROVE IInv'
  <2> USE <1>1 DEF vars, input, IInv
  <2>1. Typed' BY DEF Typed, TypeOK
  <2>2. Worklist' BY DEF Worklist, Start, Covers, Closed
  <2>3. Listed' BY DEF Listed
  <2>4. Emitted' BY DEF Emitted, Reach, Covers, Closed, Start, HasFormula, Both
  <2> QED BY <2>1, <2>2, <2>3, <2>4
<1> QED BY <1>1, ExtendKeeps, EmitKeeps, IntersectKeeps, SecondCallKeeps DEF Next

\* For every model and every pair of expressions the worklist computes exactly what is
\* reachable.
THEOREM SliceSound == Spec => []SliceExact
<1>1. IInv => SliceExact
  BY WorklistDone DEF SliceExact, Start
<1> QED BY InitIInv, NextIInv, <1>1, PTL DEF Spec

\* Known items of the lists are asserted by the first call, in whatever part of the
\* model they are.
THEOREM ListsSound == Spec => []ListsAsserted
<1>1. IInv => ListsAsserted BY DEF IInv, Listed, ListsAsserted
<1> QED BY InitIInv, NextIInv, <1>1, PTL DEF Spec

\* Without a blacklist the two calls emit exactly what both expressions need.
THEOREM CallsCombine == Spec => []CombinedExact
<1>1. IInv => CombinedExact
  <2> SUFFICES ASSUME IInv, Finished, lists.off = {}, NEW S \in SUBSET Item, Reach(S, Both)
               PROVE  emitted = HasFormula(S)
    BY DEF CombinedExact, Both, HasFormula
  <2>1. Reach(exclude \cup items, Both) /\ emitted = HasFormula(exclude \cup items)
    BY DEF IInv, Emitted, Finished
  <2>2. exclude \cup items \in SUBSET Item BY DEF IInv, Typed, TypeOK
  <2>3. S = exclude \cup items BY <2>1, <2>2, ReachUnique
  <2> QED BY <2>1, <2>3
<1> QED BY InitIInv, NextIInv, <1>1, PTL DEF Spec

-----------------------------------------------------------------------------
(* The missing set. *)

\* What the first call is to look at, and what it reports of a set of items.
Wanted == exps[1] \cup lists.on \cup lists.off

Lacking(S) == (S \cap Space) \ (Known \cup Defined \cup Free)

\* The second extension of the first call continues the first: it is a worklist again.
SecondWorklist ==
  /\ Wanted \subseteq items
  /\ \A x \in items \ stack : mentions[x] \subseteq items
  /\ \A C \in SUBSET Item : Covers(C, Wanted) => items \subseteq C

\* The missing set as the calls go on: empty until the loop of the first call, which
\* reads it off the slice; the second call adds nothing that the first has looked at.
MissingSoFar ==
  /\ call = 1 /\ pc # "returned" => missing = {}
  /\ call = 1 /\ pc = "extendOff" => SecondWorklist
  /\ call = 1 /\ pc \in {"lists", "returned"} => Reach(items, Wanted)
  /\ call = 1 /\ pc = "returned" => missing = Lacking(items)
  /\ call = 2 /\ lists.off = {} => missing \cap exclude \cap Defined = {}
  /\ call = 2 /\ lists.off = {} /\ pc # "extend" => items \cap exclude = {}

LEMMA InitMissing == Init => MissingSoFar
BY DEF Init, MissingSoFar

LEMMA ExtendMissing ==
  ASSUME IInv, MissingSoFar, Extend
  PROVE  MissingSoFar'
<1>1. PICK x \in stack : /\ items' = items \cup New(x)
                         /\ stack' = (stack \ {x}) \cup New(x)
  BY DEF Extend
<1>2. /\ UNCHANGED <<mentions, exps, lists, call, pc, exclude, emitted, asserted, missing>>
      /\ pc \in {"extend", "extendOff"}
  BY DEF Extend, input
<1>3. x \in items /\ x \in Item /\ mentions[x] \subseteq items \cup New(x)
      /\ New(x) \subseteq mentions[x]
  BY DEF IInv, Typed, TypeOK, New
<1>4. ASSUME call = 1, pc = "extendOff" PROVE SecondWorklist'
  <2>1. SecondWorklist BY <1>4 DEF MissingSoFar
  <2>2. Wanted' = Wanted BY <1>2 DEF Wanted
  <2>3. \A C \in SUBSET Item : Covers(C, Wanted) => items' \subseteq C
    BY <1>1, <1>3, <2>1 DEF SecondWorklist, Covers, Closed
  <2>4. \A y \in items' \ stack' : mentions[y] \subseteq items'
    BY <1>1, <1>3, <2>1 DEF SecondWorklist
  <2> QED BY <1>1, <1>2, <2>1, <2>2, <2>3, <2>4 DEF SecondWorklist, Covers, Closed
<1>5. ASSUME call = 2, lists.off = {} PROVE pc # "extendOff"
  BY <1>5 DEF IInv, Emitted
<1> QED BY <1>2, <1>4, <1>5 DEF MissingSoFar

LEMMA EmitMissing ==
  ASSUME IInv, MissingSoFar, Emit
  PROVE  MissingSoFar'
<1>1. /\ UNCHANGED <<mentions, exps, lists, call, exclude, asserted, missing>>
      /\ pc = "extend" /\ stack = {}
      /\ items' = Remaining \cup lists.off
      /\ \/ pc' = "extendOff" /\ stack' = items'
         \/ pc' = "lists" /\ lists.off = {}
  BY DEF Emit, input, Extended, ExtendsAgain
<1>2. Reach(items, Start(call)) BY <1>1, WorklistDone
<1>3. ASSUME call = 1 PROVE items' = items \cup lists.off
  BY <1>1, <1>3 DEF Remaining, IInv, Typed
<1>4. ASSUME call = 1, pc' = "extendOff" PROVE SecondWorklist'
  <2>1. Wanted' = Wanted /\ Wanted = Start(1) \cup lists.off BY <1>1 DEF Wanted, Start
  <2>2. Wanted \subseteq items' BY <1>2, <1>3, <1>4, <2>1 DEF Reach, Covers
  <2>3. \A C \in SUBSET Item : Covers(C, Wanted) => items' \subseteq C
    BY <1>2, <1>3, <1>4, <2>1 DEF Reach, Covers
  <2> QED BY <1>1, <1>4, <2>1, <2>2, <2>3 DEF SecondWorklist, Covers, Closed
<1>5. ASSUME call = 1, pc' = "lists" PROVE Reach(items, Wanted)'
  <2>1. lists.off = {} /\ items' = items /\ Wanted' = Start(1) BY <1>1, <1>3, <1>5 DEF Wanted, Start
  <2> QED BY <1>1, <1>2, <1>5, <2>1 DEF Reach, Covers, Closed
<1>6. ASSUME lists.off = {} PROVE items' \cap exclude = {}
  BY <1>1, <1>6 DEF Remaining
<1> QED BY <1>1, <1>4, <1>5, <1>6 DEF MissingSoFar

LEMMA IntersectMissing ==
  ASSUME IInv, MissingSoFar, ExtendedOff \/ Intersect
  PROVE  MissingSoFar'
<1>1. UNCHANGED <<mentions, exps, lists, call, items, stack, exclude, emitted>>
  BY DEF ExtendedOff, Intersect, input
<1>2. CASE ExtendedOff
  <2>1. pc = "extendOff" /\ pc' = "lists" /\ stack = {} /\ missing' = missing
    BY <1>2 DEF ExtendedOff, Extended
  <2>2. ASSUME call = 1 PROVE Reach(items, Wanted)'
    BY <1>1, <2>1, <2>2 DEF MissingSoFar, SecondWorklist, Reach, Covers, Closed, Wanted
  <2> QED BY <1>1, <2>1, <2>2 DEF MissingSoFar
<1>3. CASE Intersect
  <2>1. /\ pc = "lists" /\ pc' = "returned"
        /\ missing' = missing \cup {x \in (items \ Known) \cap (Space \ Free) : Checked(x)}
    BY <1>3 DEF Intersect
  <2>2. ASSUME call = 1 PROVE missing' = Lacking(items) /\ Reach(items, Wanted)'
    <3>1. missing = {} /\ Reach(items, Wanted) BY <2>1, <2>2 DEF MissingSoFar
    <3>2. \A x : Checked(x) <=> x \notin Defined BY <2>2 DEF Checked
    <3>3. missing' = Lacking(items) BY <2>1, <3>1, <3>2 DEF Lacking
    <3> QED BY <1>1, <3>1, <3>3 DEF Reach, Covers, Closed, Wanted
  <2>3. ASSUME call = 2, lists.off = {} PROVE missing' \cap exclude \cap Defined = {}
    BY <2>1, <2>3 DEF MissingSoFar
  <2> QED BY <1>1, <2>1, <2>2, <2>3 DEF MissingSoFar, Lacking
<1> QED BY <1>2, <1>3

LEMMA SecondCallMissing ==
  ASSUME IInv, MissingSoFar, SecondCall
  PROVE  MissingSoFar'
BY DEF SecondCall, input, MissingSoFar, Lacking

LEMMA NextMissing == IInv /\ MissingSoFar /\ [Next]_vars => MissingSoFar'
<1>1. ASSUME MissingSoFar, UNCHANGED vars PROVE MissingSoFar'
  BY <1>1 DEF vars, input, MissingSoFar, SecondWorklist, Wanted, Lacking, Reach, Covers, Closed
<1> QED BY <1>1, ExtendMissing, EmitMissing, IntersectMissing, SecondCallMissing DEF Next

\* After the first call the missing set is exactly what the slice with the blacklist
\* mentions and the model lacks, without the file's own macros; and the second call does
\* not let them back in, if there is no blacklist.
THEOREM MissingSound == Spec => []MissingExact
<1>1. IInv /\ MissingSoFar => MissingExact
  <2> SUFFICES ASSUME IInv, MissingSoFar PROVE MissingExact OBVIOUS
  <2>1. ASSUME call = 1, pc = "returned", NEW S \in SUBSET Item, Reach(S, Wanted)
        PROVE  missing = (S \cap Space) \ (Known \cup Defined \cup Free)
    <3>1. Reach(items, Wanted) /\ missing = Lacking(items) BY <2>1 DEF MissingSoFar
    <3>2. items \in SUBSET Item BY DEF IInv, Typed, TypeOK
    <3>3. S = items BY <2>1, <3>1, <3>2, ReachUnique
    <3> QED BY <3>1, <3>3 DEF Lacking
  <2>2. ASSUME Finished, lists.off = {}, NEW S \in SUBSET Item, Reach(S, exps[1] \cup lists.on)
        PROVE  missing \cap S \cap Defined = {}
    <3>1. Reach(exclude, exps[1] \cup lists.on)
      BY <2>2 DEF Finished, IInv, Emitted, Start
    <3>2. exclude \in SUBSET Item BY DEF IInv, Typed, TypeOK
    <3>3. S = exclude BY <2>2, <3>1, <3>2, ReachUnique
    <3> QED BY <2>2, <3>3 DEF MissingSoFar, Finished
  <2> QED BY <2>1, <2>2 DEF MissingExact, Wanted
<1> QED BY InitIInv, NextIInv, InitMissing, NextMissing, <1>1, PTL DEF Spec
=============================================================================
