----------------------------- MODULE ModelSlice -----------------------------
(***************************************************************************)
(* ConfigurationModel::doIntersect on a model of formulas (.model/.rsf):   *)
(* the slice of the model that an expression needs.  Each known item may   *)
(* have a formula "item -> (...)" that mentions other items; a worklist    *)
(* collects all that is reachable, the formulas of the slice are emitted,  *)
(* white- and blacklisted items are asserted, and items the model lacks    *)
(* are put into the missing set.                                           *)
(*                                                                         *)
(* The defect analysis calls it twice for a block: for its code formula,   *)
(* and then for its build system condition, leaving out the items the      *)
(* first call returned.  Both calls are modelled, one action per loop      *)
(* iteration or phase.  The formulas themselves are abstracted to the      *)
(* items they mention.                                                     *)
(***************************************************************************)
EXTENDS Naturals

CONSTANTS Item,        \* names of items
          Known,       \* the items the model contains
          Space,       \* inConfigurationSpace: names of the form CONFIG_...
          Defined,     \* items the analysed file #defines
          Free,        \* __FREE__ and CONFIG_CVALUE_ names
          Graphs,      \* what the formulas of a model may mention
          Expressions, \* the item sets of the two expressions
          Lists        \* the pairs of a whitelist and a blacklist

ASSUME SliceAssumption ==
  /\ Known \subseteq Item
  /\ Graphs \subseteq {f \in [Item -> SUBSET Item] : \A x \in Item \ Known : f[x] = {}}
  /\ Expressions \subseteq [1..2 -> SUBSET Item]
  /\ Lists \subseteq [on : SUBSET Item, off : SUBSET Item]

VARIABLES
  mentions,  \* the model: the items in the formula of an item, none without one
  exps,      \* the items of the expressions of the two calls
  lists,     \* ALWAYS_ON and ALWAYS_OFF
  call,      \* 1 for the code formula, 2 for the build system condition
  pc,
  items,     \* item_set, start_items
  stack,     \* workingStack
  exclude,   \* *exclude_set
  emitted,   \* items whose formula was pushed into the result of a call
  asserted,  \* items asserted on or off
  missing    \* the missing set, which both calls add to

input == <<mentions, exps, lists>>
vars == <<input, call, pc, items, stack, exclude, emitted, asserted, missing>>

\* The preprocessing without the whitelist: Mutation of Start.
StartBare(c) == exps[c]
\* ALWAYS_ON items and what they need are in every slice.
Start(c) == exps[c] \cup lists.on

Init == /\ mentions \in Graphs
        /\ exps \in Expressions
        /\ lists \in Lists
        /\ call = 1
        /\ pc = "extend"
        /\ items = Start(1)
        /\ stack = Start(1)
        /\ exclude = {}
        /\ emitted = {}
        /\ asserted = {}
        /\ missing = {}

\* Every item that a formula mentions is looked at, seen or not: Mutation of New.
NewAlways(i) == mentions[i]
New(i) == mentions[i] \ items

\* extendWithInterestingItems, one item: what its formula mentions and was not seen
\* is new.  The order in which the stack gives items back is left open.
Extend ==
  /\ pc \in {"extend", "extendOff"}
  /\ \E i \in stack : /\ items' = items \cup New(i)
                      /\ stack' = (stack \ {i}) \cup New(i)
  /\ UNCHANGED <<input, call, pc, exclude, emitted, asserted, missing>>

Remaining == items \ exclude

\* Formulas are pushed before the slice is complete: Mutation of Extended.
ExtendedEarly == TRUE
Extended == stack = {}

\* Without the second extension: Mutation of ExtendsAgain.
ExtendsNever == FALSE
ExtendsAgain == lists.off # {}

\* The excluded items go, the formulas of the others are pushed; then ALWAYS_OFF
\* items join the set, and what they need, but not their formulas.
Emit ==
  /\ pc = "extend"
  /\ Extended
  /\ emitted' = emitted \cup {i \in Remaining : mentions[i] # {}}
  /\ items' = Remaining \cup lists.off
  /\ IF ExtendsAgain THEN stack' = items' /\ pc' = "extendOff"
                     ELSE pc' = "lists" /\ UNCHANGED stack
  /\ UNCHANGED <<input, call, exclude, asserted, missing>>

ExtendedOff ==
  /\ pc = "extendOff"
  /\ Extended
  /\ pc' = "lists"
  /\ UNCHANGED <<input, call, items, stack, exclude, emitted, asserted, missing>>

\* The checker that skips the file's own macros is passed for the code formula only.
Checked(i) == call = 1 => i \notin Defined

\* The loop over the slice in doIntersect: lists for known items, the missing set for
\* the others.
Intersect ==
  /\ pc = "lists"
  /\ asserted' = asserted \cup {<<i, TRUE>> : i \in items \cap Known \cap lists.on}
                          \cup {<<i, FALSE>> : i \in items \cap Known \cap lists.off}
  /\ missing' = missing \cup {i \in (items \ Known) \cap (Space \ Free) : Checked(i)}
  /\ pc' = "returned"
  /\ UNCHANGED <<input, call, items, stack, exclude, emitted>>

\* isDefect goes on to the build system condition, and excludes what the first call returned.
SecondCall ==
  /\ pc = "returned"
  /\ call = 1
  /\ call' = 2
  /\ pc' = "extend"
  /\ exclude' = items
  /\ items' = Start(2)
  /\ stack' = Start(2)
  /\ UNCHANGED <<input, emitted, asserted, missing>>

Next == Extend \/ Emit \/ ExtendedOff \/ Intersect \/ SecondCall

Spec == Init /\ [][Next]_vars
FairSpec == Spec /\ WF_vars(Next)

-----------------------------------------------------------------------------
TypeOK == /\ items \subseteq Item
          /\ stack \subseteq items
          /\ exclude \subseteq Item
          /\ emitted \subseteq Known
          /\ asserted \subseteq Item \X BOOLEAN
          /\ missing \subseteq Item \ Known

Closed(S) == \A i \in S : mentions[i] \subseteq S
Covers(S, B) == B \subseteq S /\ Closed(S)
\* S is what can be reached from B.
Reach(S, B) == Covers(S, B) /\ \A C \in SUBSET Item : Covers(C, B) => S \subseteq C

Finished == call = 2 /\ pc = "returned"

\* The worklist computes the slice exactly: everything the expression and the
\* whitelist need, directly or through formulas, and nothing else.
SliceExact == pc = "extend" /\ stack = {} => Reach(items, exps[call] \cup lists.on)

\* Without a blacklist the two calls lose nothing between them: the formulas they emit
\* together are those of all items that the block and its build condition need.
CombinedExact ==
  Finished /\ lists.off = {} =>
    \A S \in SUBSET Item : Reach(S, exps[1] \cup exps[2] \cup lists.on) =>
      emitted = {i \in S : mentions[i] # {}}

\* Known items of the lists are asserted by the end of the first call already, in
\* whatever part of the model they are, so that the second may exclude them.
ListsAsserted ==
  pc = "returned" => /\ \A i \in lists.on \cap Known : <<i, TRUE>> \in asserted
                     /\ \A i \in lists.off \cap Known : <<i, FALSE>> \in asserted

\* After the first call the missing set is exactly what the slice, extended by the
\* blacklist, mentions and the model lacks, the file's own macros excepted.  The
\* second call, which checks nothing, does not let back in what the first has kept
\* out, if there is no blacklist.
MissingExact ==
  /\ call = 1 /\ pc = "returned" =>
       \A S \in SUBSET Item : Reach(S, exps[1] \cup lists.on \cup lists.off) =>
         missing = (S \cap Space) \ (Known \cup Defined \cup Free)
  /\ Finished /\ lists.off = {} =>
       \A S \in SUBSET Item : Reach(S, exps[1] \cup lists.on) => missing \cap S \cap Defined = {}

\* Cyclic dependencies do not keep the worklist busy: both calls return.
Returns == <>Finished
=============================================================================
