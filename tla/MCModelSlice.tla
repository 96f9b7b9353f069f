---------------------------- MODULE MCModelSlice ----------------------------
(* ModelSlice on three known items with formulas that mention an item or two, and
   three the model lacks, one of them a macro of the file and one a free name. *)
EXTENDS ModelSlice
CONSTANTS a, b, c, absent, macro, free
Mentioning == {{}, {a}, {b}, {c}, {absent}, {macro}, {free}, {b, absent}}
AllGraphs == {[i \in Item |-> IF i \in Known THEN f[i] ELSE {}] : f \in [Known -> Mentioning]}
Singles == {[k \in 1..2 |-> IF k = 1 THEN {x} ELSE {y}] : x \in {a, macro}, y \in {a, b, macro}}
ShortLists == {[on |-> x, off |-> y] : x \in {{}, {b}}, y \in {{}, {c}}}
=============================================================================
