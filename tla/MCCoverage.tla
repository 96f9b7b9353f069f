------------------------------ MODULE MCCoverage ------------------------------
(* A file with one #if/#else group, and one #if of its own.                    *)
EXTENDS Coverage

MCPrev == <<0, 0, 2, 0>>

\* B00 is set, and at most one block of the group.
Enabled == {on \in SUBSET Blocks : 1 \in on /\ ~{2, 3} \subseteq on}

\* With a model, symbols outside its space are not looked at.
MCModelAssignments == {[on |-> on, sym |-> v] : on \in Enabled, v \in {0, 1}}
===============================================================================
