------------------------------- MODULE MCVampyr -------------------------------
(* A file with one #if/#else group, and one #if of its own, checked by vampyr. *)
EXTENDS Vampyr

MCPrev == <<0, 0, 2, 0>>

\* B00 is set, and one block of the group.
Enabled == {on \in SUBSET Blocks : 1 \in on /\ (2 \in on <=> 3 \notin on)}

\* The symbols determine the blocks; two values may enable the same.
MCAssignments == {[on |-> on, sym |-> <<on, 0>>] : on \in Enabled}
                   \cup {[on |-> {1, 2}, sym |-> <<{1, 2}, 1>>]}

\* Nothing; one checked configuration and one of -O kconfig; the eleventh configuration of
\* a file that has changed.
MCLeftovers == {{}, Kinds \X {0} \cup {File("config", 3)},
                {File("cppflags", 10), File("config", 10)}}

\* The third configuration may not be written; the eleventh may not be removed.
MCFaulty == {File("config", 2), File("cppflags", 10), File("config", 10), File("report", 10)}

MCOtherFlags == {{1, 3}, {1, 2, 4}}

\* Two messages about one line in two blocks of their own, the second also given without
\* the first; and one about another line.
MCWarnings == <<[loc |-> 1, text |-> "a", needs |-> {2}],
                [loc |-> 1, text |-> "b", needs |-> {4}],
                [loc |-> 2, text |-> "a", needs |-> {3}]>>
===============================================================================
