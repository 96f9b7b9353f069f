----------------------------- MODULE MCCnfMerge -----------------------------
(* CnfBuild with three names, one of them on the ignorelist: an expression, the
   CNF it is added to and a model of up to three variables.  Names meet that are
   shared, renamed and kept, and unnamed variables of all three.  *)
EXTENDS CnfBuild
CONSTANTS m, n, w

Implications(k) == {{{<<a, FALSE>>, <<b, TRUE>>}} : a, b \in 1..k}
Chain == {{<<1, FALSE>>, <<2, TRUE>>}, {<<2, FALSE>>, <<3, TRUE>>}}
FewClauses ==
    [k \in 0..MaxVar |-> CASE k < 3 -> {{}} \cup Implications(k) [] k = 3 -> {Chain} [] k > 3 -> {}]

Empty == [cnfvars |-> [x \in Name |-> 0], varcount |-> 0, clauses |-> {}]
\* A model in which m demands n.
Model == [cnfvars |-> [x \in Name |-> CASE x = m -> 2 [] x = n -> 1 [] x = w -> 0], varcount |-> 2,
          clauses |-> {{<<2, FALSE>>, <<1, TRUE>>}}]

Inner(op, l, r) == [op |-> op, l |-> l, r |-> r, name |-> m, val |-> FALSE]
Var(x) == [Inner("var", 0, 0) EXCEPT !.name = x]
Const(v) == [Inner("const", 0, 0) EXCEPT !.val = v]
Gates == {"and", "or", "impl", "eq"}

Of(nodes, roots, builder, start) ==
    [nodes |-> nodes, roots |-> roots, builder |-> builder, start |-> start]

\* (m op1 b) op2 c
Parsed ==
    {Of(<<Var(m), b, Inner(op1, 1, 2), c, Inner(op2, 3, 4)>>, <<5>>, builder, start) :
        b \in {Var(m), Var(n), Var(w), Const(FALSE)}, c \in {Var(n), Var(w)},
        op1 \in {"and", "impl", "eq"}, op2 \in Gates,
        builder \in {"check"}, start \in {Empty}}
    \cup
    {Of(<<Var(m), b, Inner(op1, 1, 2), Var(n), Inner(op2, 3, 4)>>, <<5>>, "base", start) :
        b \in {Var(n), Const(TRUE)}, op1 \in {"or", "any"}, op2 \in Gates, start \in {Empty, Model}}

\* !m op1 n and m op2 (!m op1 n), which share their nodes
Shared2 ==
    {Of(<<Var(m), Inner("not", 0, 1), Var(n), Inner(op1, 2, 3), Inner(op2, 1, 4)>>,
        <<4, 5>>, "model", Empty) : op1 \in Gates, op2 \in Gates}

Single ==
    {Of(<<leaf>>, <<1>>, builder, start) : leaf \in {Var(m), Var(w), Const(FALSE), Const(TRUE)},
        builder \in {"check", "base", "model"}, start \in {Empty, Model}}

AllJobs == Parsed \cup Shared2 \cup Single
=============================================================================
