------------------------------ MODULE MCKconfig ------------------------------
(* TLC's view of Kconfig: MODULES, a tristate A, and a symbol B or a choice.  *)
EXTENDS Satyr

Entry(type, dep, prompt, defaults) ==
    [type |-> type, choice |-> 0, members |-> << >>, pulls |-> {},
     defs |-> <<[dep |-> dep, prompt |-> prompt, defaults |-> defaults]>>]

Default(val, cond) == [val |-> val, cond |-> cond]

Modules == Entry("bool", {}, {{}}, << >>)

A == 2
OnA == {{}, {Is(A)}}

Plain(pulls) == [Entry("tristate", {}, {{}}, << >>) EXCEPT !.pulls = pulls]

DefaultLists ==
    {<< >>, <<Default(Const(yes), {})>>, <<Default(Const(mod), {})>>,
     <<Default(Const(yes), {Is(A)})>>,
     <<Default(Const(no), {Is(A)}), Default(Const(yes), {})>>,
     <<Default(Is(A), {}), Default(Const(yes), {})>>}

Singles ==
    {<<Modules, Plain(p), Entry(t, d, q, l)>> :
        p \in {{}, {<<"select", 3>>}, {<<"imply", 3>>}},
        t \in {"bool", "tristate"}, d \in {{}, {Is(A)}, {IsNot(A)}},
        q \in {{}} \cup {{c} : c \in OnA}, l \in DefaultLists}

\* A second definition of B, without a prompt or with one.
Doubles ==
    {<<Modules, Plain({}), [Entry(t, {Is(A)}, {{}}, << >>) EXCEPT
        !.defs = @ \o <<[dep |-> d, prompt |-> q, defaults |-> l]>>]>> :
        t \in {"bool", "tristate"}, d \in {{}, {Is(A)}, {IsNot(A)}}, q \in {{}, {{}}}, l \in DefaultLists}

Member(t, d) == [Entry(t, d, {{}}, << >>) EXCEPT !.choice = 3]

Choice(t, d, l) == [Entry(t, d, {{}}, l) EXCEPT !.members = <<4, 5>>]

ChoiceTrees ==
    {<<Modules, Plain({}), Choice(t[1], d, l), Member(t[2], e), Member(t[3], f)>> :
        t \in {<<"bool", "bool", "bool">>, <<"tristate", "tristate", "tristate">>,
               <<"tristate", "tristate", "bool">>},
        d \in OnA, e \in OnA, f \in OnA, l \in {<< >>, <<Default(Is(5), {})>>}}

Files(d) ==
    {[i \in DOMAIN d |-> IF d[i].members # << >> THEN Absent
                         ELSE IF t = mod /\ d[i].type = "bool" THEN yes ELSE t] :
        t \in Tristate \cup {Absent}}
    \cup {[i \in DOMAIN d |-> IF d[i].members # << >> THEN Absent
                         ELSE IF i = Len(d) /\ d[i].type = "tristate" THEN mod ELSE yes]}

All == UNION {{<<d, f>> : f \in Files(d)} : d \in Singles \cup Doubles \cup ChoiceTrees}
=============================================================================
