-------------------------------- MODULE Satyr --------------------------------
(* satyr: the propositional formula of a Kconfig tree, and the check of a      *)
(* .config against it.  An expression is translated to what it means to be y   *)
(* and to be m.  An assignment gives a symbol's variables CONFIG_X and         *)
(* CONFIG_X_MODULE together: yes and mod are their being true, they never are  *)
(* both (the guard clause), and a bool has no CONFIG_X_MODULE.                 *)
EXTENDS Kconfig

Repr(y, m) == [yes |-> y, mod |-> m]
On(r) == r.yes \/ r.mod

SymbolRepr(s, f) == Repr(f[s] = yes, s # MODULES /\ f[s] = mod)

ConstRepr(t) == Repr(t = yes, t = mod)

\* visit_and and visit_or, of any number of operands.
AndRepr(R) ==
    Repr(\A r \in R : r.yes, (\E r \in R : r.mod) /\ \A r \in R : On(r))

OrRepr(R) ==
    Repr(\E r \in R : r.yes, (\E r \in R : r.mod) /\ ~\E r \in R : r.yes)

\* Mutation of NotRepr: the negation of m is n.
NotReprPlain(r) == Repr(~r.yes /\ ~r.mod, FALSE)

NotRepr(r) == Repr(~r.yes /\ ~r.mod, r.mod)

EqualRepr(r, q) ==
    Repr((r.yes /\ q.yes) \/ (r.mod /\ q.mod) \/ (~On(r) /\ ~On(q)), FALSE)

AtomRepr(a, f) ==
    CASE a.op = "const" -> ConstRepr(a.val)
      [] a.op = "sym" -> SymbolRepr(a.sym, f)
      [] a.op = "not" -> NotRepr(SymbolRepr(a.sym, f))
      [] a.op = "eq" -> EqualRepr(SymbolRepr(a.sym, f), ConstRepr(a.val))

CondRepr(c, f) == AndRepr({AtomRepr(a, f) : a \in c})
AnyRepr(S, f) == OrRepr({CondRepr(c, f) : c \in S})

\* visit_list: exactly one member is y; some member is m.
ListRepr(k, f) ==
    Repr(Cardinality({m \in Members(k) : f[m] = yes}) = 1,
         \E m \in Members(k) : f[m] = mod)
-----------------------------------------------------------------------------
\* visibilityExpression: a symbol with exactly one prompt, which reads like its
\* first definition, counts as always visible.
VisRepr(i, f) ==
    IF tree[i].promptc = 1 /\ tree[i].prompts = {tree[i].deps[1]} THEN ConstRepr(yes)
    ELSE AnyRepr(tree[i].prompts, f)

\* dependsExpression.
DepRepr(i, f) == AnyRepr({tree[i].deps[n] : n \in DOMAIN tree[i].deps}, f)

\* defaultExpression_bool_tristate: (visible && value) || (!visible && the rest).
DefRepr(i, f) ==
    LET rest[n \in 1..Len(tree[i].defaults) + 1] ==
            IF n > Len(tree[i].defaults) THEN ConstRepr(no)
            ELSE LET vis == CondRepr(tree[i].defaults[n].cond, f)
                     val == AtomRepr(tree[i].defaults[n].val, f)
                 IN  OrRepr({AndRepr({vis, val}), AndRepr({NotRepr(vis), rest[n + 1]})})
    IN  rest[1]

\* reverseDepExpression.  What imply adds is not translated.
RevRepr(i, f) == IF IsChoiceValue(i) THEN ConstRepr(no) ELSE AnyRepr(tree[i].rev, f)

\* visit_bool_symbol.
BoolClauses(i, f) ==
    LET y == f[i] = yes
        vis == VisRepr(i, f)
        dep == DepRepr(i, f)
        def == DefRepr(i, f)
        rev == RevRepr(i, f)
    IN  /\ y => On(dep) \/ On(rev)
        /\ On(rev) => y
        /\ ~On(vis) => (y => On(def) \/ On(rev)) /\ (On(def) /\ On(dep) => y)

\* Mutation of TristateClauses: the defaults of an invisible tristate are lost.
TristateClausesNoDefault(i, f) ==
    LET dep == DepRepr(i, f)
        rev == RevRepr(i, f)
    IN  /\ f[i] = yes => dep.yes \/ rev.yes
        /\ f[i] = mod => rev.mod \/ On(dep)
        /\ rev.yes => f[i] = yes
        /\ rev.mod => f[i] # no

\* visit_tristate_symbol.
TristateClauses(i, f) ==
    LET y == f[i] = yes
        m == f[i] = mod
        vis == VisRepr(i, f)
        dep == DepRepr(i, f)
        def == DefRepr(i, f)
        rev == RevRepr(i, f)
    IN  /\ y => dep.yes \/ rev.yes
        /\ m => rev.mod \/ On(dep)
        /\ rev.yes => y
        /\ rev.mod => y \/ m
        /\ ~On(vis) =>
              /\ y => def.yes \/ rev.yes
              /\ m => On(def) \/ rev.mod
              /\ On(def) /\ On(dep) => y \/ m
              /\ def.yes /\ dep.yes => y

\* visit_choice_symbol.
ChoiceClauses(k, f) ==
    LET list == ListRepr(k, f)
    IN  f[k] = yes => IF tree[k].type = "bool" THEN On(list) ELSE list.yes /\ ~list.mod

Assignments == {f \in [Syms -> Tristate] : \A i \in Syms : tree[i].type = "bool" => f[i] # mod}

Formula(f) ==
    \A i \in Syms :
        /\ IF tree[i].type = "bool" THEN BoolClauses(i, f) ELSE TristateClauses(i, f)
        /\ IsChoice(i) => ChoiceClauses(i, f)

\* KconfigAssumptionMap and process_assumptions: a .config is accepted if some
\* assignment has the values it gives.
Accepted ==
    \E f \in Assignments :
        /\ \A i \in Syms : file[i] # Absent => f[i] = file[i]
        /\ Formula(f)
-----------------------------------------------------------------------------
\* What the configuration tool makes of a .config that gives every symbol the
\* value it has in f.
Settled(f) ==
    LET chosen(k) == {m \in Members(k) : f[m] = yes}
    IN  Values(Syms,
               [i \in Syms |-> IF IsChoice(i) THEN AnyOf({f[m] : m \in Members(i)}) ELSE f[i]],
               [i \in Syms |-> IF chosen(i) = {} THEN 0 ELSE FirstOf(chosen(i))])

Legal(f) == Settled(f) = f

\* Where the formula is known to be something else than the configurations:
\* a symbol that is there because of an imply,
ByImply(f) == \E i \in Syms : Implied(i, f) # no

\* a choice that is visible but has nothing to choose from,
NothingToChoose(f) ==
    \E k \in Syms : IsChoice(k) /\ Visible(k, f) # no /\ \A m \in Members(k) : Visible(m, f) = no

\* an invisible symbol with a default that is visible with m, so that the
\* defaults behind it shine through,
HalfHidden(f) ==
    \E i \in Syms : Visible(i, f) = no /\ \E n \in VisibleDefaults(i, f) :
        n # Len(tree[i].defaults) /\ CondValue(tree[i].defaults[n].cond, f) = mod

\* a tristate that is m though there are no modules, or y by an m that became y,
WithoutModules(f) ==
    /\ f[MODULES] = no
    /\ \E i \in Syms :
        \/ f[i] = mod
        \/ f[i] = yes /\ tree[i].type = "tristate" /\ Visible(i, f) = no

\* a value above the visibility of the prompt, or a choice that is on without one,
AboveVisibility(f) ==
    \/ \E i \in Named : Visible(i, f) # no /\ f[i] > Or(Visible(i, f), RevDep(i, f))
    \/ \E k \in Syms : IsChoice(k) /\ f[k] > Visible(k, f)

\* a choice of a bool among whose members one is m,
MemberLeft(f) ==
    \E k \in Syms : IsChoice(k) /\ tree[k].type = "bool" /\ \E m \in Members(k) : f[m] = mod

\* a prompt that reads like the first of several definitions, or of a hidden member.
FirstDefinitionHidden(f) ==
    \E i \in Syms : Visible(i, f) = no /\ On(VisRepr(i, f)) /\ On(DepRepr(i, f))

Excepted(f) ==
    \/ ByImply(f)
    \/ NothingToChoose(f)
    \/ HalfHidden(f)
    \/ WithoutModules(f)
    \/ AboveVisibility(f)
    \/ MemberLeft(f)
    \/ FirstDefinitionHidden(f)

\* Away from these the solutions of the formula are exactly the configurations
\* the tool can arrive at: none is lost, so nothing it allows is called dead, and
\* none is added, so what is called selectable can be had.
FormulaExact ==
    phase = "new" /\ (\A i \in Syms : file[i] = Absent) =>
        \A f \in Assignments : (Formula(f) <=> Legal(f)) \/ Excepted(f)

\* A .config the configuration tool has written is satisfiable, as the tests in
\* validation-satyr expect of their *_sat.config files, but for an imply, an empty
\* choice, defaults that shine through and tristates without modules.
SavedAccepted ==
    phase = "saved" =>
        \/ Accepted
        \/ ByImply(curr) \/ NothingToChoose(curr) \/ HalfHidden(curr) \/ WithoutModules(curr)
=============================================================================
