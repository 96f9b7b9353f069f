------------------------------- MODULE Kconfig -------------------------------
(* A session of the configuration tool in scripts/kconfig: a .config is read, *)
(* symbols are set, a .config is written.  What the symbols' values are, given *)
(* what the user asked for, is the reference for the translation in Satyr.    *)
(*                                                                            *)
(* A condition is the set of atoms whose conjunction it is; a set of           *)
(* conditions stands for their disjunction.                                   *)
EXTENDS Integers, Sequences, FiniteSets

Lib == INSTANCE SequencesExt

CONSTANTS
    Inputs,         \* pairs of a Kconfig file and a .config: the former a
                    \* sequence of declared symbols, the first of them MODULES
    MaxSets         \* bound on the values set in a session

no == 0
mod == 1
yes == 2
Tristate == {no, mod, yes}

\* A symbol the .config has no line for.
Absent == -1

MODULES == 1

And(a, b) == IF a < b THEN a ELSE b
Or(a, b) == IF a > b THEN a ELSE b
Not(a) == 2 - a
AllOf(S) == CHOOSE t \in S \cup {yes} : \A u \in S : t <= u
AnyOf(S) == CHOOSE t \in S \cup {no} : \A u \in S : t >= u

Const(t) == [op |-> "const", sym |-> 0, val |-> t]
Is(s) == [op |-> "sym", sym |-> s, val |-> no]
IsNot(s) == [op |-> "not", sym |-> s, val |-> no]
Equal(s, t) == [op |-> "eq", sym |-> s, val |-> t]

Atom == [op : {"const", "sym", "not", "eq"}, sym : Nat, val : Tristate]
Cond == SUBSET Atom

Declared ==
    [type : {"bool", "tristate"}, choice : Nat, members : Seq(Nat),
     pulls : SUBSET ({"select", "imply"} \X Nat),
     defs : Seq([dep : Cond, prompt : SUBSET Cond,
                 defaults : Seq([cond : Cond, val : Atom])])]

ConditionsOf(s) ==
    UNION {{s.defs[n].dep} \cup s.defs[n].prompt
           \cup {s.defs[n].defaults[m].cond : m \in DOMAIN s.defs[n].defaults} :
              n \in DOMAIN s.defs}

ValuesOf(s) ==
    UNION {{s.defs[n].defaults[m].val : m \in DOMAIN s.defs[n].defaults} : n \in DOMAIN s.defs}

IsOptional(s) == s.members = << >>

\* What symbol i may mention: symbols before it, a member those before its choice.
\* A choice has no name by which it could be mentioned.
Earlier(d, i) ==
    {j \in 1..(IF d[i].choice = 0 THEN i ELSE d[i].choice) - 1 : IsOptional(d[j])}

Grounded(a, d, i) == IF a.op = "const" THEN a = Const(a.val) ELSE a.sym \in Earlier(d, i)

\* A choice selects nothing.  menu_finalize warns of defaults of members and of
\* defaults of a choice that are none of its members.
WellFormed(d) ==
    /\ d \in Seq(Declared) /\ d # << >>
    /\ d[MODULES].type = "bool" /\ d[MODULES].choice = 0 /\ IsOptional(d[MODULES])
    /\ \A c \in ConditionsOf(d[MODULES]) : Const(mod) \notin c
    /\ \A i \in DOMAIN d :
          /\ d[i].defs # << >>
          /\ \A c \in ConditionsOf(d[i]) : \A a \in c : Grounded(a, d, i)
          /\ \A a \in ValuesOf(d[i]) :
                IF IsOptional(d[i]) THEN Grounded(a, d, i)
                ELSE \E n \in DOMAIN d[i].members : a = Is(d[i].members[n])
          /\ \A q \in d[i].pulls : q[2] \in DOMAIN d /\ i < q[2] /\ IsOptional(d[q[2]])
          /\ ~IsOptional(d[i]) => d[i].choice = 0 /\ d[i].pulls = {}
          /\ \A n \in DOMAIN d[i].members :
                d[i].members[n] \in DOMAIN d /\ d[d[i].members[n]].choice = i
          /\ d[i].choice # 0 =>
                /\ d[i].choice < i
                /\ \E n \in DOMAIN d[d[i].choice].members : d[d[i].choice].members[n] = i
                /\ \A n \in DOMAIN d[i].defs : d[i].defs[n].defaults = << >>

\* The lines conf_set_sym_val takes: an m for a bool is none, choices have none.
Readable(d, f) ==
    /\ f \in [DOMAIN d -> Tristate \cup {Absent}]
    /\ \A i \in DOMAIN d :
          f[i] # Absent => IsOptional(d[i]) /\ (f[i] = mod => d[i].type = "tristate")

ASSUME InputsAssumption ==
    \A in \in Inputs : WellFormed(in[1]) /\ Readable(in[1], in[2])
-----------------------------------------------------------------------------
(* menu_finalize: what a symbol's properties are once the dependencies of the *)
(* definition, and the choice around it, were added to each of them.          *)

\* Members depend on their choice, members that are no tristates on its being y.
Parent(d, i) ==
    IF d[i].choice = 0 THEN {}
    ELSE {Is(d[i].choice)} \cup
         IF d[d[i].choice].type = "tristate" /\ d[i].type # "tristate"
         THEN {Equal(d[i].choice, yes)} ELSE {}

\* 'm' means 'm' && MODULES in a dependency.
Rewritten(c) == IF Const(mod) \in c THEN c \cup {Is(MODULES)} ELSE c

Base(d, i, n) == Rewritten(d[i].defs[n].dep) \cup Parent(d, i)

Prompts(d, i) ==
    UNION {{Base(d, i, n) \cup Rewritten(c) : c \in d[i].defs[n].prompt} : n \in DOMAIN d[i].defs}

Defaults(d, i) ==
    Lib!FlattenSeq([n \in DOMAIN d[i].defs |->
        [m \in DOMAIN d[i].defs[n].defaults |->
            [cond |-> Base(d, i, n) \cup Rewritten(d[i].defs[n].defaults[m].cond),
             val |-> d[i].defs[n].defaults[m].val]]])

\* A select or an imply of i by the first definition of j.  A choice that is
\* not optional is "selected" by m where its prompt is visible.
Pulls(d, i, kind) ==
    {{Is(j)} \cup Base(d, j, 1) : j \in {k \in DOMAIN d : <<kind, i>> \in d[k].pulls}}
    \cup IF kind = "select" /\ ~IsOptional(d[i])
         THEN {c \cup {Const(mod)} : c \in Prompts(d, i)} ELSE {}

Finalized(d) ==
    [i \in DOMAIN d |->
        [type |-> d[i].type, choice |-> d[i].choice, members |-> d[i].members,
         deps |-> [n \in DOMAIN d[i].defs |-> Base(d, i, n)],
         promptc |-> Cardinality(UNION {{n} \X d[i].defs[n].prompt : n \in DOMAIN d[i].defs}),
         prompts |-> Prompts(d, i),
         defaults |-> Defaults(d, i),
         rev |-> Pulls(d, i, "select"),
         implied |-> Pulls(d, i, "imply")]]
-----------------------------------------------------------------------------
VARIABLES
    tree,       \* the finalized symbols, chosen once
    file,       \* the .config on disk: symbol -> tristate or Absent
    has,        \* the symbols with the flag SYMBOL_DEF_USER
    user,       \* def[S_DEF_USER].tri of each symbol
    pick,       \* def[S_DEF_USER].val of each choice: a member, 0 if null
    curr,       \* curr.tri of each symbol
    changed,    \* conf_get_changed()
    phase,      \* "new", "loaded", and "saved" as long as nothing was set since
    sets        \* the number of values set

toolVars == <<tree, file, has, user, pick, curr, changed, phase, sets>>

Syms == DOMAIN tree
IsChoice(i) == ~IsOptional(tree[i])
IsChoiceValue(i) == tree[i].choice # 0
Members(k) == {tree[k].members[n] : n \in DOMAIN tree[k].members}
Named == {i \in Syms : ~IsChoice(i)}

\* expr_calc_value where the symbols have the values v.
AtomValue(a, v) ==
    CASE a.op = "const" -> a.val
      [] a.op = "sym" -> v[a.sym]
      [] a.op = "not" -> Not(v[a.sym])
      [] a.op = "eq" -> IF v[a.sym] = a.val THEN yes ELSE no

CondValue(c, v) == AllOf({AtomValue(a, v) : a \in c})
AnyValue(S, v) == AnyOf({CondValue(c, v) : c \in S})

\* sym_get_type, where the visibility of i is vis.
IsBool(i, vis, v) ==
    \/ tree[i].type = "bool"
    \/ IsChoiceValue(i) /\ vis = yes
    \/ v[MODULES] = no

\* sym_calc_visibility.
PromptValue(i, c, v) ==
    LET t == CondValue(c, v)
    IN  IF /\ IsChoiceValue(i) /\ tree[i].type = "tristate"
           /\ t = mod /\ v[tree[i].choice] = yes
        THEN no ELSE t

Visible(i, v) ==
    LET t == AnyOf({PromptValue(i, c, v) : c \in tree[i].prompts})
    IN  IF t = mod /\ (tree[i].type = "bool" \/ v[MODULES] = no) THEN yes ELSE t

\* mod counts as yes for what is a bool at the moment.
Promoted(i, t, v) == IF t = mod /\ IsBool(i, Visible(i, v), v) THEN yes ELSE t

DirDep(i, v) ==
    IF \E n \in DOMAIN tree[i].deps : tree[i].deps[n] # {}
    THEN AnyValue({tree[i].deps[n] : n \in DOMAIN tree[i].deps} \ {{}}, v) ELSE yes

RevDep(i, v) ==
    IF IsChoiceValue(i) THEN no ELSE Promoted(i, AnyValue(tree[i].rev, v), v)

Implied(i, v) ==
    IF IsChoiceValue(i) \/ DirDep(i, v) = no THEN no
    ELSE Promoted(i, AnyValue(tree[i].implied, v), v)

VisibleDefaults(i, v) ==
    {n \in DOMAIN tree[i].defaults : CondValue(tree[i].defaults[n].cond, v) # no}

FirstOf(S) == CHOOSE n \in S : \A m \in S : n <= m

\* sym_get_default_prop: only the first visible default counts.
DefaultValue(i, v) ==
    IF VisibleDefaults(i, v) = {} THEN no
    ELSE LET d == tree[i].defaults[FirstOf(VisibleDefaults(i, v))]
         IN  And(AtomValue(d.val, v), CondValue(d.cond, v))

\* sym_calc_choice where the choice k is y; 0 if no member is visible.
Chosen(k, p, v) ==
    LET seen == {m \in Members(k) : Visible(m, v) # no}
        offered == {n \in VisibleDefaults(k, v) : tree[k].defaults[n].val.sym \in seen}
    IN  CASE p[k] \in seen -> p[k]
          [] p[k] \notin seen /\ offered # {} ->
                tree[k].defaults[FirstOf(offered)].val.sym
          [] p[k] \notin seen /\ offered = {} /\ seen # {} -> FirstOf(seen)
          [] seen = {} -> 0

\* What the user asked for, or what the symbol is without being asked.
Asked(i, h, u, v) ==
    IF Visible(i, v) # no /\ i \in h THEN And(u[i], Visible(i, v))
    ELSE IF IsChoice(i) THEN no
    ELSE Or(DefaultValue(i, v), Implied(i, v))

Raised(i, h, u, v) ==
    LET t == Or(Asked(i, h, u, v), RevDep(i, v))
    IN  IF t = mod /\ (IsBool(i, Visible(i, v), v) \/ Implied(i, v) = yes) THEN yes ELSE t

\* sym_calc_value of all symbols, where h are the symbols the user has set, to
\* the values u, and p are the members picked.  A choice that is y but has no
\* visible member becomes n.
Calculated(i, h, u, p, v) ==
    IF IsChoice(i)
    THEN IF Raised(i, h, u, v) = yes /\ Chosen(i, p, Append(v, yes)) = 0 THEN no
         ELSE Raised(i, h, u, v)
    ELSE IF IsChoiceValue(i) /\ Visible(i, v) = yes
    THEN IF Chosen(tree[i].choice, p, v) = i THEN yes ELSE no
    ELSE Raised(i, h, u, v)

Values(h, u, p) ==
    LET V[n \in 0..Len(tree)] ==
            IF n = 0 THEN << >>
            ELSE LET v == V[n - 1] IN Append(v, Calculated(n, h, u, p, v))
    IN  V[Len(tree)]

\* sym_calc_choice takes the flag from a choice as long as a visible member of
\* it was not set.
StillSet(h, v) ==
    h \ {k \in Syms : IsChoice(k) /\ v[k] = yes
                      /\ \E m \in Members(k) : Visible(m, v) # no /\ m \notin h}

\* Mutation of Written: symbols that are n are left out.
WrittenIfOn(i, v) == v[i] # no

\* SYMBOL_WRITE.
Written(i, v) ==
    \/ Visible(i, v) # no
    \/ RevDep(i, v) # no
    \/ DefaultValue(i, v) # no
    \/ Implied(i, v) # no
-----------------------------------------------------------------------------
ToolInit ==
    /\ \E in \in Inputs : tree = Finalized(in[1]) /\ file = in[2]
    /\ has = {}
    /\ user = [i \in Syms |-> no]
    /\ pick = [i \in Syms |-> 0]
    /\ curr = [i \in Syms |-> no]
    /\ changed = FALSE
    /\ phase = "new"
    /\ sets = 0

\* What conf_read_simple takes from the file.  The flag of a choice is lost if
\* an m comes behind a y among its members.
Lines(k, t) == {m \in Members(k) : file[m] = t}

FileUser ==
    [i \in Syms |-> IF IsChoice(i) THEN AnyOf({file[m] : m \in Members(i)} \ {Absent})
                    ELSE IF file[i] = Absent THEN no ELSE file[i]]

FileHas(lost) == {i \in Syms : IsChoice(i) \/ file[i] # Absent} \ lost

Confusing(k) == Lines(k, yes) # {} /\ Lines(k, mod) # {}

Warned == \E k \in Syms : Lines(k, yes) # {} /\ Cardinality(Lines(k, yes) \cup Lines(k, mod)) > 1

\* The values differ from what the file says.
Unsaved(h, u, v) ==
    \E i \in Named : ~ \/ i \in h /\ Written(i, v) /\ u[i] = v[i]
                       \/ i \notin h /\ ~Written(i, v)

\* conf_read: at the end the flags of invisible symbols are dropped if the file
\* and the values agree.
Read ==
    \E lost \in SUBSET {k \in Syms : Confusing(k)} :
    \E last \in [{k \in Syms : Lines(k, yes) # {}} -> Syms] :
    LET h == FileHas(lost)
        p == [i \in Syms |-> IF i \in DOMAIN last THEN last[i] ELSE 0]
        v == Values(h, FileUser, p)
        kept == StillSet(h, v)
    IN  /\ \A k \in DOMAIN last : last[k] \in Lines(k, yes)
        /\ has' = IF Unsaved(h, FileUser, v) THEN kept
                  ELSE kept \ {i \in Syms : ~IsChoiceValue(i) /\ Visible(i, v) = no}
        /\ user' = FileUser
        /\ pick' = p
        /\ curr' = v
        /\ changed' = (Warned \/ Unsaved(h, FileUser, v))
        /\ phase' = "loaded"
        /\ UNCHANGED <<tree, file, sets>>

\* sym_tristate_within_range.
WithinRange(i, t) ==
    LET vis == Visible(i, curr)
    IN  /\ vis # no
        /\ ~(IsBool(i, vis, curr) /\ t = mod)
        /\ vis > RevDep(i, curr)
        /\ ~(Implied(i, curr) = yes /\ t = mod)
        /\ IF IsChoiceValue(i) /\ vis = yes THEN t = yes
           ELSE t >= RevDep(i, curr) /\ t <= vis

\* sym_set_tristate_value where it returns true.  Picking a member counts as an
\* answer for the choice and for all its visible members.
Set(i, t) ==
    LET picked == IsChoiceValue(i) /\ t = yes
        k == tree[i].choice
        h == has \cup {i} \cup
             IF picked THEN {k} \cup {m \in Members(k) : Visible(m, curr) # no} ELSE {}
        v == Values(h, user', pick')
    IN  /\ phase # "new" /\ sets < MaxSets
        /\ sets' = sets + 1
        /\ curr[i] = t \/ WithinRange(i, t)
        /\ user' = [user EXCEPT ![i] = t]
        /\ pick' = IF picked THEN [pick EXCEPT ![k] = i] ELSE pick
        /\ IF curr[i] = t THEN has' = h /\ UNCHANGED <<curr, changed>>
           ELSE has' = StillSet(h, v) /\ curr' = v /\ changed' = TRUE
        /\ phase' = "loaded"
        /\ UNCHANGED <<tree, file>>

\* conf_write: calculates everything again unless something changed, and writes
\* the symbols that have the flag.
Write ==
    LET v == IF changed THEN curr ELSE Values(has, user, pick)
    IN  /\ phase # "new"
        /\ curr' = v
        /\ has' = IF changed THEN has ELSE StillSet(has, v)
        /\ file' = [i \in Syms |-> IF ~IsChoice(i) /\ Written(i, v) THEN v[i] ELSE Absent]
        /\ changed' = FALSE
        /\ phase' = "saved"
        /\ UNCHANGED <<tree, user, pick, sets>>

ToolNext ==
    \/ Read
    \/ \E i \in Syms, t \in Tristate : Set(i, t)
    \/ Write

ToolSpec == ToolInit /\ [][ToolNext]_toolVars
-----------------------------------------------------------------------------
\* A value the user could not have given: a default may exceed the visibility.
Exceeding == \E i \in Named : Visible(i, curr) # no /\ curr[i] > Or(Visible(i, curr), RevDep(i, curr))

\* Reading back what was just written gives the configuration that was written,
\* unless a default had given a symbol more than its prompt would have allowed.
ReadsBack ==
    [][phase = "saved" /\ Read /\ ~Exceeding => \A i \in Named : curr'[i] = curr[i]]_toolVars
=============================================================================
