------------------------------ MODULE CnfBuild ------------------------------
(* CNFBuilder translates the nodes of Boolean expressions to a CNF, one         *)
(* variable per node, and PicosatCNF::incrementWith adds a model's CNF to it.  *)
(* A checker's CNF is empty at first, or is a copy of a model's.               *)
(*                                                                             *)
(* The nodes of an expression are numbered as BoolExp::accept leaves them:     *)
(* operands first.  Nodes may be shared, by several expressions too, as in what *)
(* satyr builds; a parsed expression is a tree.                                *)
EXTENDS CnfMerge, Sequences

CONSTANTS
    Jobs,       \* what is translated: nodes, roots (one clause each), builder,
                \* and the CNF it is added to
    Ignored     \* names on the ignorelist

\* Constants are free variables for operator(), which checks code.
Free(builder) == builder = "check"
\* Only satyr and rsf2cnf take names on the ignorelist for what they are.
Ignoring(builder) == builder # "model"

\* The nodes below x, and x.
Below(nodes, x) ==
    LET B[y \in 0 .. x] == IF y = 0 THEN {} ELSE {y} \cup B[nodes[y].l] \cup B[nodes[y].r]
    IN  B[x]

Ops == {"and", "or", "impl", "eq", "not", "const", "var", "any"}

\* Operands come before their operators, and each translation leaves room for the
\* variables of all nodes. Only the parser makes calls and arithmetic operators, and a
\* parsed expression is a tree that is pushed once.
ASSUME JobsAssumption ==
    \A j \in Jobs :
      /\ j.nodes \in Seq([op : Ops, l : Nat, r : Nat, name : Name, val : BOOLEAN])
      /\ \A x \in DOMAIN j.nodes :
           /\ j.nodes[x].l < x /\ j.nodes[x].r < x
           /\ j.nodes[x].op \in {"and", "or", "impl", "eq"} => j.nodes[x].l # 0
           /\ j.nodes[x].op \in {"and", "or", "impl", "eq", "not"} => j.nodes[x].r # 0
      /\ j.roots \in Seq(DOMAIN j.nodes)
      /\ \A x \in DOMAIN j.nodes : j.nodes[x].op = "any" =>
           \A k1, k2 \in DOMAIN j.roots :
             x \in Below(j.nodes, j.roots[k1]) /\ x \in Below(j.nodes, j.roots[k2]) => k1 = k2
      /\ j.start \in Cnf /\ j.start.varcount + Len(j.nodes) <= MaxVar

VARIABLES
    job,        \* the job
    lit,        \* CNFVar of each node, as a literal
    visited,    \* the nodes visited for the current root
    boolvar,    \* the variable of the constants
    root        \* the number of the current root

buildVars == <<job, lit, visited, boolvar, root>>

None == <<0, TRUE>>
Neg(l) == <<l[1], ~ l[2]>>
Pos(id) == <<id, TRUE>>

Node(x) == job.nodes[x]
Root == job.roots[root]

Operands(x) == {Node(x).l, Node(x).r} \ {0}

BuildInit ==
    /\ job \in Jobs
    /\ this0 = job.start
    /\ other \in Cnf
    /\ cnfvars = this0.cnfvars
    /\ boolvars = Pairs(this0.cnfvars)
    /\ varcount = this0.varcount
    /\ clauses = this0.clauses
    /\ lit = [x \in DOMAIN job.nodes |-> None]
    /\ visited = {}
    /\ boolvar = 0
    /\ root = 1
    /\ inferenced = [k \in Id |-> 0]
    /\ counter = 0
    /\ todo = {}
    /\ i = 1
    /\ pc = "build"

\* Mutation of Gate: an implication is translated in one direction only.
GateOneWay(op, h, a, b) ==
    CASE op = "and" -> {{Neg(h), a}, {Neg(h), b}, {h, Neg(a), Neg(b)}}
      [] op = "or" -> {{h, Neg(a)}, {h, Neg(b)}, {Neg(h), a, b}}
      [] op = "impl" -> {{h, a}, {h, Neg(b)}}
      [] op = "eq" -> {{h, Neg(a), Neg(b)}, {h, a, b}, {Neg(h), a, Neg(b)}, {Neg(h), Neg(a), b}}

\* H <-> (A op B), with the clauses of visit(BoolExpAnd) and its siblings.
Gate(op, h, a, b) ==
    CASE op = "and" -> {{Neg(h), a}, {Neg(h), b}, {h, Neg(a), Neg(b)}}
      [] op = "or" -> {{h, Neg(a)}, {h, Neg(b)}, {Neg(h), a, b}}
      [] op = "impl" -> {{h, a}, {h, Neg(b)}, {Neg(h), Neg(a), b}}
      [] op = "eq" -> {{h, Neg(a), Neg(b)}, {h, a, b}, {Neg(h), a, Neg(b)}, {Neg(h), Neg(a), b}}

IsGate(x) == Node(x).op \in {"and", "or", "impl", "eq"}

\* An arithmetic operator or a call, a constant or a name on the ignorelist.
IsFree(x) ==
    \/ Node(x).op = "any"
    \/ Node(x).op = "const" /\ Free(job.builder)
    \/ Node(x).op = "var" /\ Node(x).name \in Ignored /\ Ignoring(job.builder)

Kept == UNCHANGED <<cnfvars, boolvars, varcount, clauses, boolvar>>

\* Any and Call get a new variable whenever they are visited, the others once.
NewFree(x) ==
    /\ IsFree(x)
    /\ varcount' = varcount + 1
    /\ lit' = [lit EXCEPT ![x] = Pos(varcount')]
    /\ UNCHANGED <<cnfvars, boolvars, clauses, boolvar>>

NewGate(x) ==
    /\ IsGate(x)
    /\ varcount' = varcount + 1
    /\ lit' = [lit EXCEPT ![x] = Pos(varcount')]
    /\ clauses' = clauses \cup Gate(Node(x).op, lit'[x], lit[Node(x).l], lit[Node(x).r])
    /\ UNCHANGED <<cnfvars, boolvars, boolvar>>

NewNot(x) ==
    /\ Node(x).op = "not"
    /\ lit' = [lit EXCEPT ![x] = Neg(lit[Node(x).r])]
    /\ Kept

NewConst(x) ==
    /\ Node(x).op = "const" /\ ~ IsFree(x)
    /\ IF boolvar # 0
         THEN UNCHANGED <<varcount, clauses, boolvar>>
         ELSE /\ varcount' = varcount + 1
              /\ boolvar' = varcount'
              /\ clauses' = clauses \cup {{Pos(boolvar')}}
    /\ lit' = [lit EXCEPT ![x] = <<boolvar', Node(x).val>>]
    /\ UNCHANGED <<cnfvars, boolvars>>

\* addVar: a name has one variable.
NewVar(x) ==
    /\ Node(x).op = "var" /\ ~ IsFree(x)
    /\ IF cnfvars[Node(x).name] # 0
         THEN UNCHANGED <<cnfvars, boolvars, varcount>>
         ELSE varcount' = varcount + 1 /\ SetCNFVar(Node(x).name, varcount')
    /\ lit' = [lit EXCEPT ![x] = Pos(cnfvars'[Node(x).name])]
    /\ UNCHANGED <<clauses, boolvar>>

\* A root that is the constant 1 adds nothing.
Skipped == Node(Root).op = "const" /\ Node(Root).val

\* accept: the operands are visited before the node.
Pending == Below(job.nodes, Root) \ visited

Visit(x) ==
    /\ pc = "build" /\ root <= Len(job.roots) /\ ~ Skipped
    /\ x \in Pending /\ \A y \in Pending : x <= y
    /\ visited' = visited \cup {x}
    /\ IF lit[x] # None /\ Node(x).op # "any" THEN Kept /\ UNCHANGED lit
       ELSE NewFree(x) \/ NewGate(x) \/ NewNot(x) \/ NewConst(x) \/ NewVar(x)
    /\ UNCHANGED <<this0, other, inferenced, counter, todo, i, pc, job, root>>

\* The end of pushClause.
PushClause ==
    /\ pc = "build" /\ root <= Len(job.roots)
    /\ Skipped \/ Pending = {}
    /\ clauses' = IF Skipped THEN clauses ELSE clauses \cup {{lit[Root]}}
    /\ root' = root + 1
    /\ visited' = {}
    /\ UNCHANGED <<this0, other, cnfvars, boolvars, varcount, inferenced, counter, todo, i, pc,
                   job, lit, boolvar>>

\* loadCnfModel, after what was translated.
LoadCnfModel ==
    /\ pc = "build" /\ root > Len(job.roots)
    /\ this0' = [cnfvars |-> cnfvars, varcount |-> varcount, clauses |-> clauses]
    /\ todo' = Named(other.cnfvars)
    /\ pc' = "symbols"
    /\ UNCHANGED <<other, cnfvars, boolvars, varcount, clauses, inferenced, i, buildVars>>
    /\ counter' = FirstCounter'

Merge == Next /\ UNCHANGED buildVars

BuildNext ==
    \/ \E x \in DOMAIN job.nodes : Visit(x)
    \/ PushClause
    \/ LoadCnfModel
    \/ Merge

BuildSpec == BuildInit /\ [][BuildNext]_<<vars, buildVars>>
-----------------------------------------------------------------------------
\* The value of a node, given those of its operands, where names have the values s and
\* free nodes those of f.
Value(s, f, t, x) ==
    CASE IsFree(x) -> f[x]
      [] Node(x).op = "const" /\ ~ IsFree(x) -> Node(x).val
      [] Node(x).op = "var" /\ ~ IsFree(x) -> s[Node(x).name]
      [] Node(x).op = "not" -> ~ t[Node(x).r]
      [] Node(x).op = "and" -> t[Node(x).l] /\ t[Node(x).r]
      [] Node(x).op = "or" -> t[Node(x).l] \/ t[Node(x).r]
      [] Node(x).op = "impl" -> t[Node(x).l] => t[Node(x).r]
      [] Node(x).op = "eq" -> t[Node(x).l] = t[Node(x).r]

\* The value of each node.
Truth(s, f) == LET t[x \in DOMAIN job.nodes] == Value(s, f, t, x) IN t

FreeNodes == {x \in DOMAIN job.nodes : IsFree(x)}

\* Some values of the free nodes make all roots true.
Satisfies(s) ==
    \E f \in [FreeNodes -> BOOLEAN] :
        \A k \in DOMAIN job.roots :
            LET x == job.roots[k]
            IN  \/ Node(x).op = "const" /\ Node(x).val
                \/ Truth(s, f)[x]

\* What a CNF says about the named variables.
Solutions(cs, count) ==
    {m \in [1..count -> BOOLEAN] : \A c \in cs : \E l \in c : m[l[1]] = l[2]}
Meaning(cs, count, f) ==
    {[n \in Named(f) |-> m[f[n]]] : m \in Solutions(cs, count)}

\* The expressions say of the named variables what their CNF says, both where it
\* was built on the CNF of a model and where a model was merged into it.
FormulaCnf ==
    pc = "done" =>
        Meaning(clauses, varcount, cnfvars) =
            {s \in [Named(cnfvars) -> BOOLEAN] :
                /\ Satisfies(s)
                /\ \A cnf \in {job.start, other} :
                    [n \in Named(cnf.cnfvars) |-> s[n]]
                        \in Meaning(cnf.clauses, cnf.varcount, cnf.cnfvars)}
=============================================================================
