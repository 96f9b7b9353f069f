--------------------------- MODULE CodeConstraints ---------------------------
(***************************************************************************)
(* How a C file becomes a propositional formula: the block tree that       *)
(* PumaConditionalBlockBuilder builds while it visits the directives, the  *)
(* rewriting of symbols the file itself defines or undefines (CppDefine),  *)
(* the extra else blocks of decision coverage, and getCodeConstraints,     *)
(* which collects the constraints a block depends on by a mutual recursion *)
(* of blocks and defines and caches what it joins.                         *)
(*                                                                         *)
(* The recursion is a state machine over an explicit call stack, because   *)
(* every nested call also fills the cache of its block.  A formula is the  *)
(* set of its conjuncts.  An #if expression is a conjunction of literals;  *)
(* function-like macros, includes and integer expressions are left out.    *)
(***************************************************************************)
EXTENDS Naturals, Sequences, FiniteSets

CONSTANTS
    SymbolOrder,    \* the symbols, in the order of CppFile's define_map
    Expressions,    \* the conditions #if and #elif may carry: sets of literals
    MaxDirectives   \* bound: directives in a file

ASSUME MaxDirectivesAssumption == MaxDirectives \in Nat

Symbols == {SymbolOrder[i] : i \in DOMAIN SymbolOrder}

ASSUME SymbolOrderAssumption == SymbolOrder \in Seq(Symbols)

\* A literal: the symbol is tested for being defined (TRUE) or not (FALSE).
Literals == [sym : Symbols, pos : BOOLEAN]

ASSUME ExpressionsAssumption == Expressions \subseteq SUBSET Literals

VARIABLES
    file,      \* the directives read so far
    open,      \* _condBlockStack: the blocks entered and not left
    blocks,    \* the blocks in order of creation (_nodeNum is the index - 1)
    defs,      \* defs[s]: the #define and #undef of s in order (CppDefine)
    phase,     \* "read" while the visitor runs, then "ask"
    cache,     \* cached_code_expression of the blocks for which it is not null
    calls,     \* the call stack of getCodeConstraints and getConstraints
    clauses,   \* and_clause of the running top-level call
    visited    \* its set of visited blocks

vars == <<file, open, blocks, defs, phase, cache, calls, clauses, visited>>

-----------------------------------------------------------------------------
(* The block tree. *)

Top == 0            \* the artificial block of the whole file, B00

BlockIds == 0 .. Len(blocks)

Innermost == open[Len(open)]

\* Mutation of Rewritten: the symbol keeps its original name.
RewrittenNot(e) == {[sym |-> l.sym, ver |-> 0, pos |-> l.pos] : l \in e}

\* lateConstructor: a symbol the file has (re)defined so far is replaced by its
\* latest version: X, X., X.. are versions 0, 1, 2 of X.
Rewritten(e) == {[sym |-> l.sym, ver |-> Len(defs[l.sym]), pos |-> l.pos] : l \in e}

\* A block of the tree. raw is ExpressionStr(), exp is the rewritten _exp.
Block(parent, prev, kind, e) ==
    [parent |-> parent, prev |-> prev, kind |-> kind, raw |-> e, exp |-> Rewritten(e)]

IsIf(b) == b = Top \/ blocks[b].kind = "if"

\* The blocks of b's #if group before b: getConstraintsHelper walks getPrev()
\* until an if block.
Predecessors(b) ==
    LET Preds[c \in BlockIds] ==
          IF IsIf(c) THEN {} ELSE {blocks[c].prev} \cup Preds[blocks[c].prev]
    IN  Preds[b]

\* There is room for n more directives and the #endif of every open block.
Room(n) == Len(file) + n + Len(open) - 1 <= MaxDirectives

Read(d) == phase = "read" /\ file' = Append(file, d)

Asked == UNCHANGED <<phase, cache, calls, clauses, visited>>

\* visitPreIfDirective_Pre, and #ifdef and #ifndef, whose condition is one literal.
OpenIf(e) ==
    /\ Room(2)
    /\ Read([kind |-> "if", exp |-> e])
    /\ blocks' = Append(blocks, Block(Innermost, Top, "if", e))
    /\ open' = Append(open, Len(blocks) + 1)
    /\ UNCHANGED defs
    /\ Asked

\* visitPreElifDirective_Pre and visitPreElseDirective_Pre: the block before is left,
\* the new one hangs under the same parent and remembers it.
Alternative(kind, e) ==
    /\ Room(1)
    /\ Len(open) > 1
    /\ blocks[Innermost].kind # "else"
    /\ Read([kind |-> kind, exp |-> e])
    /\ blocks' = Append(blocks, Block(open[Len(open) - 1], Innermost, kind, e))
    /\ open' = [open EXCEPT ![Len(open)] = Len(blocks) + 1]
    /\ UNCHANGED defs
    /\ Asked

Elif(e) == Alternative("elif", e)

Else == Alternative("else", {})

\* visitPreEndifDirective_Pre
Endif ==
    /\ Len(open) > 1
    /\ Read([kind |-> "endif", exp |-> {}])
    /\ open' = SubSeq(open, 1, Len(open) - 1)
    /\ UNCHANGED <<blocks, defs>>
    /\ Asked

\* visitDefineHelper with CppDefine's constructor and newDefine: one more version of s,
\* made by the innermost open block.
Define(s, define) ==
    /\ Room(1)
    /\ Read([kind |-> IF define THEN "define" ELSE "undef", exp |-> {}, sym |-> s])
    /\ defs' = [defs EXCEPT ![s] = Append(@, [in |-> Innermost, define |-> define])]
    /\ UNCHANGED <<open, blocks>>
    /\ Asked

\* visitPreProgram_Post: the whole file was visited.
EndOfFile ==
    /\ phase = "read" /\ Len(open) = 1
    /\ phase' = "ask"
    /\ open' = <<>>
    /\ UNCHANGED <<file, blocks, defs, cache, calls, clauses, visited>>

\* Mutation of LacksElse: a group that ends with #elif is taken to be complete.
LacksElseAfterIf(b) ==
    blocks[b].kind = "if" /\ ~\E c \in DOMAIN blocks : blocks[c].kind # "if" /\ blocks[c].prev = b

\* The last block of an #if group that has no #else.
LacksElse(b) ==
    /\ blocks[b].kind # "else"
    /\ ~\E c \in DOMAIN blocks : blocks[c].kind # "if" /\ blocks[c].prev = b

\* CppFile::decisionCoverage, processForDecisionCoverage and createDummyElseBlock: every
\* group without #else gets one, after its last block and under its parent. The walk
\* numbers the new blocks by level; here their order is left open.
DecisionCoverage ==
    LET Ends == {b \in DOMAIN blocks : LacksElse(b)}
        DummyElse(b) == Block(blocks[b].parent, b, "else", {})
    IN  /\ phase = "ask" /\ calls = <<>> /\ DOMAIN cache = {} /\ Ends # {}
        /\ \E order \in [1 .. Cardinality(Ends) -> Ends] :
             /\ \A b \in Ends : \E i \in DOMAIN order : order[i] = b
             /\ blocks' = blocks \o [i \in 1 .. Cardinality(Ends) |-> DummyElse(order[i])]
        /\ UNCHANGED <<file, open, defs, phase, cache, calls, clauses, visited>>

-----------------------------------------------------------------------------
(* The conjuncts.  Each is named by what it is built from; Holds gives its   *)
(* meaning in an assignment m of the blocks (m.on) and of the versions of    *)
(* the symbols (m.val).                                                      *)

B00 == <<"B00">>
BlockClause(b) == <<"block", b>>
DefineClauses(s) == {<<"define", s, n>> : n \in 1 .. Len(defs[s])}

\* getConstraintsHelper of a block: enabled iff its parent is, its condition holds and
\* no block before it in the group is enabled. A parent that is the file is left out.
BlockHolds(b, m) ==
    m.on[b] <=> /\ blocks[b].parent # Top => m.on[blocks[b].parent]
                /\ \A l \in blocks[b].exp : m.val[<<l.sym, l.ver>>] = l.pos
                /\ \A p \in Predecessors(b) : ~m.on[p]

\* newDefine: the new version has the value the directive gives if its block is
\* enabled, and the value of the old version if not.
DefineHolds(s, n, m) ==
    LET d == defs[s][n] IN
    m.val[<<s, n>>] = IF m.on[d.in] THEN d.define ELSE m.val[<<s, n - 1>>]

Holds(c, m) ==
    CASE c[1] = "B00" -> m.on[Top]
      [] c[1] = "block" -> BlockHolds(c[2], m)
      [] c[1] = "define" -> DefineHolds(c[2], c[3], m)

\* What a top-level call on topBlock() collects: every block, every define, B00.
FileClauses ==
    {B00} \cup {BlockClause(b) : b \in DOMAIN blocks} \cup (UNION {DefineClauses(s) : s \in Symbols})

-----------------------------------------------------------------------------
(* getCodeConstraints and CppDefine::getConstraints.                         *)
(* A frame of a block call goes through enter, marked (after its chain),     *)
(* defines (todo: the symbols of define_map not looked at) and leave; a      *)
(* frame of a define call has the blocks that define the symbol left.        *)

BlockCall(b) == [pc |-> "enter", blk |-> b, todo |-> <<>>]

Caller == calls[Len(calls)]

Goto(pc, todo) == [calls EXCEPT ![Len(calls)] = [@ EXCEPT !.pc = pc, !.todo = todo]]

At(pc) == calls # <<>> /\ Caller.pc = pc

Behind(i) == SubSeq(Caller.todo, i + 1, Len(Caller.todo))

\* containsDefinedSymbol(ExpressionStr()) of the define of s.
UsesDefine(b, s) == defs[s] # <<>> /\ \E l \in blocks[b].raw : l.sym = s

\* Mutation of Link: always the parent.
LinkParent(b) == blocks[b].parent

\* The block the call recurses to: the parent of an #if, else the block before.
Link(b) == IF IsIf(b) THEN blocks[b].parent ELSE blocks[b].prev

Tree == UNCHANGED <<file, open, blocks, defs, phase>>

\* A top-level call starts with an empty and_clause and nothing visited. If there is a
\* cached formula it is returned at once, and nothing changes.
Ask(b) ==
    /\ phase = "ask" /\ calls = <<>>
    /\ b \notin DOMAIN cache
    /\ calls' = <<BlockCall(b)>>
    /\ UNCHANGED <<cache, clauses, visited>>
    /\ Tree

\* A block visited before adds nothing; it still goes on to fill its cache.
EnterVisited ==
    /\ At("enter") /\ Caller.blk \in visited
    /\ calls' = Goto("leave", <<>>)
    /\ UNCHANGED <<cache, clauses, visited>>
    /\ Tree

\* Mutation of Marks: the block is not marked as visited.
MarksNone(b) == {}

Marks(b) == {b}

\* The whole file.
EnterTop ==
    /\ At("enter") /\ Caller.blk \notin visited /\ Caller.blk = Top
    /\ visited' = visited \cup Marks(Top)
    /\ clauses' = clauses \cup FileClauses
    /\ calls' = Goto("leave", <<>>)
    /\ UNCHANGED <<cache>>
    /\ Tree

\* A block: its own conjunct, then the call on the block it hangs from.
EnterBlock ==
    LET b == Caller.blk
        Marked == Goto("marked", <<>>)
    IN  /\ At("enter") /\ b \notin visited /\ b # Top
        /\ visited' = visited \cup Marks(b)
        /\ clauses' = clauses \cup {BlockClause(b)}
        /\ calls' = IF Link(b) = Top THEN Marked ELSE Append(Marked, BlockCall(Link(b)))
        /\ UNCHANGED cache
        /\ Tree

\* Back from the chain: B00, then the defines.
StartDefines ==
    /\ At("marked")
    /\ clauses' = clauses \cup {B00}
    /\ calls' = Goto("defines", SymbolOrder)
    /\ UNCHANGED <<cache, visited>>
    /\ Tree

\* Mutation of DefinedIn: the blocks of the defines are not followed.
DefinedInNone(s) == <<>>

\* defined_in
DefinedIn(s) == [n \in DOMAIN defs[s] |-> defs[s][n].in]

\* CppDefine::getConstraints for the next symbol of the map the condition uses.
CallDefine ==
    \E i \in DOMAIN Caller.todo :
      LET s == Caller.todo[i] IN
      /\ UsesDefine(Caller.blk, s)
      /\ \A j \in 1 .. i - 1 : ~UsesDefine(Caller.blk, Caller.todo[j])
      /\ clauses' = clauses \cup DefineClauses(s)
      /\ calls' = Append(Goto("defines", Behind(i)),
                         [pc |-> "define", blk |-> Top, todo |-> DefinedIn(s)])
      /\ UNCHANGED <<cache, visited>>
      /\ Tree

DefinesDone ==
    /\ \A i \in DOMAIN Caller.todo : ~UsesDefine(Caller.blk, Caller.todo[i])
    /\ calls' = Goto("leave", <<>>)
    /\ UNCHANGED <<cache, clauses, visited>>
    /\ Tree

\* The next block that defines the symbol; the file and visited blocks are passed over.
FollowDefine ==
    LET d == Head(Caller.todo) IN
    /\ At("define") /\ Caller.todo # <<>>
    /\ calls' = IF d = Top \/ d \in visited
                  THEN Goto("define", Behind(1))
                  ELSE Append(Goto("define", Behind(1)), BlockCall(d))
    /\ UNCHANGED <<cache, clauses, visited>>
    /\ Tree

DefineReturns ==
    /\ At("define") /\ Caller.todo = <<>>
    /\ calls' = SubSeq(calls, 1, Len(calls) - 1)
    /\ UNCHANGED <<cache, clauses, visited>>
    /\ Tree

\* The end of a block call: an empty cache takes the conjuncts collected so far, whoever
\* the top-level call is for. The top-level call returns them, and its locals are gone.
Leave ==
    LET b == Caller.blk IN
    /\ At("leave")
    /\ cache' = IF b \in DOMAIN cache
                  THEN cache
                  ELSE [c \in DOMAIN cache \cup {b} |-> IF c = b THEN clauses ELSE cache[c]]
    /\ calls' = SubSeq(calls, 1, Len(calls) - 1)
    /\ IF Len(calls) = 1 THEN clauses' = {} /\ visited' = {} ELSE UNCHANGED <<clauses, visited>>
    /\ Tree

-----------------------------------------------------------------------------
Init ==
    /\ file = <<>> /\ open = <<Top>> /\ blocks = <<>>
    /\ defs = [s \in Symbols |-> <<>>]
    /\ phase = "read"
    /\ cache = [b \in {} |-> {}]
    /\ calls = <<>> /\ clauses = {} /\ visited = {}

Reading ==
    \/ \E e \in Expressions : OpenIf(e) \/ Elif(e)
    \/ Else
    \/ Endif
    \/ \E s \in Symbols, define \in BOOLEAN : Define(s, define)
    \/ EndOfFile
    \/ DecisionCoverage

Collect ==
    \/ EnterVisited \/ EnterTop \/ EnterBlock \/ StartDefines
    \/ At("defines") /\ (CallDefine \/ DefinesDone)
    \/ FollowDefine \/ DefineReturns \/ Leave

Next == Reading \/ (\E b \in BlockIds : Ask(b)) \/ Collect

Spec == Init /\ [][Next]_vars

-----------------------------------------------------------------------------
(* What the C preprocessor does with the file: the reference the formulas    *)
(* are compared with.  A group on the stack knows whether the text around    *)
(* it is compiled, whether one of its blocks was, and whether this one is.   *)

ConditionTrue(e, val) == \A l \in e : val[l.sym] = l.pos

Branch(st, outer, taken, e) ==
    LET hit == outer /\ ~taken /\ ConditionTrue(e, st.val)
    IN  [st EXCEPT !.groups = Append(@, [outer |-> outer, taken |-> taken \/ hit, on |-> hit]),
                   !.last = @ + 1,
                   !.on = IF hit THEN @ \cup {st.last + 1} ELSE @]

Directive(st, d) ==
    LET group == st.groups[Len(st.groups)]
        under == [st EXCEPT !.groups = SubSeq(@, 1, Len(@) - 1)]
    IN  CASE d.kind = "if" -> Branch(st, group.on, FALSE, d.exp)
          [] d.kind \in {"elif", "else"} -> Branch(under, group.outer, group.taken, d.exp)
          [] d.kind = "endif" -> under
          [] OTHER -> IF group.on THEN [st EXCEPT !.val[d.sym] = (d.kind = "define")] ELSE st

\* What the preprocessor knows before the first directive and after the directives fl,
\* when the symbols have the values c on entry.
Start(c) ==
    [val |-> c, groups |-> <<[outer |-> TRUE, taken |-> TRUE, on |-> TRUE]>>,
     last |-> 0, on |-> {}]

Preprocessed(fl, c) ==
    LET Run[i \in 0 .. Len(fl)] == IF i = 0 THEN Start(c) ELSE Directive(Run[i - 1], fl[i])
    IN  Run[Len(fl)]

\* The numbers of the blocks that are compiled.
Compiled(c) == Preprocessed(file, c).on

FileBlocks == Cardinality({i \in DOMAIN file : file[i].kind \in {"if", "elif", "else"}})

Versions == UNION {{s} \X (0 .. Len(defs[s])) : s \in Symbols}

Models(F) ==
    {m \in [on : [BlockIds -> BOOLEAN], val : [Versions -> BOOLEAN]] : \A c \in F : Holds(c, m)}

Selectable(b, F) == \E m \in Models(F) : m.on[b]

Deselectable(b, F) == \E m \in Models(F) : m.on[blocks[b].parent] /\ ~m.on[b]

\* F gives the verdicts on b (dead, and undead under its parent) that the file gives.
DecidesLikeFile(b, F) ==
    /\ Selectable(b, F) <=> Selectable(b, FileClauses)
    /\ Deselectable(b, F) <=> Deselectable(b, FileClauses)

-----------------------------------------------------------------------------
(* Properties. *)

Unasked == phase = "ask" /\ calls = <<>> /\ DOMAIN cache = {}

\* The formula of the whole file is the preprocessor: every configuration extends to
\* exactly one model, and the blocks enabled in it are the ones the preprocessor compiles,
\* through nesting, #elif chains, and #define and #undef in any block.
FormulaIsPreprocessor ==
    Unasked =>
    LET All == Models(FileClauses) IN
    \A c \in [Symbols -> BOOLEAN] :
      LET Of == {m \in All : \A s \in Symbols : m.val[<<s, 0>>] = c[s]}
      IN  /\ Cardinality(Of) = 1
          /\ \A m \in Of : {b \in 1 .. FileBlocks : m.on[b]} = Compiled(c)

\* In every file at most one branch of a group is enabled, and none if the text around it
\* is not compiled; where it is, exactly one if the group has an #else. With decision
\* coverage that is every group of the file.
OneBranchEnabled ==
    Unasked =>
    \A m \in Models(FileClauses) : \A i \in DOMAIN blocks :
      LET Branches == {b \in DOMAIN blocks : b = i \/ i \in Predecessors(b)}
          On == {b \in Branches : m.on[b]}
      IN  IsIf(i) =>
            /\ On # {} => m.on[blocks[i].parent] /\ Cardinality(On) = 1
            /\ /\ m.on[blocks[i].parent]
               /\ Len(blocks) > FileBlocks \/ \E b \in Branches : blocks[b].kind = "else"
               => On # {}

\* The constraints collected for one block decide it as those of the whole file do: the
\* recursion over blocks and defines leaves out nothing the block depends on.
FirstAnswerExact ==
    At("leave") /\ Len(calls) = 1 /\ Caller.blk # Top => DecidesLikeFile(Caller.blk, clauses)

\* A conjunct of a block comes with that of the block it hangs from.
ChainComplete(F) ==
    \A b \in DOMAIN blocks : BlockClause(b) \in F =>
      IF blocks[b].kind = "if"
        THEN blocks[b].parent = Top \/ BlockClause(blocks[b].parent) \in F
        ELSE BlockClause(blocks[b].prev) \in F

\* Whatever call filled it, and however early, a cached formula constrains its own block
\* and every block that one hangs from, up to the file.
CachedChainComplete ==
    \A b \in DOMAIN cache \ {Top} : BlockClause(b) \in cache[b] /\ ChainComplete(cache[b])

\* The recursion through #defines that lead back to a block under way ends: at most a
\* block call and a define call of every block, and one call of a visited block.
StackBounded == Len(calls) <= 2 * Len(blocks) + 1

\* A later query of a block, which the cache answers, decides it as the file does.
CachedAnswerExact ==
    calls = <<>> => \A b \in DOMAIN cache \ {Top} : DecidesLikeFile(b, cache[b])
=============================================================================
