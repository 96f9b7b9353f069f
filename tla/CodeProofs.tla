----------------------------- MODULE CodeProofs -----------------------------
(***************************************************************************)
(* Proofs about CodeConstraints, for every file.                           *)
(*                                                                         *)
(* The collection: a cached formula constrains its block and everything    *)
(* the block hangs from (CachedChain). A nested call caches what has been  *)
(* collected when it leaves, so the invariant follows the collection:      *)
(* every visited block has its conjunct, and a conjunct lacks that of its  *)
(* link only while the call on the link is the next to be entered. Each    *)
(* block has one call under way, which bounds the stack (RecursionBounded).*)
(*                                                                         *)
(* The formula: what the directives build is a tree whose links point      *)
(* backwards, and for each configuration the run of the preprocessor over  *)
(* the directives read so far is a model of the conjuncts of that tree     *)
(* (FileInvariance). A configuration has no other model (Determined), so   *)
(* the models are the runs (FormulaIsCpp, OneBranch). The conjuncts of a   *)
(* block's collection are closed under what they depend on, and so decide  *)
(* the block as the file does (FirstAnswer).                               *)
(***************************************************************************)
EXTENDS CodeConstraints, FiniteSetTheorems, SequenceTheorems, WellFoundedInduction, TLAPS

BlockRecord ==
    [parent : Nat, prev : Nat, kind : {"if", "elif", "else"}, raw : SUBSET Literals,
     exp : SUBSET [sym : Symbols, ver : Nat, pos : BOOLEAN]]

Frame ==
    [pc : {"enter", "marked", "defines", "define", "leave"},
     blk : Nat, todo : Seq(Symbols) \cup Seq(Nat)]

\* A block of a tree of n blocks: it refers to blocks there are and to versions there
\* are, and behind an #if comes a real block.
BlockOK(r, n) ==
    /\ r \in BlockRecord
    /\ r.parent <= n /\ r.prev <= n
    /\ r.kind # "if" => r.prev # Top
    /\ \A l \in r.exp : l.ver <= Len(defs[l.sym])

TreeInv ==
    /\ open \in Seq(Nat)
    /\ phase = "read" => open # <<>>
    /\ \A i \in DOMAIN open : open[i] <= Len(blocks) /\ (i > 1 => open[i] # Top)
    /\ blocks \in Seq(BlockRecord)
    /\ \A b \in DOMAIN blocks : BlockOK(blocks[b], Len(blocks))
    /\ defs \in [Symbols -> Seq([in : Nat, define : BOOLEAN])]
    /\ \A s \in Symbols : \A n \in DOMAIN defs[s] : defs[s][n].in <= Len(blocks)

\* Nothing is collected or cached before the file was read; between two top-level
\* calls nothing is being collected.
PhaseInv ==
    /\ phase \in {"read", "ask"}
    /\ phase = "read" => calls = <<>> /\ DOMAIN cache = {}
    /\ calls = <<>> => clauses = {} /\ visited = {}

\* The outermost call is a block's, only the innermost can be about to enter, and a
\* block call past that point has marked its block.
CallsInv ==
    /\ calls \in Seq(Frame)
    /\ \A i \in DOMAIN calls :
         /\ calls[i].blk <= Len(blocks)
         /\ i < Len(calls) => calls[i].pc # "enter"
         /\ calls[i].pc = "define" => i > 1 /\ calls[i].todo \in Seq(BlockIds)
         /\ calls[i].pc = "defines" => calls[i].todo \in Seq(Symbols)
         /\ calls[i].pc \in {"marked", "defines", "leave"} => calls[i].blk \in visited

\* Every marked block has its conjunct, and every conjunct that of its link, unless
\* the call on the link is the next to be entered.
CollectedInv ==
    /\ \A b \in visited \ {Top} : BlockClause(b) \in clauses
    /\ \A b \in DOMAIN blocks :
         BlockClause(b) \in clauses =>
           \/ Link(b) = Top
           \/ BlockClause(Link(b)) \in clauses
           \/ At("enter") /\ Caller.blk = Link(b)

IInv == TreeInv /\ PhaseInv /\ CallsInv /\ CollectedInv /\ CachedChainComplete

-----------------------------------------------------------------------------
\* The conjunct of a block is no other conjunct's.
LEMMA ClauseNames ==
    ASSUME NEW b, NEW c, NEW s
    PROVE  /\ BlockClause(b) = BlockClause(c) => b = c
           /\ BlockClause(b) # B00
           /\ BlockClause(b) \notin DefineClauses(s)
<1>1. BlockClause(b)[1] = "block" /\ B00[1] = "B00"
  BY DEF BlockClause, B00
<1>2. \A k \in DefineClauses(s) : k[1] = "define"
  BY DEF DefineClauses
<1>3. BlockClause(b)[2] = b /\ BlockClause(c)[2] = c
  BY DEF BlockClause
<1> QED  BY <1>1, <1>2, <1>3

\* Once nothing is about to be entered, what is collected is complete.
LEMMA CompleteWhenEntered ==
    ASSUME IInv, ~At("enter")
    PROVE  ChainComplete(clauses)
<1> SUFFICES ASSUME NEW b \in DOMAIN blocks, BlockClause(b) \in clauses
             PROVE  IF blocks[b].kind = "if"
                      THEN blocks[b].parent = Top \/ BlockClause(blocks[b].parent) \in clauses
                      ELSE BlockClause(blocks[b].prev) \in clauses
  BY DEF ChainComplete
<1>1. b # Top
  BY DEF IInv, TreeInv, Top
<1>2. Link(b) = Top \/ BlockClause(Link(b)) \in clauses
  BY DEF IInv, CollectedInv
<1>3. CASE blocks[b].kind = "if"
  BY <1>2, <1>3 DEF Link, IsIf
<1>4. CASE blocks[b].kind # "if"
  BY <1>1, <1>2, <1>4 DEF Link, IsIf, IInv, TreeInv, BlockOK
<1> QED  BY <1>3, <1>4

\* A block made from a condition over the symbols fits the tree.
LEMMA BlockFits ==
    ASSUME TreeInv, NEW n \in Nat, NEW p \in 0 .. n, NEW q \in 0 .. n,
           NEW kind \in {"if", "elif", "else"}, NEW e \in SUBSET Literals, kind # "if" => q # Top
    PROVE  BlockOK(Block(p, q, kind, e), n)
<1>1. \A l \in e : l.sym \in Symbols /\ Len(defs[l.sym]) \in Nat
  BY DEF TreeInv, Literals
<1>2. \A l \in e : [sym |-> l.sym, ver |-> Len(defs[l.sym]), pos |-> l.pos]
                     \in [sym : Symbols, ver : Nat, pos : BOOLEAN]
  BY <1>1 DEF Literals
<1>3. Rewritten(e) \in SUBSET [sym : Symbols, ver : Nat, pos : BOOLEAN]
  BY <1>2 DEF Rewritten
<1>4. \A l \in Rewritten(e) : l.ver <= Len(defs[l.sym])
  BY <1>1 DEF Rewritten
<1>5. Block(p, q, kind, e) \in BlockRecord
  BY <1>3 DEF Block, BlockRecord
<1> QED  BY <1>4, <1>5 DEF Block, BlockOK

\* A tree may grow by blocks that fit it.
LEMMA TreeGrows ==
    ASSUME TreeInv, NEW new \in Seq(BlockRecord),
           \A i \in DOMAIN new : BlockOK(new[i], Len(blocks))
    PROVE  LET bs == blocks \o new IN
           /\ bs \in Seq(BlockRecord)
           /\ Len(bs) = Len(blocks) + Len(new)
           /\ \A b \in DOMAIN bs : BlockOK(bs[b], Len(bs))
<1> DEFINE bs == blocks \o new
<1>1. Len(blocks) \in Nat /\ Len(new) \in Nat /\ DOMAIN blocks = 1 .. Len(blocks)
      /\ DOMAIN new = 1 .. Len(new)
  BY DEF TreeInv
<1>2. /\ bs \in Seq(BlockRecord)
      /\ Len(bs) = Len(blocks) + Len(new)
      /\ \A b \in 1 .. Len(blocks) + Len(new) :
           bs[b] = IF b <= Len(blocks) THEN blocks[b] ELSE new[b - Len(blocks)]
  BY ConcatProperties DEF TreeInv
<1> HIDE DEF bs
<1>3. ASSUME NEW b \in DOMAIN bs PROVE BlockOK(bs[b], Len(blocks))
  <2>1. b \in 1 .. Len(blocks) + Len(new)
    BY <1>2, <1>3
  <2>2. CASE b <= Len(blocks)
    BY <1>1, <1>2, <2>1, <2>2 DEF TreeInv
  <2>3. CASE b > Len(blocks)
    <3>1. b - Len(blocks) \in DOMAIN new
      BY <1>1, <2>1, <2>3
    <3> QED  BY <1>1, <1>2, <2>1, <2>3, <3>1
  <2> QED  BY <1>1, <2>1, <2>2, <2>3
<1>4. ASSUME NEW b \in DOMAIN bs PROVE BlockOK(bs[b], Len(bs))
  <2>1. bs[b].parent \in Nat /\ bs[b].prev \in Nat
    BY <1>3 DEF BlockOK, BlockRecord
  <2> QED  BY <1>1, <1>2, <1>3, <2>1 DEF BlockOK
<1> QED  BY <1>2, <1>4 DEF bs

\* Reading leaves nothing collected, so only the tree matters.
LEMMA NothingCollected ==
    ASSUME IInv, calls = <<>>, DOMAIN cache = {}, TreeInv',
           phase' \in {"read", "ask"}, UNCHANGED <<cache, calls, clauses, visited>>
    PROVE  IInv'
<1>1. clauses = {} /\ visited = {} /\ clauses' = {} /\ visited' = {}
      /\ calls' = <<>> /\ DOMAIN cache' = {}
  BY DEF IInv, PhaseInv
<1>2. PhaseInv'
  BY <1>1 DEF PhaseInv
<1>3. CallsInv'
  BY <1>1 DEF CallsInv
<1>4. CollectedInv'
  BY <1>1 DEF CollectedInv
<1>5. CachedChainComplete'
  BY <1>1 DEF CachedChainComplete
<1> QED  BY <1>2, <1>3, <1>4, <1>5 DEF IInv

-----------------------------------------------------------------------------
\* Every step of the visitor, and the else blocks of decision coverage, keep the tree.
LEMMA ReadingKeepsTree ==
    ASSUME TreeInv, Reading
    PROVE  TreeInv'
<1>0. Len(blocks) \in Nat /\ Top \in 0 .. Len(blocks)
  BY DEF TreeInv, Top
<1>1. ASSUME NEW p \in 0 .. Len(blocks), NEW q \in 0 .. Len(blocks),
             NEW kind \in {"if", "elif", "else"}, NEW e \in SUBSET Literals, kind # "if" => q # Top
      PROVE  LET bs == Append(blocks, Block(p, q, kind, e)) IN
             /\ bs \in Seq(BlockRecord)
             /\ Len(bs) = Len(blocks) + 1
             /\ \A b \in DOMAIN bs : BlockOK(bs[b], Len(bs))
  <2> DEFINE r == Block(p, q, kind, e)
  <2>1. BlockOK(r, Len(blocks))
    BY <1>0, <1>1, BlockFits
  <2> HIDE DEF r
  <2>2. <<r>> \in Seq(BlockRecord) /\ Len(<<r>>) = 1 /\ \A i \in DOMAIN <<r>> : <<r>>[i] = r
    BY <2>1 DEF BlockOK
  <2>3. Append(blocks, r) = blocks \o <<r>>
    BY <2>1, AppendIsConcat DEF BlockOK, TreeInv
  <2> QED  BY <2>1, <2>2, <2>3, TreeGrows DEF r
<1>2. ASSUME open # <<>>
      PROVE  /\ Len(open) \in Nat \ {0} /\ DOMAIN open = 1 .. Len(open)
             /\ \A i \in 1 .. Len(open) : open[i] \in 0 .. Len(blocks) /\ (i > 1 => open[i] # Top)
             /\ Innermost \in 0 .. Len(blocks)
  BY <1>0, <1>2 DEF TreeInv, Innermost
<1>9. ASSUME Len(blocks) <= Len(blocks'), Len(blocks') \in Nat, UNCHANGED defs,
             \A b \in DOMAIN blocks' : BlockOK(blocks'[b], Len(blocks'))
      PROVE  /\ \A b \in DOMAIN blocks' : BlockOK(blocks[b], Len(blocks))'
             /\ defs' \in [Symbols -> Seq([in : Nat, define : BOOLEAN])]
             /\ \A s \in Symbols : \A n \in DOMAIN defs'[s] : defs'[s][n].in <= Len(blocks')
  <2>2. ASSUME NEW s \in Symbols, NEW n \in DOMAIN defs[s]
        PROVE  defs[s][n].in <= Len(blocks')
    <3>1. defs[s] \in Seq([in : Nat, define : BOOLEAN])
      BY DEF TreeInv
    <3> HIDE <1>9
    <3>0. n \in 1 .. Len(defs[s])
      BY <3>1
    <3>2. defs[s][n] \in [in : Nat, define : BOOLEAN]
      BY <3>0, <3>1, ElementOfSeq
    <3>3. defs[s][n].in <= Len(blocks)
      BY DEF TreeInv
    <3> QED  BY <1>0, <1>9, <3>2, <3>3
  <2> QED  BY <1>9, <2>2 DEF TreeInv, BlockOK
<1>3. ASSUME NEW e \in Expressions, OpenIf(e) PROVE TreeInv'
  <2>1. open # <<>> /\ e \in SUBSET Literals
    BY <1>3, ExpressionsAssumption DEF OpenIf, Read, TreeInv
  <2>2. /\ blocks' \in Seq(BlockRecord) /\ Len(blocks') = Len(blocks) + 1
        /\ \A b \in DOMAIN blocks' : BlockOK(blocks'[b], Len(blocks'))
    BY <1>0, <1>1, <1>2, <1>3, <2>1 DEF OpenIf
  <2>3. open' \in Seq(Nat) /\ open' # <<>>
        /\ \A i \in DOMAIN open' : open'[i] <= Len(blocks) + 1 /\ (i > 1 => open'[i] # Top)
    BY <1>0, <1>2, <1>3, <2>1 DEF OpenIf, TreeInv, Top
  <2>4. Len(blocks) <= Len(blocks') /\ Len(blocks') \in Nat /\ UNCHANGED defs
    BY <1>0, <1>3, <2>2 DEF OpenIf
  <2> QED  BY <1>0, <1>9, <2>2, <2>3, <2>4 DEF TreeInv
<1>4. ASSUME NEW kind \in {"elif", "else"}, NEW e \in SUBSET Literals, Alternative(kind, e)
      PROVE  TreeInv'
  <2>1. open # <<>> /\ Len(open) > 1
    BY <1>4 DEF Alternative, Read, TreeInv
  <2>2. Innermost # Top /\ open[Len(open) - 1] \in 0 .. Len(blocks)
    BY <1>2, <2>1 DEF Innermost
  <2>3. /\ blocks' \in Seq(BlockRecord) /\ Len(blocks') = Len(blocks) + 1
        /\ \A b \in DOMAIN blocks' : BlockOK(blocks'[b], Len(blocks'))
    <3>1. PICK a, b : a = open[Len(open) - 1] /\ b = Innermost
      OBVIOUS
    <3>2. a \in 0 .. Len(blocks) /\ b \in 0 .. Len(blocks) /\ b # Top
      BY <1>2, <2>1, <2>2, <3>1
    <3>3. blocks' = Append(blocks, Block(a, b, kind, e)) /\ UNCHANGED defs
      BY <1>4, <3>1 DEF Alternative
    <3> QED  BY <1>1, <3>2, <3>3
  <2>4. open' \in Seq(Nat) /\ DOMAIN open' = DOMAIN open
        /\ \A i \in DOMAIN open : open'[i] = open[i] \/ open'[i] = Len(blocks) + 1
    BY <1>4 DEF Alternative, TreeInv
  <2>5. open' # <<>>
        /\ \A i \in DOMAIN open' : open'[i] <= Len(blocks) + 1 /\ (i > 1 => open'[i] # Top)
    BY <1>0, <1>2, <2>1, <2>4 DEF Top, TreeInv
  <2>6. Len(blocks) <= Len(blocks') /\ Len(blocks') \in Nat /\ UNCHANGED defs
    BY <1>0, <1>4, <2>3 DEF Alternative
  <2> QED  BY <1>0, <1>9, <2>3, <2>4, <2>5, <2>6 DEF TreeInv
<1>5. ASSUME Endif PROVE TreeInv'
  <2>1. /\ open' \in Seq(Nat) /\ Len(open') = Len(open) - 1 /\ Len(open') > 0
        /\ \A i \in DOMAIN open' : i \in DOMAIN open /\ open'[i] = open[i]
    BY <1>5 DEF Endif, TreeInv
  <2>2. open' # <<>>
    BY <2>1 DEF TreeInv
  <2> QED  BY <1>5, <2>1, <2>2 DEF Endif, TreeInv, BlockOK
<1>6. ASSUME NEW s \in Symbols, NEW define \in BOOLEAN, Define(s, define) PROVE TreeInv'
  <2>1. open # <<>>
    BY <1>6 DEF Define, Read, TreeInv
  <2>2. /\ defs' \in [Symbols -> Seq([in : Nat, define : BOOLEAN])]
        /\ \A t \in Symbols : Len(defs[t]) \in Nat /\ Len(defs[t]) <= Len(defs'[t])
        /\ \A t \in Symbols : \A n \in DOMAIN defs'[t] : defs'[t][n].in <= Len(blocks)
    <3> DEFINE d == [in |-> Innermost, define |-> define]
    <3>1. d \in [in : Nat, define : BOOLEAN] /\ d.in <= Len(blocks)
      BY <1>0, <1>2, <2>1 DEF TreeInv
    <3>2. defs \in [Symbols -> Seq([in : Nat, define : BOOLEAN])]
      BY DEF TreeInv
    <3>3. defs' = [defs EXCEPT ![s] = Append(defs[s], d)]
      BY <1>6 DEF Define
    <3> HIDE DEF d
    <3>4. Append(defs[s], d) \in Seq([in : Nat, define : BOOLEAN])
      BY <3>1, <3>2
    <3>5. defs' \in [Symbols -> Seq([in : Nat, define : BOOLEAN])]
      BY <3>2, <3>3, <3>4
    <3>6. \A t \in Symbols : t # s => defs'[t] = defs[t]
      BY <3>2, <3>3
    <3>7. defs'[s] = Append(defs[s], d)
      BY <3>2, <3>3
    <3>8. Len(defs'[s]) = Len(defs[s]) + 1 /\ Len(defs[s]) \in Nat
      BY <3>2, <3>7
    <3>9. \A n \in DOMAIN defs'[s] : defs'[s][n].in <= Len(blocks)
      <4>1. TAKE n \in DOMAIN defs'[s]
      <4>2. n \in 1 .. Len(defs[s]) \/ n = Len(defs[s]) + 1
        BY <3>5, <3>8
      <4>3. CASE n \in 1 .. Len(defs[s])
        <5>1. defs'[s][n] = defs[s][n] /\ n \in DOMAIN defs[s]
          BY <3>2, <3>7, <4>3
        <5> QED  BY <5>1 DEF TreeInv
      <4>4. CASE n = Len(defs[s]) + 1
        <5>1. defs'[s][n] = d
          BY <3>2, <3>7, <4>4
        <5> QED  BY <3>1, <5>1
      <4> QED  BY <4>2, <4>3, <4>4
    <3>10. \A t \in Symbols : Len(defs[t]) \in Nat
      BY <3>2
    <3>11. \A t \in Symbols : Len(defs[t]) <= Len(defs'[t])
      BY <3>6, <3>8, <3>10
    <3>12. \A t \in Symbols : \A n \in DOMAIN defs'[t] : defs'[t][n].in <= Len(blocks)
      BY <3>6, <3>9 DEF TreeInv
    <3> QED  BY <3>5, <3>10, <3>11, <3>12
  <2>3. ASSUME NEW b \in DOMAIN blocks PROVE BlockOK(blocks[b], Len(blocks))'
    <3>1. BlockOK(blocks[b], Len(blocks)) /\ blocks' = blocks
      BY <1>6 DEF TreeInv, Define
    <3>2. \A l \in blocks[b].exp : l.sym \in Symbols /\ l.ver \in Nat
      BY <3>1 DEF BlockOK, BlockRecord
    <3>3. \A l \in blocks[b].exp : l.ver <= Len(defs'[l.sym])
      BY <2>2, <3>1, <3>2 DEF BlockOK
    <3> QED  BY <3>1, <3>3 DEF BlockOK
  <2> QED  BY <1>6, <2>1, <2>2, <2>3 DEF Define, Asked, TreeInv
<1>7. ASSUME EndOfFile PROVE TreeInv'
  BY <1>7 DEF EndOfFile, TreeInv, BlockOK
<1>8. ASSUME DecisionCoverage PROVE TreeInv'
  <2> DEFINE Ends == {b \in DOMAIN blocks : LacksElse(b)}
             n == Cardinality(Ends)
  <2>1. n \in Nat
    <3>1. IsFiniteSet(1 .. Len(blocks))
      BY FS_Interval
    <3>2. IsFiniteSet(Ends)
      BY <3>1, FS_Subset DEF TreeInv
    <3> QED  BY <3>2, FS_CardinalityType
  <2>2. PICK order \in [1 .. n -> Ends] :
          blocks' = blocks \o [i \in 1 .. n |-> Block(blocks[order[i]].parent, order[i], "else", {})]
    BY <1>8 DEF DecisionCoverage
  <2> DEFINE new == [i \in 1 .. n |-> Block(blocks[order[i]].parent, order[i], "else", {})]
  <2>3. ASSUME NEW i \in 1 .. n PROVE BlockOK(new[i], Len(blocks))
    <3>1. order[i] \in Ends
      BY <2>2
    <3>2. order[i] \in 1 .. Len(blocks) /\ BlockOK(blocks[order[i]], Len(blocks))
      BY <3>1 DEF TreeInv
    <3> HIDE DEF Ends, n
    <3>3. order[i] \in 0 .. Len(blocks) /\ order[i] # Top
          /\ blocks[order[i]].parent \in 0 .. Len(blocks)
      BY <1>0, <3>2 DEF BlockOK, BlockRecord, Top
    <3>4. BlockOK(Block(blocks[order[i]].parent, order[i], "else", {}), Len(blocks))
      BY <1>0, <3>3, BlockFits
    <3> QED  BY <3>4
  <2>4. new \in Seq(BlockRecord) /\ Len(new) = n /\ DOMAIN new = 1 .. n
    BY <2>1, <2>3 DEF BlockOK
  <2> HIDE DEF new, n
  <2>5. blocks' = blocks \o new
    BY <2>2 DEF new, n
  <2>6. /\ blocks' \in Seq(BlockRecord) /\ Len(blocks') = Len(blocks) + n
        /\ \A b \in DOMAIN blocks' : BlockOK(blocks'[b], Len(blocks'))
    BY <2>3, <2>4, <2>5, TreeGrows
  <2>7. Len(blocks) <= Len(blocks') /\ Len(blocks') \in Nat /\ UNCHANGED <<defs, open, phase>>
    <3>1. UNCHANGED <<defs, open, phase>>
      BY <1>8 DEF DecisionCoverage
    <3>2. n \in Nat
      BY <2>1 DEF n
    <3> QED  BY <1>0, <2>6, <3>1, <3>2
  <2>8. /\ open' \in Seq(Nat) /\ (phase' = "read" => open' # <<>>)
        /\ \A i \in DOMAIN open' : open'[i] <= Len(blocks') /\ (i > 1 => open'[i] # Top)
    BY <1>0, <2>7 DEF TreeInv
  <2> QED  BY <1>9, <2>6, <2>7, <2>8 DEF TreeInv
<1> QED  BY <1>3, <1>4, <1>5, <1>6, <1>7, <1>8, ExpressionsAssumption DEF Reading, Elif, Else

-----------------------------------------------------------------------------
(* The recursion.  The tree does not change under it.                        *)

\* A call changes nothing the tree invariant reads.
LEMMA TreeStays ==
    ASSUME TreeInv, Tree
    PROVE  /\ TreeInv' /\ DOMAIN blocks' = DOMAIN blocks /\ BlockIds' = BlockIds
           /\ \A b : Link(b)' = Link(b)
           /\ \A F : ChainComplete(F)' = ChainComplete(F)
BY DEF Tree, TreeInv, BlockOK, BlockIds, Link, IsIf, ChainComplete

\* What Goto leaves of the frames below, and makes of the innermost.
LEMMA GotoFrames ==
    ASSUME CallsInv, calls # <<>>,
           NEW pc \in {"marked", "defines", "define", "leave"},
           NEW todo \in Seq(Symbols) \cup Seq(Nat)
    PROVE  LET g == Goto(pc, todo) IN
           /\ g \in Seq(Frame) /\ Len(g) = Len(calls) /\ DOMAIN g = DOMAIN calls
           /\ \A i \in DOMAIN calls : i < Len(calls) => g[i] = calls[i]
           /\ g[Len(calls)].pc = pc
           /\ g[Len(calls)].blk = Caller.blk
           /\ g[Len(calls)].todo = todo
<1>1. Len(calls) \in Nat \ {0} /\ DOMAIN calls = 1 .. Len(calls)
  BY DEF CallsInv
<1>2. Caller \in Frame /\ Caller = calls[Len(calls)]
  BY <1>1 DEF CallsInv, Caller
<1>3. [Caller EXCEPT !.pc = pc, !.todo = todo] \in Frame
  BY <1>2 DEF Frame
<1>4. [Caller EXCEPT !.pc = pc, !.todo = todo].pc = pc
      /\ [Caller EXCEPT !.pc = pc, !.todo = todo].blk = Caller.blk
      /\ [Caller EXCEPT !.pc = pc, !.todo = todo].todo = todo
  BY <1>2 DEF Frame
<1>5. Goto(pc, todo) = [calls EXCEPT ![Len(calls)] = [Caller EXCEPT !.pc = pc, !.todo = todo]]
  BY <1>2 DEF Goto
<1> QED  BY <1>1, <1>3, <1>4, <1>5 DEF CallsInv

\* The innermost call moves on; no call is about to enter.
LEMMA GotoKeeps ==
    ASSUME TreeInv, CallsInv, Tree, calls # <<>>,
           NEW pc \in {"marked", "defines", "define", "leave"},
           NEW todo \in Seq(Symbols) \cup Seq(Nat),
           calls' = Goto(pc, todo), visited \subseteq visited',
           pc \in {"marked", "defines", "leave"} => Caller.blk \in visited',
           pc = "define" => Caller.pc = "define" /\ todo \in Seq(BlockIds),
           pc = "defines" => todo \in Seq(Symbols)
    PROVE  CallsInv' /\ ~At("enter")' /\ calls' # <<>>
<1>1. Len(calls) \in Nat \ {0} /\ DOMAIN calls = 1 .. Len(calls)
  BY DEF CallsInv
<1>2. /\ calls' \in Seq(Frame) /\ Len(calls') = Len(calls) /\ DOMAIN calls' = DOMAIN calls
      /\ \A i \in DOMAIN calls : i < Len(calls) => calls'[i] = calls[i]
      /\ calls'[Len(calls)].pc = pc
      /\ calls'[Len(calls)].blk = Caller.blk
      /\ calls'[Len(calls)].todo = todo
  BY GotoFrames
<1>3. Len(blocks)' = Len(blocks) /\ BlockIds' = BlockIds
  BY DEF Tree, BlockIds
<1>4. ASSUME NEW i \in DOMAIN calls
      PROVE  /\ calls'[i].blk <= Len(blocks)
             /\ calls'[i].pc # "enter"
             /\ calls'[i].pc = "define" => i > 1 /\ calls'[i].todo \in Seq(BlockIds)
             /\ calls'[i].pc = "defines" => calls'[i].todo \in Seq(Symbols)
             /\ calls'[i].pc \in {"marked", "defines", "leave"} => calls'[i].blk \in visited'
  <2>1. CASE i < Len(calls)
    BY <1>2, <2>1 DEF CallsInv
  <2>2. CASE i = Len(calls)
    BY <1>1, <1>2, <2>2 DEF CallsInv, Caller
  <2> QED  BY <1>1, <2>1, <2>2
<1>5. CallsInv'
  BY <1>2, <1>3, <1>4 DEF CallsInv
<1>6. ~At("enter")' /\ calls' # <<>>
  BY <1>1, <1>2, <1>4 DEF At, Caller
<1> QED  BY <1>5, <1>6

\* The innermost call moves on and makes a call f.
LEMMA PushKeeps ==
    ASSUME TreeInv, CallsInv, Tree, calls # <<>>,
           NEW pc \in {"marked", "defines", "define"},
           NEW todo \in Seq(Symbols) \cup Seq(Nat),
           NEW f \in Frame,
           calls' = Append(Goto(pc, todo), f), visited \subseteq visited',
           f.blk <= Len(blocks), f.pc \in {"enter", "define"},
           f.pc = "define" => f.todo \in Seq(BlockIds),
           pc \in {"marked", "defines"} => Caller.blk \in visited',
           pc = "define" => Caller.pc = "define" /\ todo \in Seq(BlockIds),
           pc = "defines" => todo \in Seq(Symbols)
    PROVE  CallsInv' /\ calls' # <<>> /\ Caller' = f /\ (At("enter")' <=> f.pc = "enter")
<1> DEFINE g == Goto(pc, todo)
<1>1. Len(calls) \in Nat \ {0} /\ DOMAIN calls = 1 .. Len(calls)
  BY DEF CallsInv
<1>2. /\ g \in Seq(Frame) /\ Len(g) = Len(calls) /\ DOMAIN g = DOMAIN calls
      /\ \A i \in DOMAIN calls : i < Len(calls) => g[i] = calls[i]
      /\ g[Len(calls)].pc = pc
      /\ g[Len(calls)].blk = Caller.blk
      /\ g[Len(calls)].todo = todo
  BY GotoFrames
<1> HIDE DEF g
<1>3. Len(blocks)' = Len(blocks) /\ BlockIds' = BlockIds
  BY DEF Tree, BlockIds
<1>4. /\ calls' \in Seq(Frame) /\ Len(calls') = Len(calls) + 1
      /\ DOMAIN calls' = 1 .. Len(calls) + 1
      /\ \A i \in 1 .. Len(calls) : calls'[i] = g[i]
      /\ calls'[Len(calls) + 1] = f
  BY <1>1, <1>2 DEF g
<1>5. ASSUME NEW i \in DOMAIN calls'
      PROVE  /\ calls'[i].blk <= Len(blocks)
             /\ i < Len(calls') => calls'[i].pc # "enter"
             /\ calls'[i].pc = "define" => i > 1 /\ calls'[i].todo \in Seq(BlockIds)
             /\ calls'[i].pc = "defines" => calls'[i].todo \in Seq(Symbols)
             /\ calls'[i].pc \in {"marked", "defines", "leave"} => calls'[i].blk \in visited'
  <2>1. CASE i < Len(calls)
    BY <1>1, <1>2, <1>4, <2>1 DEF CallsInv
  <2>2. CASE i = Len(calls)
    <3>. Len(calls) \in 1 .. Len(calls)
      BY <1>1
    <3>0. calls'[Len(calls)] = g[Len(calls)] /\ calls'[i] = calls'[Len(calls)]
      BY <1>4, <2>2
    <3>1. calls'[i].pc = pc /\ calls'[i].blk = Caller.blk /\ calls'[i].todo = todo
      BY <1>2, <3>0
    <3>2. Caller.blk <= Len(blocks) /\ (Caller.pc = "define" => i > 1)
      BY <1>1, <2>2 DEF CallsInv, Caller
    <3> QED  BY <3>1, <3>2
  <2>3. CASE i = Len(calls) + 1
    BY <1>1, <1>4, <2>3
  <2> QED  BY <1>1, <1>4, <2>1, <2>2, <2>3
<1>6. CallsInv'
  BY <1>3, <1>4, <1>5 DEF CallsInv
<1>7. calls' # <<>> /\ Caller' = f
  BY <1>1, <1>4 DEF Caller
<1> QED  BY <1>6, <1>7 DEF At

\* The innermost call returns; the one below it is not about to enter.
LEMMA PopKeeps ==
    ASSUME TreeInv, CallsInv, Tree, calls # <<>>, calls' = SubSeq(calls, 1, Len(calls) - 1),
           Len(calls) > 1 => visited \subseteq visited'
    PROVE  CallsInv' /\ ~At("enter")' /\ (calls' = <<>> <=> Len(calls) = 1)
<1>1. Len(calls) \in Nat \ {0} /\ DOMAIN calls = 1 .. Len(calls)
  BY DEF CallsInv
<1>2. /\ calls' \in Seq(Frame) /\ Len(calls') = Len(calls) - 1
      /\ DOMAIN calls' = 1 .. Len(calls) - 1
      /\ \A i \in 1 .. Len(calls) - 1 : calls'[i] = calls[i]
  BY <1>1 DEF CallsInv
<1>3. Len(blocks)' = Len(blocks) /\ BlockIds' = BlockIds
  BY DEF Tree, BlockIds
<1>4. ASSUME NEW i \in DOMAIN calls'
      PROVE  /\ calls'[i].blk <= Len(blocks)
             /\ calls'[i].pc # "enter"
             /\ calls'[i].pc = "define" => i > 1 /\ calls'[i].todo \in Seq(BlockIds)
             /\ calls'[i].pc = "defines" => calls'[i].todo \in Seq(Symbols)
             /\ calls'[i].pc \in {"marked", "defines", "leave"} => calls'[i].blk \in visited'
  <2>1. i \in DOMAIN calls /\ i < Len(calls) /\ calls'[i] = calls[i] /\ Len(calls) > 1
    BY <1>1, <1>2
  <2> QED  BY <2>1 DEF CallsInv
<1>5. CallsInv'
  BY <1>2, <1>3, <1>4 DEF CallsInv
<1>6. calls' = <<>> <=> Len(calls) = 1
  <2>1. calls' = <<>> <=> Len(calls') = 0
    BY <1>2, EmptySeq
  <2> QED  BY <1>1, <1>2, <2>1
<1>7. ~At("enter")'
  <2> SUFFICES ASSUME calls' # <<>> PROVE Caller'.pc # "enter"
    BY DEF At
  <2>1. Len(calls') \in DOMAIN calls'
    BY <1>1, <1>2, <1>6
  <2> QED  BY <1>4, <2>1 DEF Caller
<1> QED  BY <1>5, <1>6, <1>7

\* Collecting further when no call is about to enter: the conjuncts of blocks stay, so
\* what is collected stays complete.
LEMMA CollectedKept ==
    ASSUME TreeInv, Tree, CollectedInv, ~At("enter"), visited' = visited,
           \A b : BlockClause(b) \in clauses' <=> BlockClause(b) \in clauses
    PROVE  CollectedInv'
<1>1. DOMAIN blocks' = DOMAIN blocks /\ \A b : Link(b)' = Link(b)
  BY TreeStays
<1>2. \A b : BlockClause(b)' = BlockClause(b)
  BY DEF BlockClause
<1>3. \A b \in visited' \ {Top} : BlockClause(b) \in clauses'
  BY DEF CollectedInv
<1>4. \A b \in DOMAIN blocks : BlockClause(b) \in clauses =>
         Link(b) = Top \/ BlockClause(Link(b)) \in clauses
  BY DEF CollectedInv
<1>5. ASSUME NEW b \in DOMAIN blocks', BlockClause(b) \in clauses'
      PROVE  Link(b)' = Top \/ BlockClause(Link(b)') \in clauses'
  BY <1>1, <1>4, <1>5
<1>6. \A b \in DOMAIN blocks' : BlockClause(b)' \in clauses' =>
         Link(b)' = Top \/ BlockClause(Link(b))' \in clauses'
  BY <1>2, <1>5 DEF BlockClause
<1> QED  BY <1>2, <1>3, <1>6 DEF CollectedInv, Top

\* A step that fills no cache keeps what the caches hold.
LEMMA CacheKept ==
    ASSUME CachedChainComplete, Tree, cache' = cache
    PROVE  CachedChainComplete'
BY DEF CachedChainComplete, Tree, ChainComplete, BlockClause, Top

\* While a call runs the file has been read.
LEMMA PhaseKept ==
    ASSUME PhaseInv, Tree, calls # <<>>, calls' # <<>>
    PROVE  PhaseInv'
BY DEF PhaseInv, Tree

LEMMA CollectKeepsInv ==
    ASSUME IInv, Collect
    PROVE  IInv'
<1>0. TreeInv /\ PhaseInv /\ CallsInv /\ CollectedInv /\ CachedChainComplete
  BY DEF IInv
<1>1. calls # <<>> /\ Caller.blk \in BlockIds /\ Caller \in Frame /\ Len(calls) \in DOMAIN calls
      /\ Caller = calls[Len(calls)]
  <2>1. calls # <<>>
    BY DEF Collect, EnterVisited, EnterTop, EnterBlock, StartDefines, FollowDefine, DefineReturns,
           Leave, At
  <2>2. Len(calls) \in DOMAIN calls
    BY <1>0, <2>1 DEF CallsInv
  <2>3. Caller \in Frame /\ Caller.blk <= Len(blocks)
    BY <1>0, <2>2 DEF CallsInv, Caller
  <2> QED  BY <1>0, <2>1, <2>2, <2>3 DEF Frame, BlockIds, TreeInv, Caller
<1>2. ASSUME Tree PROVE TreeInv'
  BY <1>0, <1>2, TreeStays
<1>3. /\ Caller.pc = "define" => Caller.todo \in Seq(BlockIds)
      /\ Caller.pc = "defines" => Caller.todo \in Seq(Symbols)
      /\ Caller.pc \in {"marked", "defines", "leave"} => Caller.blk \in visited
      /\ Caller.pc = "define" => Len(calls) > 1
  BY <1>0, <1>1 DEF CallsInv
<1>4. <<>> \in Seq(Symbols) \cup Seq(Nat) /\ SymbolOrder \in Seq(Symbols) \cup Seq(Nat)
      /\ \A q \in Seq(BlockIds) : q \in Seq(Nat)
  BY <1>0, SymbolOrderAssumption DEF BlockIds, TreeInv
<1>5. ASSUME EnterVisited PROVE IInv'
  <2>1. CallsInv' /\ ~At("enter")' /\ calls' # <<>>
    BY <1>0, <1>1, <1>4, <1>5, GotoKeeps DEF EnterVisited
  <2>2. CollectedInv'
    <3>1. DOMAIN blocks' = DOMAIN blocks /\ \A b : Link(b)' = Link(b)
      BY <1>0, <1>5, TreeStays DEF EnterVisited
    <3>2. ASSUME NEW b \in DOMAIN blocks, BlockClause(b) \in clauses
          PROVE  Link(b) = Top \/ BlockClause(Link(b)) \in clauses
      <4>1. CASE Caller.blk = Link(b) /\ Link(b) # Top
        BY <1>0, <1>5, <4>1 DEF EnterVisited, CollectedInv
      <4>2. CASE Caller.blk # Link(b)
        BY <1>0, <3>2, <4>2 DEF CollectedInv
      <4> QED  BY <4>1, <4>2
    <3>3. clauses' = clauses /\ visited' = visited
      BY <1>5 DEF EnterVisited
    <3> QED  BY <1>0, <3>1, <3>2, <3>3 DEF CollectedInv, BlockClause, Top
  <2> QED  BY <1>0, <1>1, <1>2, <1>5, <2>1, <2>2, CacheKept, PhaseKept DEF EnterVisited, IInv
<1>6. ASSUME EnterTop PROVE IInv'
  <2>1. CallsInv' /\ ~At("enter")' /\ calls' # <<>>
    BY <1>0, <1>1, <1>4, <1>6, GotoKeeps DEF EnterTop, Marks
  <2>2. CollectedInv'
    <3>1. \A b \in DOMAIN blocks : BlockClause(b) \in clauses'
      BY <1>6 DEF EnterTop, FileClauses
    <3>2. \A b \in DOMAIN blocks : Link(b) \in DOMAIN blocks \/ Link(b) = Top
      BY SMTT(30), <1>0 DEF TreeInv, BlockOK, BlockRecord, Link, IsIf, Top
    <3>3. DOMAIN blocks' = DOMAIN blocks /\ \A b : Link(b)' = Link(b)
      BY <1>0, <1>6, TreeStays DEF EnterTop
    <3>4. \A b \in visited' \ {Top} : BlockClause(b) \in clauses'
      BY <1>0, <1>6 DEF EnterTop, Marks, CollectedInv
    <3> QED  BY <3>1, <3>2, <3>3, <3>4 DEF CollectedInv, BlockClause, Top
  <2> QED  BY <1>0, <1>1, <1>2, <1>6, <2>1, <2>2, CacheKept, PhaseKept DEF EnterTop, IInv
<1>7. ASSUME EnterBlock PROVE IInv'
  <2> DEFINE b == Caller.blk
  <2>1. b \in DOMAIN blocks /\ b # Top /\ visited' = visited \cup {b}
        /\ clauses' = clauses \cup {BlockClause(b)} /\ Tree /\ cache' = cache
    BY <1>0, <1>1, <1>7 DEF EnterBlock, Marks, BlockIds, TreeInv, Top
  <2>2. Link(b) \in Nat /\ Link(b) <= Len(blocks)
    BY <1>0, <2>1 DEF TreeInv, BlockOK, BlockRecord, Link, IsIf
  <2>3. /\ CallsInv' /\ calls' # <<>>
        /\ Link(b) # Top => At("enter")' /\ Caller'.blk = Link(b)
    <3>1. CASE Link(b) = Top
      <4>1. calls' = Goto("marked", <<>>)
        BY <1>7, <3>1 DEF EnterBlock
      <4> QED  BY <1>0, <1>1, <1>4, <2>1, <3>1, <4>1, GotoKeeps
    <3>2. CASE Link(b) # Top
      <4>1. calls' = Append(Goto("marked", <<>>), BlockCall(Link(b)))
        BY <1>7, <3>2 DEF EnterBlock
      <4>2. BlockCall(Link(b)) \in Frame /\ BlockCall(Link(b)).blk = Link(b)
            /\ BlockCall(Link(b)).pc = "enter"
        BY <2>2 DEF BlockCall, Frame
      <4> QED  BY <1>0, <1>1, <1>4, <2>1, <2>2, <4>1, <4>2, PushKeeps
    <3> QED  BY <3>1, <3>2
  <2>4. CollectedInv'
    <3>1. DOMAIN blocks' = DOMAIN blocks /\ \A c : Link(c)' = Link(c)
      BY <1>0, <2>1, TreeStays
    <3>2. ASSUME NEW c \in DOMAIN blocks, BlockClause(c) \in clauses'
          PROVE  \/ Link(c) = Top \/ BlockClause(Link(c)) \in clauses'
                 \/ At("enter")' /\ Caller'.blk = Link(c)
      <4>1. CASE c = b
        BY <2>3, <4>1
      <4>2. CASE c # b
        <5>1. BlockClause(c) \in clauses
          BY <2>1, <3>2, <4>2, ClauseNames
        <5>2. Link(c) = Top \/ BlockClause(Link(c)) \in clauses \/ Link(c) = b
          BY <1>0, <5>1 DEF CollectedInv
        <5> QED  BY <2>1, <5>2
      <4> QED  BY <4>1, <4>2
    <3>3. \A c \in visited' \ {Top} : BlockClause(c) \in clauses'
      BY <1>0, <2>1 DEF CollectedInv
    <3> QED  BY <3>1, <3>2, <3>3 DEF CollectedInv, BlockClause, Top
  <2> QED  BY <1>0, <1>1, <1>2, <2>1, <2>3, <2>4, CacheKept, PhaseKept DEF IInv
<1>8. ASSUME StartDefines PROVE IInv'
  <2>1. CallsInv' /\ calls' # <<>>
    BY <1>0, <1>1, <1>3, <1>4, <1>8, SymbolOrderAssumption, GotoKeeps DEF StartDefines, At
  <2>2. \A b : BlockClause(b) \in clauses' <=> BlockClause(b) \in clauses
    BY <1>8, ClauseNames DEF StartDefines
  <2>3. CollectedInv'
    BY <1>0, <1>8, <2>2, CollectedKept DEF StartDefines, At
  <2> QED  BY <1>0, <1>1, <1>2, <1>8, <2>1, <2>3, CacheKept, PhaseKept DEF StartDefines, IInv
<1>9. ASSUME NEW i \in DOMAIN Caller.todo, Caller.pc \in {"define", "defines"}
      PROVE  /\ Behind(i) \in Seq(Symbols) \cup Seq(Nat)
             /\ Caller.pc = "define" => Behind(i) \in Seq(BlockIds) /\ Caller.todo[i] \in BlockIds
             /\ Caller.pc = "defines" => Behind(i) \in Seq(Symbols) /\ Caller.todo[i] \in Symbols
  <2>1. ASSUME NEW S, Caller.todo \in Seq(S)
        PROVE  Behind(i) \in Seq(S) /\ Caller.todo[i] \in S
    <3>1. i \in 1 .. Len(Caller.todo)
      BY <2>1
    <3> QED  BY <2>1, <3>1 DEF Behind
  <2> QED  BY <1>3, <1>4, <1>9, <2>1
<1>10. ASSUME At("defines"), CallDefine PROVE IInv'
  <2>1. PICK i \in DOMAIN Caller.todo :
          /\ clauses' = clauses \cup DefineClauses(Caller.todo[i])
          /\ calls' = Append(Goto("defines", Behind(i)),
                             [pc |-> "define", blk |-> Top, todo |-> DefinedIn(Caller.todo[i])])
          /\ UNCHANGED <<cache, visited>> /\ Tree
    BY <1>10 DEF CallDefine
  <2> DEFINE s == Caller.todo[i]
             f == [pc |-> "define", blk |-> Top, todo |-> DefinedIn(s)]
  <2>2. Caller.pc = "defines" /\ s \in Symbols /\ Behind(i) \in Seq(Symbols)
    BY <1>9, <1>10 DEF At
  <2>3. DefinedIn(s) \in Seq(BlockIds)
    <3>1. defs[s] \in Seq([in : Nat, define : BOOLEAN])
      BY <1>0, <2>2 DEF TreeInv
    <3>2. Len(defs[s]) \in Nat /\ DOMAIN defs[s] = 1 .. Len(defs[s])
      BY <3>1
    <3>3. \A n \in 1 .. Len(defs[s]) : defs[s][n] \in [in : Nat, define : BOOLEAN]
      BY <3>1, ElementOfSeq
    <3>4. \A n \in 1 .. Len(defs[s]) : defs[s][n].in <= Len(blocks)
      BY <1>0, <2>2, <3>2 DEF TreeInv
    <3>5. \A n \in 1 .. Len(defs[s]) : defs[s][n].in \in BlockIds
      BY <1>0, <3>3, <3>4 DEF BlockIds, TreeInv
    <3> QED  BY <3>2, <3>5 DEF DefinedIn
  <2>4. f \in Frame /\ f.pc = "define" /\ f.todo \in Seq(BlockIds) /\ f.blk <= Len(blocks)
    BY <1>0, <1>4, <2>3 DEF Frame, Top, TreeInv
  <2> HIDE DEF f
  <2>5. CallsInv' /\ calls' # <<>>
    <3>1. calls' = Append(Goto("defines", Behind(i)), f)
      BY <2>1 DEF f
    <3> QED  BY <1>0, <1>1, <1>3, <2>1, <2>2, <2>4, <3>1, PushKeeps
  <2>6. \A b : BlockClause(b) \in clauses' <=> BlockClause(b) \in clauses
    BY <2>1, ClauseNames
  <2>7. CollectedInv'
    BY <1>0, <2>1, <2>2, <2>6, CollectedKept DEF At
  <2> QED  BY <1>0, <1>1, <1>2, <2>1, <2>5, <2>7, CacheKept, PhaseKept DEF IInv
<1>11. ASSUME At("defines"), DefinesDone PROVE IInv'
  <2>1. CallsInv' /\ calls' # <<>>
    BY <1>0, <1>1, <1>3, <1>4, <1>11, GotoKeeps DEF DefinesDone, At
  <2>2. CollectedInv'
    BY <1>0, <1>11, CollectedKept DEF DefinesDone, At
  <2> QED  BY <1>0, <1>1, <1>2, <1>11, <2>1, <2>2, CacheKept, PhaseKept DEF DefinesDone, IInv
<1>12. ASSUME FollowDefine PROVE IInv'
  <2> DEFINE d == Head(Caller.todo)
  <2>1. Caller.pc = "define" /\ Caller.todo # <<>> /\ Tree /\ UNCHANGED <<cache, clauses, visited>>
    BY <1>12 DEF FollowDefine, At
  <2>2. 1 \in DOMAIN Caller.todo /\ d = Caller.todo[1]
    BY <1>3, <2>1
  <2>3. d \in BlockIds /\ Behind(1) \in Seq(BlockIds) /\ Behind(1) \in Seq(Symbols) \cup Seq(Nat)
    BY <1>9, <2>1, <2>2
  <2>4. CallsInv' /\ calls' # <<>>
    <3>1. CASE d = Top \/ d \in visited
      <4>1. calls' = Goto("define", Behind(1))
        BY <1>12, <3>1 DEF FollowDefine
      <4> QED  BY <1>0, <1>1, <2>1, <2>3, <4>1, GotoKeeps
    <3>2. CASE ~(d = Top \/ d \in visited)
      <4>1. calls' = Append(Goto("define", Behind(1)), BlockCall(d))
        BY <1>12, <3>2 DEF FollowDefine
      <4>2. BlockCall(d) \in Frame /\ BlockCall(d).blk <= Len(blocks) /\ BlockCall(d).pc = "enter"
        BY <1>0, <2>3 DEF BlockCall, Frame, BlockIds, TreeInv
      <4> QED  BY <1>0, <1>1, <2>1, <2>3, <4>1, <4>2, PushKeeps
    <3> QED  BY <3>1, <3>2
  <2>5. CollectedInv'
    BY <1>0, <2>1, CollectedKept DEF At
  <2> QED  BY <1>0, <1>1, <1>2, <2>1, <2>4, <2>5, CacheKept, PhaseKept DEF IInv
<1>13. ASSUME DefineReturns PROVE IInv'
  <2>1. CallsInv' /\ calls' # <<>>
    BY <1>0, <1>1, <1>3, <1>13, PopKeeps DEF DefineReturns, At
  <2>2. CollectedInv'
    BY <1>0, <1>13, CollectedKept DEF DefineReturns, At
  <2> QED  BY <1>0, <1>1, <1>2, <1>13, <2>1, <2>2, CacheKept, PhaseKept DEF DefineReturns, IInv
<1>14. ASSUME Leave PROVE IInv'
  <2> DEFINE b == Caller.blk
  <2>1. /\ Caller.pc = "leave" /\ Tree /\ calls' = SubSeq(calls, 1, Len(calls) - 1)
        /\ cache' = IF b \in DOMAIN cache
                      THEN cache
                      ELSE [c \in DOMAIN cache \cup {b} |-> IF c = b THEN clauses ELSE cache[c]]
        /\ IF Len(calls) = 1 THEN clauses' = {} /\ visited' = {} ELSE UNCHANGED <<clauses, visited>>
    BY <1>14 DEF Leave, At
  <2>2. Len(calls) \in Nat /\ CallsInv' /\ ~At("enter")' /\ (calls' = <<>> <=> Len(calls) = 1)
    BY <1>0, <1>1, <2>1, PopKeeps DEF CallsInv
  <2>3. CollectedInv'
    <3>1. CASE Len(calls) = 1
      BY <2>1, <3>1 DEF CollectedInv
    <3>2. CASE Len(calls) # 1
      BY <1>0, <2>1, <3>2, CollectedKept DEF At
    <3> QED  BY <3>1, <3>2
  <2>4. PhaseInv'
    BY <1>0, <1>1, <2>1, <2>2 DEF PhaseInv, Tree
  <2>5. CachedChainComplete'
    <3>1. ChainComplete(clauses) /\ (b # Top => BlockClause(b) \in clauses)
      <4>1. ~At("enter") /\ b \in visited
        BY <1>3, <2>1 DEF At
      <4> QED  BY <1>0, <4>1, CompleteWhenEntered DEF CollectedInv
    <3>2. ASSUME NEW c \in DOMAIN cache' \ {Top}
          PROVE  BlockClause(c) \in cache'[c] /\ ChainComplete(cache'[c])
      <4>1. CASE c \in DOMAIN cache
        BY <1>0, <2>1, <4>1 DEF CachedChainComplete
      <4>2. CASE c \notin DOMAIN cache
        BY <2>1, <3>1, <3>2, <4>2
      <4> QED  BY <4>1, <4>2
    <3>3. \A F : ChainComplete(F)' = ChainComplete(F)
      BY <1>0, <2>1, TreeStays
    <3> QED  BY <2>1, <3>2 DEF CachedChainComplete, ChainComplete, BlockClause, Top, Tree
  <2> QED  BY <1>2, <2>1, <2>2, <2>3, <2>4, <2>5 DEF IInv
<1> QED  BY <1>5, <1>6, <1>7, <1>8, <1>10, <1>11, <1>12, <1>13, <1>14 DEF Collect

-----------------------------------------------------------------------------
\* The invariant of every run.
THEOREM Invariance == Spec => []IInv
<1>1. Init => IInv
  <2> SUFFICES ASSUME Init PROVE IInv
    OBVIOUS
  <2>1. TreeInv
    BY DEF Init, TreeInv, Top
  <2>2. PhaseInv /\ CallsInv /\ CollectedInv /\ CachedChainComplete
    BY DEF Init, PhaseInv, CallsInv, CollectedInv, CachedChainComplete
  <2> QED  BY <2>1, <2>2 DEF IInv
<1>2. IInv /\ [Next]_vars => IInv'
  <2> SUFFICES ASSUME IInv, [Next]_vars PROVE IInv'
    OBVIOUS
  <2>1. CASE Reading
    <3>1. calls = <<>> /\ DOMAIN cache = {} /\ UNCHANGED <<cache, calls, clauses, visited>>
          /\ phase' \in {"read", "ask"}
      BY <2>1 DEF Reading, OpenIf, Elif, Else, Alternative, Endif, Define, Read, Asked, EndOfFile,
                  DecisionCoverage, IInv, PhaseInv
    <3>2. TreeInv'
      BY <2>1, ReadingKeepsTree DEF IInv
    <3> QED  BY <3>1, <3>2, NothingCollected
  <2>2. CASE \E b \in BlockIds : Ask(b)
    <3>1. PICK b \in BlockIds : Ask(b)
      BY <2>2
    <3>2. /\ calls = <<>> /\ calls' = <<BlockCall(b)>> /\ Tree /\ phase = "ask"
          /\ UNCHANGED <<cache, clauses, visited>>
      BY <3>1 DEF Ask
    <3>3. clauses = {} /\ visited = {}
      BY <3>2 DEF IInv, PhaseInv
    <3>4. TreeInv'
      BY <3>2, TreeStays DEF IInv
    <3>5. PhaseInv'
      BY <3>2 DEF PhaseInv, Tree
    <3>6. CallsInv'
      <4>1. BlockCall(b) \in Frame /\ BlockCall(b).pc = "enter" /\ BlockCall(b).blk <= Len(blocks)
        BY DEF BlockCall, Frame, BlockIds, IInv, TreeInv
      <4>2. calls' \in Seq(Frame) /\ Len(calls') = 1 /\ \A i \in DOMAIN calls' : i = 1 /\ calls'[i] = BlockCall(b)
        BY <3>2, <4>1
      <4> QED  BY <3>2, <4>1, <4>2 DEF CallsInv, Tree
    <3>7. CollectedInv'
      BY <3>2, <3>3 DEF CollectedInv
    <3>8. CachedChainComplete'
      BY <3>2, CacheKept DEF IInv
    <3> QED  BY <3>4, <3>5, <3>6, <3>7, <3>8 DEF IInv
  <2>3. CASE Collect
    BY <2>3, CollectKeepsInv
  <2>4. CASE UNCHANGED vars
    <3>1. Tree /\ UNCHANGED <<cache, calls, clauses, visited>>
      BY <2>4 DEF vars, Tree
    <3>2. TreeInv'
      BY <3>1, TreeStays DEF IInv
    <3>3. PhaseInv' /\ CallsInv'
      BY <3>1 DEF IInv, PhaseInv, CallsInv, Tree, BlockIds
    <3>4. CollectedInv'
      BY <3>1 DEF IInv, CollectedInv, Tree, Link, IsIf, At, Caller, BlockClause, Top
    <3>5. CachedChainComplete'
      BY <3>1, CacheKept DEF IInv
    <3> QED  BY <3>2, <3>3, <3>4, <3>5 DEF IInv
  <2> QED  BY <2>1, <2>2, <2>3, <2>4 DEF Next
<1> QED  BY <1>1, <1>2, PTL DEF Spec

\* For every file, every order of queries and however the recursion runs through the
\* defines: a cached formula constrains its block and all the block hangs from.
THEOREM CachedChain == Spec => []CachedChainComplete
BY Invariance, PTL DEF IInv

-----------------------------------------------------------------------------
(***************************************************************************)
(* StackBounded.  A block has at most one call under way past its marking, *)
(* a define call is made by such a block call, and only the innermost call *)
(* can be another: numbering the frames by these blocks (Slot) shows how   *)
(* many there can be.                                                      *)
(***************************************************************************)
Pending(q, i) == q[i].pc \in {"marked", "defines"}

\* The stack q when the blocks of V are marked.
Stacked(q, V) ==
    /\ \A i \in DOMAIN q :
         /\ q[i].pc \in {"enter", "leave"} => i = Len(q)
         /\ q[i].pc = "define" => i > 1 /\ q[i - 1].pc = "defines"
         /\ Pending(q, i) => q[i].blk \in V /\ q[i].blk # Top
    /\ \A i, j \in DOMAIN q : Pending(q, i) /\ Pending(q, j) /\ q[i].blk = q[j].blk => i = j

\* The innermost call moves on; if it was not pending before, it marks its block now.
LEMMA GotoStacked ==
    ASSUME CallsInv, calls # <<>>, Stacked(calls, visited),
           NEW pc \in {"marked", "defines", "define", "leave"},
           NEW todo \in Seq(Symbols) \cup Seq(Nat),
           NEW V, visited \subseteq V,
           pc \in {"marked", "defines"} =>
             \/ Caller.pc \in {"marked", "defines"}
             \/ Caller.blk \in V /\ Caller.blk \notin visited /\ Caller.blk # Top,
           pc = "define" => Caller.pc = "define"
    PROVE  Stacked(Goto(pc, todo), V)
<1> DEFINE g == Goto(pc, todo)
           n == Len(calls)
<1>1. n \in Nat \ {0} /\ DOMAIN calls = 1 .. n /\ Caller = calls[n]
  BY DEF CallsInv, Caller
<1>2. /\ g \in Seq(Frame) /\ Len(g) = n /\ DOMAIN g = DOMAIN calls
      /\ \A i \in DOMAIN calls : i < n => g[i] = calls[i]
      /\ g[n].pc = pc /\ g[n].blk = Caller.blk
  BY GotoFrames
<1> HIDE DEF g
<1>3. ASSUME NEW i \in DOMAIN g
      PROVE  /\ g[i].pc \in {"enter", "leave"} => i = n
             /\ g[i].pc = "define" => i > 1 /\ g[i - 1].pc = "defines"
             /\ Pending(g, i) => g[i].blk \in V /\ g[i].blk # Top
  <2>1. CASE i < n
    <3>1. g[i] = calls[i] /\ (i > 1 => i - 1 \in DOMAIN calls /\ g[i - 1] = calls[i - 1])
      BY <1>1, <1>2, <2>1
    <3> QED  BY <1>1, <1>2, <2>1, <3>1 DEF Stacked, Pending
  <2>2. CASE i = n
    <3>1. n > 1 => n - 1 \in DOMAIN calls /\ g[n - 1] = calls[n - 1]
      BY <1>1, <1>2
    <3>2. n \in DOMAIN calls
      BY <1>1
    <3> QED  BY <1>1, <1>2, <2>2, <3>1, <3>2 DEF Stacked, Pending
  <2> QED  BY <1>1, <1>2, <2>1, <2>2
<1>4. ASSUME NEW i \in DOMAIN g, Pending(g, n), Pending(g, i), g[i].blk = g[n].blk, i < n
      PROVE  FALSE
  <2>1. Pending(calls, i) /\ calls[i].blk = calls[n].blk /\ n \in DOMAIN calls
    BY <1>1, <1>2, <1>4 DEF Pending
  <2>2. ~Pending(calls, n)
    BY <1>1, <1>2, <1>4, <2>1 DEF Stacked
  <2>3. calls[n].blk \notin visited
    BY <1>1, <1>2, <1>4, <2>2 DEF Pending
  <2> QED  BY <1>2, <1>4, <2>1, <2>3 DEF Stacked
<1>5. ASSUME NEW i \in DOMAIN g, NEW j \in DOMAIN g,
             Pending(g, i), Pending(g, j), g[i].blk = g[j].blk
      PROVE  i = j
  <2>1. CASE i = n \/ j = n
    BY <1>1, <1>2, <1>4, <1>5, <2>1
  <2>2. CASE i < n /\ j < n
    BY <1>1, <1>2, <1>5, <2>2 DEF Stacked, Pending
  <2> QED  BY <1>1, <1>2, <2>1, <2>2
<1> QED  BY <1>2, <1>3, <1>5 DEF Stacked, g

LEMMA PushStacked ==
    ASSUME NEW q \in Seq(Frame), q # <<>>, NEW V, Stacked(q, V),
           q[Len(q)].pc \notin {"enter", "leave"},
           NEW f \in Frame, f.pc \in {"enter", "define"},
           f.pc = "define" => q[Len(q)].pc = "defines"
    PROVE  Stacked(Append(q, f), V)
<1> DEFINE n == Len(q)
           h == Append(q, f)
<1>1. n \in Nat \ {0} /\ DOMAIN q = 1 .. n
  OBVIOUS
<1>2. Len(h) = n + 1 /\ DOMAIN h = 1 .. n + 1 /\ h[n + 1] = f /\ \A i \in 1 .. n : h[i] = q[i]
  BY <1>1
<1> HIDE DEF h
<1>3. ASSUME NEW i \in 1 .. n
      PROVE  /\ h[i].pc \notin {"enter", "leave"}
             /\ h[i].pc = "define" => i > 1 /\ h[i - 1].pc = "defines"
             /\ Pending(h, i) => h[i].blk \in V /\ h[i].blk # Top
  <2>1. h[i] = q[i] /\ (i > 1 => h[i - 1] = q[i - 1])
    BY <1>1, <1>2
  <2> QED  BY <1>1, <2>1 DEF Stacked, Pending
<1>4. /\ h[n + 1].pc \in {"enter", "define"} /\ ~Pending(h, n + 1)
      /\ h[n + 1].pc = "define" => n + 1 > 1 /\ h[(n + 1) - 1].pc = "defines"
  BY <1>1, <1>2 DEF Pending
<1>5. ASSUME NEW i \in DOMAIN h, NEW j \in DOMAIN h,
             Pending(h, i), Pending(h, j), h[i].blk = h[j].blk
      PROVE  i = j
  <2>1. i \in 1 .. n /\ j \in 1 .. n
    BY <1>1, <1>2, <1>4, <1>5
  <2> QED  BY <1>1, <1>2, <1>5, <2>1 DEF Stacked, Pending
<1>6. ASSUME NEW i \in DOMAIN h
      PROVE  /\ h[i].pc \in {"enter", "leave"} => i = Len(h)
             /\ h[i].pc = "define" => i > 1 /\ h[i - 1].pc = "defines"
             /\ Pending(h, i) => h[i].blk \in V /\ h[i].blk # Top
  <2>1. CASE i \in 1 .. n
    BY <1>3, <2>1
  <2>2. CASE i = n + 1
    BY <1>2, <1>4, <2>2
  <2> QED  BY <1>1, <1>2, <2>1, <2>2
<1> QED  BY <1>5, <1>6 DEF Stacked, h

LEMMA PopStacked ==
    ASSUME NEW q \in Seq(Frame), q # <<>>, NEW V, Stacked(q, V)
    PROVE  Stacked(SubSeq(q, 1, Len(q) - 1), V)
<1> DEFINE n == Len(q)
           h == SubSeq(q, 1, Len(q) - 1)
<1>1. n \in Nat \ {0} /\ DOMAIN q = 1 .. n
  OBVIOUS
<1>2. Len(h) = n - 1 /\ DOMAIN h = 1 .. n - 1 /\ \A i \in 1 .. n - 1 : h[i] = q[i]
  BY <1>1
<1> HIDE DEF h
<1>3. ASSUME NEW i \in 1 .. n - 1
      PROVE  /\ h[i].pc \in {"enter", "leave"} => i = n - 1
             /\ h[i].pc = "define" => i > 1 /\ h[i - 1].pc = "defines"
             /\ Pending(h, i) => h[i].blk \in V /\ h[i].blk # Top
  <2>0. i \in 1 .. n /\ i # n
    <3> HIDE DEF n
    <3> QED  BY <1>1
  <2>1. h[i] = q[i]
    BY <1>2
  <2>2. i > 1 => i - 1 \in 1 .. n - 1
    BY <1>1
  <2>3. i > 1 => h[i - 1] = q[i - 1]
    BY <1>2, <2>2
  <2> QED  BY <1>1, <2>0, <2>1, <2>3 DEF Stacked, Pending
<1>4. ASSUME NEW i \in DOMAIN h, NEW j \in DOMAIN h,
             Pending(h, i), Pending(h, j), h[i].blk = h[j].blk
      PROVE  i = j
  BY <1>1, <1>2, <1>4 DEF Stacked, Pending
<1> QED  BY <1>2, <1>3, <1>4 DEF Stacked, h


StackInv == Stacked(calls, visited)

\* Reading a file and asking leave at most the one call that enters.
LEMMA OutsideStacked ==
    ASSUME IInv, StackInv, Reading \/ (\E b \in BlockIds : Ask(b)) \/ UNCHANGED vars
    PROVE  StackInv'
<1>1. CASE Reading \/ UNCHANGED vars
  <2>1. UNCHANGED <<calls, visited>>
    BY <1>1 DEF vars, Reading, OpenIf, Elif, Else, Alternative, Endif, Define, Read, Asked,
                EndOfFile, DecisionCoverage
  <2> QED  BY <2>1 DEF StackInv, Stacked, Pending
<1>2. CASE \E b \in BlockIds : Ask(b)
  <2>1. PICK b \in BlockIds : calls' = <<BlockCall(b)>>
    BY <1>2 DEF Ask
  <2>2. Len(calls') = 1 /\ DOMAIN calls' = {1} /\ calls'[1].pc = "enter"
    BY <2>1 DEF BlockCall
  <2> QED  BY <2>2 DEF StackInv, Stacked, Pending
<1> QED  BY <1>1, <1>2

LEMMA CollectStacked ==
    ASSUME IInv, StackInv, Collect
    PROVE  StackInv'
<1>1. /\ TreeInv /\ CallsInv /\ calls \in Seq(Frame) /\ calls # <<>>
      /\ Caller = calls[Len(calls)] /\ Stacked(calls, visited)
      /\ \A i \in Nat : Behind(i) \in Seq(Symbols) \cup Seq(Nat) \/ i \notin DOMAIN Caller.todo
  <2>1. calls # <<>>
    BY DEF Collect, EnterVisited, EnterTop, EnterBlock, StartDefines, FollowDefine, DefineReturns,
           Leave, At
  <2>2. TreeInv /\ CallsInv /\ calls \in Seq(Frame) /\ Stacked(calls, visited)
    BY DEF IInv, CallsInv, StackInv
  <2>3. Caller \in Frame
    BY <2>1, <2>2 DEF Caller
  <2>4. ASSUME NEW i \in DOMAIN Caller.todo PROVE Behind(i) \in Seq(Symbols) \cup Seq(Nat)
    <3>1. ASSUME NEW S, Caller.todo \in Seq(S) PROVE Behind(i) \in Seq(S)
      BY <2>4, <3>1 DEF Behind
    <3> QED  BY <2>3, <3>1 DEF Frame
  <2> QED  BY <2>1, <2>2, <2>4 DEF Caller
<1>2. <<>> \in Seq(Symbols) \cup Seq(Nat) /\ SymbolOrder \in Seq(Symbols) \cup Seq(Nat)
  BY SymbolOrderAssumption
<1>3. ASSUME EnterVisited PROVE StackInv'
  <2>1. Stacked(Goto("leave", <<>>), visited)
    BY <1>1, <1>2, GotoStacked
  <2> QED  BY <1>3, <2>1 DEF EnterVisited, StackInv, Stacked, Pending
<1>4. ASSUME EnterTop PROVE StackInv'
  <2>1. Stacked(Goto("leave", <<>>), visited \cup Marks(Top))
    BY <1>1, <1>2, GotoStacked
  <2> QED  BY <1>4, <2>1 DEF EnterTop, StackInv, Stacked, Pending
<1>5. ASSUME EnterBlock PROVE StackInv'
  <2> DEFINE b == Caller.blk
             V == visited \cup Marks(b)
             g == Goto("marked", <<>>)
  <2>1. b \notin visited /\ b # Top /\ b \in V /\ visited' = V
    BY <1>5 DEF EnterBlock, Marks
  <2>2. Stacked(g, V)
    BY <1>1, <1>2, <2>1, GotoStacked
  <2>3. g \in Seq(Frame) /\ g # <<>> /\ g[Len(g)].pc = "marked"
    <3>1. g \in Seq(Frame) /\ Len(g) = Len(calls) /\ g[Len(calls)].pc = "marked"
      BY <1>1, <1>2, GotoFrames
    <3> HIDE DEF g
    <3> QED  BY <1>1, <3>1
  <2>4. CASE Link(b) = Top
    BY <1>5, <2>1, <2>2, <2>4 DEF EnterBlock, StackInv, Stacked, Pending
  <2>5. CASE Link(b) # Top
    <3>1. Link(b) \in Nat
      <4>1. Caller \in Frame /\ b <= Len(blocks)
        BY <1>1 DEF CallsInv
      <4>2. b \in DOMAIN blocks
        BY <1>1, <2>1, <4>1 DEF Frame, TreeInv, Top
      <4> QED  BY <1>1, <4>2 DEF TreeInv, BlockOK, BlockRecord, Link, IsIf
    <3>2. BlockCall(Link(b)) \in Frame /\ BlockCall(Link(b)).pc = "enter"
      BY <3>1 DEF BlockCall, Frame
    <3>3. Stacked(Append(g, BlockCall(Link(b))), V)
      BY <2>2, <2>3, <3>2, PushStacked
    <3> QED  BY <1>5, <2>1, <2>5, <3>3 DEF EnterBlock, StackInv, Stacked, Pending
  <2> QED  BY <2>4, <2>5
<1>6. ASSUME StartDefines PROVE StackInv'
  <2>1. Stacked(Goto("defines", SymbolOrder), visited)
    BY <1>1, <1>2, <1>6, GotoStacked DEF StartDefines, At
  <2> QED  BY <1>6, <2>1 DEF StartDefines, StackInv, Stacked, Pending
<1>7. ASSUME At("defines"), CallDefine PROVE StackInv'
  <2>1. PICK i \in DOMAIN Caller.todo :
          /\ calls' = Append(Goto("defines", Behind(i)),
                             [pc |-> "define", blk |-> Top, todo |-> DefinedIn(Caller.todo[i])])
          /\ visited' = visited
    BY <1>7 DEF CallDefine
  <2> DEFINE s == Caller.todo[i]
             f == [pc |-> "define", blk |-> Top, todo |-> DefinedIn(s)]
             g == Goto("defines", Behind(i))
  <2>2. Len(calls) \in DOMAIN calls
    BY <1>1
  <2>3. Caller.todo \in Seq(Symbols) /\ i \in Nat /\ s \in Symbols
    BY <1>1, <1>7, <2>2 DEF CallsInv, At
  <2>4. f \in Frame
    <3>1. defs[s] \in Seq([in : Nat, define : BOOLEAN])
      BY <1>1, <2>3 DEF TreeInv
    <3>2. Len(defs[s]) \in Nat /\ DOMAIN defs[s] = 1 .. Len(defs[s])
      BY <3>1
    <3>3. \A n \in 1 .. Len(defs[s]) : defs[s][n] \in [in : Nat, define : BOOLEAN]
      BY <3>1, ElementOfSeq
    <3>4. \A n \in 1 .. Len(defs[s]) : defs[s][n].in \in Nat
      BY <3>3
    <3>5. DefinedIn(s) \in Seq(Nat)
      BY <3>2, <3>4 DEF DefinedIn
    <3> QED  BY <3>5 DEF Frame, Top
  <2>5. Behind(i) \in Seq(Symbols) \cup Seq(Nat)
    BY <1>1, <2>3
  <2>6. Stacked(g, visited)
    BY <1>1, <1>7, <2>5, GotoStacked DEF At
  <2>7. g \in Seq(Frame) /\ g # <<>> /\ g[Len(g)].pc = "defines"
    BY <1>1, <2>5, GotoFrames
  <2> HIDE DEF g
  <2>8. Stacked(Append(g, f), visited)
    <3>1. f.pc = "define"
      OBVIOUS
    <3> HIDE DEF f
    <3> QED  BY <2>4, <2>6, <2>7, <3>1, PushStacked
  <2> QED  BY <2>1, <2>8 DEF StackInv, Stacked, Pending, g
<1>8. ASSUME At("defines"), DefinesDone PROVE StackInv'
  <2>1. Stacked(Goto("leave", <<>>), visited)
    BY <1>1, <1>2, GotoStacked
  <2> QED  BY <1>8, <2>1 DEF DefinesDone, StackInv, Stacked, Pending
<1>9. ASSUME FollowDefine PROVE StackInv'
  <2> DEFINE d == Head(Caller.todo)
             g == Goto("define", Behind(1))
  <2>1. Caller.pc = "define" /\ Caller.todo # <<>> /\ visited' = visited
    BY <1>9 DEF FollowDefine, At
  <2>2. Caller.todo \in Seq(BlockIds)
    <3>1. Len(calls) \in DOMAIN calls
      BY <1>1
    <3> QED  BY <1>1, <2>1, <3>1 DEF CallsInv
  <2>3. 1 \in DOMAIN Caller.todo /\ d \in Nat
    BY <2>1, <2>2 DEF BlockIds
  <2>4. Behind(1) \in Seq(Symbols) \cup Seq(Nat)
    BY <1>1, <2>3
  <2>5. Stacked(g, visited)
    BY <1>1, <2>1, <2>4, GotoStacked
  <2>6. g \in Seq(Frame) /\ g # <<>> /\ g[Len(g)].pc = "define"
    BY <1>1, <2>4, GotoFrames
  <2>7. BlockCall(d) \in Frame /\ BlockCall(d).pc = "enter"
    BY <2>3 DEF BlockCall, Frame
  <2>8. Stacked(Append(g, BlockCall(d)), visited)
    BY <2>5, <2>6, <2>7, PushStacked
  <2>9. calls' = g \/ calls' = Append(g, BlockCall(d))
    BY <1>9 DEF FollowDefine
  <2> HIDE DEF g
  <2> QED  BY <2>1, <2>5, <2>8, <2>9 DEF StackInv, Stacked, Pending
<1>10. ASSUME DefineReturns PROVE StackInv'
  <2>1. Stacked(SubSeq(calls, 1, Len(calls) - 1), visited)
    BY <1>1, PopStacked
  <2> QED  BY <1>10, <2>1 DEF DefineReturns, StackInv, Stacked, Pending
<1>11. ASSUME Leave PROVE StackInv'
  <2>1. Stacked(SubSeq(calls, 1, Len(calls) - 1), visited)
    BY <1>1, PopStacked
  <2>2. CASE Len(calls) = 1
    <3>1. DOMAIN calls' = {}
      BY <1>1, <1>11, <2>2 DEF Leave
    <3> QED  BY <3>1 DEF StackInv, Stacked
  <2>3. CASE Len(calls) # 1
    BY <1>11, <2>1, <2>3 DEF Leave, StackInv, Stacked, Pending
  <2> QED  BY <2>2, <2>3
<1> QED  BY <1>3, <1>4, <1>5, <1>6, <1>7, <1>8, <1>9, <1>10, <1>11 DEF Collect


\* Distinct numbers for the calls: twice the block of a pending call, one more for the
\* define call it makes, and 1 for the one that enters or leaves.
Slot(i) ==
    IF Pending(calls, i) THEN 2 * calls[i].blk
    ELSE IF calls[i].pc = "define" THEN 2 * calls[i - 1].blk + 1
    ELSE 1

LEMMA SlotsDiffer ==
    ASSUME NEW a \in Nat, NEW b \in Nat
    PROVE  /\ 2 * a = 2 * b => a = b
           /\ 2 * a + 1 = 2 * b + 1 => a = b
           /\ 2 * a # 2 * b + 1
           /\ a # 0 => 2 * a # 1 /\ 2 * a + 1 # 1
OBVIOUS

LEMMA StackShort == IInv /\ StackInv => StackBounded
<1> SUFFICES ASSUME IInv, StackInv PROVE StackBounded
  OBVIOUS
<1> DEFINE n == Len(calls)
           k == Len(blocks)
           F == [i \in 1 .. n |-> Slot(i)]
<1>1. n \in Nat /\ k \in Nat /\ DOMAIN calls = 1 .. n
  BY DEF IInv, CallsInv, TreeInv
<1>2. ASSUME NEW i \in 1 .. n
      PROVE  /\ calls[i].pc \in {"enter", "marked", "defines", "define", "leave"}
             /\ calls[i].blk \in Nat /\ calls[i].blk <= k
  <2>1. calls \in Seq(Frame) /\ i \in DOMAIN calls
    BY <1>1 DEF IInv, CallsInv
  <2>2. calls[i] \in Frame
    BY <1>1, <2>1, ElementOfSeq
  <2>3. calls[i].blk <= k
    BY <2>1 DEF IInv, CallsInv
  <2> QED  BY <2>2, <2>3 DEF Frame
<1>3. ASSUME NEW i \in 1 .. n
      PROVE  \/ Pending(calls, i) /\ calls[i].blk # 0 /\ Slot(i) = 2 * calls[i].blk
             \/ /\ calls[i].pc = "define" /\ i - 1 \in 1 .. n /\ Pending(calls, i - 1)
                /\ calls[i - 1].blk # 0 /\ Slot(i) = 2 * calls[i - 1].blk + 1
             \/ i = n /\ Slot(i) = 1
  <2>1. CASE Pending(calls, i)
    BY <1>1, <2>1 DEF StackInv, Stacked, Slot, Top
  <2>2. CASE calls[i].pc = "define"
    <3>1. i - 1 \in 1 .. n /\ calls[i - 1].pc = "defines"
      BY <1>1, <2>2 DEF StackInv, Stacked
    <3>2. Pending(calls, i - 1) /\ ~Pending(calls, i)
      BY <2>2, <3>1 DEF Pending
    <3>3. calls[i - 1].blk # 0
      BY <1>1, <3>1, <3>2 DEF StackInv, Stacked, Top
    <3> QED  BY <2>2, <3>1, <3>2, <3>3 DEF Slot
  <2>3. CASE ~Pending(calls, i) /\ calls[i].pc # "define"
    <3>1. calls[i].pc \in {"enter", "leave"}
      BY <1>2, <2>3 DEF Pending
    <3> QED  BY <1>1, <2>3, <3>1 DEF StackInv, Stacked, Slot
  <2> QED  BY <2>1, <2>2, <2>3
<1>4. ASSUME NEW i \in 1 .. n PROVE Slot(i) \in 1 .. 2 * k + 1
  <2>1. CASE Pending(calls, i) /\ calls[i].blk # 0 /\ Slot(i) = 2 * calls[i].blk
    BY <1>1, <1>2, <2>1
  <2>2. CASE /\ i - 1 \in 1 .. n /\ Pending(calls, i - 1)
             /\ calls[i - 1].blk # 0 /\ Slot(i) = 2 * calls[i - 1].blk + 1
    <3>1. calls[i - 1].blk \in Nat /\ calls[i - 1].blk <= k
      BY <1>2, <2>2
    <3> QED  BY <1>1, <2>2, <3>1
  <2>3. CASE i = n /\ Slot(i) = 1
    BY <1>1, <2>3
  <2> QED  BY <1>3, <2>1, <2>2, <2>3
<1>5. ASSUME NEW i \in 1 .. n, NEW j \in 1 .. n,
             Pending(calls, i), Pending(calls, j), calls[i].blk = calls[j].blk
      PROVE  i = j
  BY <1>1, <1>5 DEF StackInv, Stacked
<1>6. ASSUME NEW i \in 1 .. n, NEW j \in 1 .. n, Slot(i) = Slot(j) PROVE i = j
  <2>0. calls[i].blk \in Nat /\ calls[j].blk \in Nat
    BY <1>2
  <2>1. CASE Pending(calls, i) /\ calls[i].blk # 0 /\ Slot(i) = 2 * calls[i].blk
    <3>1. CASE Pending(calls, j) /\ Slot(j) = 2 * calls[j].blk
      BY <1>5, <1>6, <2>0, <2>1, <3>1, SlotsDiffer
    <3>2. CASE j - 1 \in 1 .. n /\ Slot(j) = 2 * calls[j - 1].blk + 1
      BY <1>2, <1>6, <2>0, <2>1, <3>2, SlotsDiffer
    <3>3. CASE Slot(j) = 1
      BY <1>6, <2>0, <2>1, <3>3, SlotsDiffer
    <3> QED  BY <1>3, <3>1, <3>2, <3>3
  <2>2. CASE /\ i - 1 \in 1 .. n /\ Pending(calls, i - 1)
             /\ calls[i - 1].blk # 0 /\ Slot(i) = 2 * calls[i - 1].blk + 1
    <3>0. calls[i - 1].blk \in Nat
      BY <1>2, <2>2
    <3>1. CASE Pending(calls, j) /\ Slot(j) = 2 * calls[j].blk
      BY <1>6, <2>0, <2>2, <3>0, <3>1, SlotsDiffer
    <3>2. CASE j - 1 \in 1 .. n /\ Pending(calls, j - 1) /\ Slot(j) = 2 * calls[j - 1].blk + 1
      <4>1. calls[j - 1].blk \in Nat
        BY <1>2, <3>2
      <4>2. calls[i - 1].blk = calls[j - 1].blk
        BY <1>6, <2>2, <3>0, <3>2, <4>1, SlotsDiffer
      <4>3. i - 1 = j - 1
        BY <1>5, <2>2, <3>2, <4>2
      <4> QED  BY <1>1, <4>3
    <3>3. CASE Slot(j) = 1
      BY <1>6, <2>2, <3>0, <3>3, SlotsDiffer
    <3> QED  BY <1>3, <3>1, <3>2, <3>3
  <2>3. CASE i = n /\ Slot(i) = 1
    <3>1. CASE Pending(calls, j) /\ calls[j].blk # 0 /\ Slot(j) = 2 * calls[j].blk
      BY <1>6, <2>0, <2>3, <3>1, SlotsDiffer
    <3>2. CASE /\ j - 1 \in 1 .. n /\ calls[j - 1].blk # 0
               /\ Slot(j) = 2 * calls[j - 1].blk + 1
      <4>1. calls[j - 1].blk \in Nat
        BY <1>2, <3>2
      <4> QED  BY <1>6, <2>3, <3>2, <4>1, SlotsDiffer
    <3>3. CASE j = n
      BY <2>3, <3>3
    <3> QED  BY <1>3, <3>1, <3>2, <3>3
  <2> QED  BY <1>3, <2>1, <2>2, <2>3
<1>7. F \in Injection(1 .. n, 1 .. 2 * k + 1)
  <2>1. F \in [1 .. n -> 1 .. 2 * k + 1]
    BY <1>4
  <2>2. \A i, j \in 1 .. n : F[i] = F[j] => i = j
    BY <1>6
  <2> HIDE DEF F
  <2> QED  BY <2>1, <2>2 DEF Injection, IsInjective
<1> HIDE DEF F
<1>8. Cardinality(1 .. n) <= Cardinality(1 .. 2 * k + 1)
  <2>1. IsFiniteSet(1 .. 2 * k + 1)
    BY <1>1, FS_Interval
  <2> QED  BY <1>7, <2>1, FS_Injection
<1>9. Cardinality(1 .. n) = n /\ Cardinality(1 .. 2 * k + 1) = 2 * k + 1
  <2> HIDE DEF n, k
  <2>1. n \in Nat /\ 2 * k + 1 \in Nat
    BY <1>1
  <2>2. ASSUME NEW m \in Nat PROVE Cardinality(1 .. m) = m
    BY FS_Interval
  <2> QED  BY <2>1, <2>2
<1> QED  BY <1>1, <1>8, <1>9 DEF StackBounded

THEOREM StackInvariance == Spec => []StackInv
<1>1. Init => StackInv
  BY DEF Init, StackInv, Stacked
<1>2. IInv /\ StackInv /\ [Next]_vars => StackInv'
  BY OutsideStacked, CollectStacked DEF Next
<1> QED  BY Invariance, <1>1, <1>2, PTL DEF Spec

\* However long the file and whatever its defines lead to, the recursion of the two
\* functions never goes deeper than two calls a block and one.
THEOREM RecursionBounded == Spec => []StackBounded
BY Invariance, StackInvariance, StackShort, PTL

-----------------------------------------------------------------------------
(***************************************************************************)
(* The formula of the whole file is the preprocessor.  The operators below *)
(* take the blocks and the defines as arguments, so that the lemmas speak  *)
(* of a tree and of the tree a step makes of it alike.                     *)
(***************************************************************************)
DefineRecord == [in : Nat, define : BOOLEAN]

\* Blocks refer to earlier blocks, and to versions made in earlier blocks; an #if group
\* is a chain under one parent, and #else has no condition.
Earlier(bs, ds, b) ==
    /\ bs[b].parent \in 0 .. b - 1 /\ bs[b].prev \in 0 .. b - 1
    /\ bs[b].kind # "if" => bs[b].prev # 0 /\ bs[b].parent = bs[bs[b].prev].parent
    /\ bs[b].kind = "else" => bs[b].exp = {}
    /\ \A l \in bs[b].exp :
         /\ l.ver <= Len(ds[l.sym])
         /\ \E k \in bs[b].raw : k.sym = l.sym
         /\ \A n \in 1 .. l.ver : ds[l.sym][n].in < b

Shaped(bs, ds) ==
    /\ bs \in Seq(BlockRecord)
    /\ ds \in [Symbols -> Seq(DefineRecord)]
    /\ \A s \in Symbols : \A n \in 1 .. Len(ds[s]) : ds[s][n].in <= Len(bs)
    /\ \A b \in 1 .. Len(bs) : Earlier(bs, ds, b)
    /\ \A b, c \in 1 .. Len(bs) :
         bs[b].kind # "if" /\ bs[c].kind # "if" /\ bs[b].prev = bs[c].prev => b = c

\* Predecessors, as a function of the blocks alone.
PredsStep(bs, P, c) ==
    IF c = 0 \/ bs[c].kind = "if" THEN {} ELSE {bs[c].prev} \cup P[bs[c].prev]

PredsOf(bs) == LET P[c \in 0 .. Len(bs)] == PredsStep(bs, P, c) IN P

\* The assignments of a tree, and what it is to be a model of its formula.
VersionsOf(ds) == UNION {{s} \X (0 .. Len(ds[s])) : s \in Symbols}

Assignments(bs, ds) == [on : [0 .. Len(bs) -> BOOLEAN], val : [VersionsOf(ds) -> BOOLEAN]]

Enabled(bs, b, m) ==
    /\ bs[b].parent # 0 => m.on[bs[b].parent]
    /\ \A l \in bs[b].exp : m.val[<<l.sym, l.ver>>] = l.pos
    /\ \A p \in PredsOf(bs)[b] : ~m.on[p]

Made(ds, s, n, m) ==
    IF m.on[ds[s][n].in] THEN ds[s][n].define ELSE m.val[<<s, n - 1>>]

IsModel(bs, ds, m) ==
    /\ m \in Assignments(bs, ds)
    /\ m.on[0]
    /\ \A b \in 1 .. Len(bs) : m.on[b] <=> Enabled(bs, b, m)
    /\ \A s \in Symbols : \A n \in 1 .. Len(ds[s]) : m.val[<<s, n>>] = Made(ds, s, n, m)


\* A set of numbers has a least one.
LEMMA LeastNumber ==
    ASSUME NEW N \in SUBSET Nat, N # {}
    PROVE  \E n \in N : \A m \in N : n <= m
<1>1. PICK n \in N : \A m \in N : ~(<<m, n>> \in OpToRel(<, Nat))
  BY NatLessThanWellFounded, WFMin
<1>2. ASSUME NEW m \in N PROVE n <= m
  <2>1. <<m, n>> \in OpToRel(<, Nat) <=> <<m, n>> \in Nat \X Nat /\ m < n
    BY Zenon DEF OpToRel
  <2>2. m \in Nat /\ n \in Nat
    OBVIOUS
  <2>3. ~(m < n)
    BY <1>1, <2>1, <2>2, Zenon
  <2> QED  BY <2>2, <2>3
<1> QED  BY <1>2

LEMMA PredsAre ==
    ASSUME NEW b
    PROVE  Predecessors(b) = PredsOf(blocks)[b]
BY DEF Predecessors, PredsOf, PredsStep, IsIf, BlockIds, Top

\* The blocks point backwards.
Backwards(bs) ==
    /\ Len(bs) \in Nat
    /\ \A b \in 1 .. Len(bs) : bs[b].prev \in Nat /\ bs[b].prev < b

LEMMA PredsExist ==
    ASSUME NEW bs, Backwards(bs), NEW n \in 0 .. Len(bs)
    PROVE  \E P : P = [c \in 0 .. n |-> PredsStep(bs, P, c)]
<1> DEFINE Bad == {k \in 0 .. Len(bs) : ~\E P : P = [c \in 0 .. k |-> PredsStep(bs, P, c)]}
<1> SUFFICES ASSUME Bad # {} PROVE FALSE
  OBVIOUS
<1>1. Len(bs) \in Nat
  BY DEF Backwards
<1>2. PICK k \in Bad : \A m \in Bad : k <= m
  <2>1. Bad \in SUBSET Nat
    BY <1>1
  <2> HIDE DEF Bad
  <2> QED  BY <2>1, LeastNumber
<1>3. k # 0
  <2>1. 0 .. 0 = {0}
    OBVIOUS
  <2>2. [c \in 0 .. 0 |-> {}] = [c \in 0 .. 0 |-> PredsStep(bs, [d \in 0 .. 0 |-> {}], c)]
    BY <2>1 DEF PredsStep
  <2> QED  BY <2>2
<1>4. k - 1 \in 0 .. Len(bs) /\ k - 1 \notin Bad /\ k \in 1 .. Len(bs)
  BY <1>1, <1>2, <1>3
<1>5. PICK P : P = [c \in 0 .. k - 1 |-> PredsStep(bs, P, c)]
  BY <1>4
<1> DEFINE Q == [c \in 0 .. k |-> IF c = k THEN PredsStep(bs, P, c) ELSE P[c]]
<1>6. \A c \in 0 .. k : PredsStep(bs, Q, c) = PredsStep(bs, P, c)
  <2>1. ASSUME NEW c \in 1 .. k PROVE bs[c].prev \in 0 .. k - 1 /\ bs[c].prev # k
    BY <1>4 DEF Backwards
  <2>2. ASSUME NEW c \in 0 .. k - 1 PROVE Q[c] = P[c]
    BY <1>4
  <2> HIDE DEF Q
  <2>3. ASSUME NEW c \in 0 .. k PROVE PredsStep(bs, Q, c) = PredsStep(bs, P, c)
    <3>1. CASE c = 0
      BY <3>1 DEF PredsStep
    <3>2. CASE c # 0
      <4>1. c \in 1 .. k
        BY <1>4, <3>2
      <4>2. Q[bs[c].prev] = P[bs[c].prev]
        BY <2>1, <2>2, <4>1
      <4> QED  BY <4>2 DEF PredsStep
    <3> QED  BY <3>1, <3>2
  <2> QED  BY <2>3
<1>7. \A c \in 0 .. k : Q[c] = PredsStep(bs, P, c)
  <2>1. ASSUME NEW c \in 0 .. k PROVE Q[c] = PredsStep(bs, P, c)
    <3>1. CASE c = k
      BY <3>1
    <3>2. CASE c # k
      <4>1. c \in 0 .. k - 1
        BY <1>4, <3>2
      <4> HIDE DEF Q
      <4>2. P[c] = PredsStep(bs, P, c)
        BY <1>5, <4>1
      <4> QED  BY <3>2, <4>2 DEF Q
    <3> QED  BY <3>1, <3>2
  <2> QED  BY <2>1
<1>8. Q = [c \in 0 .. k |-> PredsStep(bs, Q, c)]
  <2>1. Q = [c \in 0 .. k |-> Q[c]]
    OBVIOUS
  <2> HIDE DEF Q
  <2> QED  BY <1>6, <1>7, <2>1
<1>9. \E R : R = [c \in 0 .. k |-> PredsStep(bs, R, c)]
  <2> HIDE DEF Q
  <2> QED  BY <1>8
<1> QED  BY <1>2, <1>9

LEMMA PredsEquation ==
    ASSUME NEW bs, Backwards(bs), NEW b \in 0 .. Len(bs)
    PROVE  PredsOf(bs)[b] = PredsStep(bs, PredsOf(bs), b)
<1>1. Len(bs) \in 0 .. Len(bs)
  BY DEF Backwards
<1>2. \E P : P = [c \in 0 .. Len(bs) |-> PredsStep(bs, P, c)]
  BY <1>1, PredsExist
<1>3. PredsOf(bs) = [c \in 0 .. Len(bs) |-> PredsStep(bs, PredsOf(bs), c)]
  BY <1>2, Zenon DEF PredsOf
<1> QED  BY <1>3

LEMMA ModelsAre ==
    TreeInv => \A m : m \in Models(FileClauses) <=> IsModel(blocks, defs, m)
<1> SUFFICES ASSUME TreeInv, NEW m
             PROVE  m \in Models(FileClauses) <=> IsModel(blocks, defs, m)
  OBVIOUS
<1>1. ASSUME NEW b PROVE Holds(BlockClause(b), m) = (m.on[b] <=> Enabled(blocks, b, m))
  BY PredsAre DEF Holds, BlockClause, BlockHolds, Enabled, Top
<1>2. ASSUME NEW s, NEW n
      PROVE  Holds(<<"define", s, n>>, m) = (m.val[<<s, n>>] = Made(defs, s, n, m))
  BY DEF Holds, DefineHolds, Made
<1>3. Holds(B00, m) = m.on[0]
  BY DEF Holds, B00, Top
<1>4. DOMAIN blocks = 1 .. Len(blocks)
  BY DEF TreeInv
<1>5. Versions = VersionsOf(defs)
  BY DEF Versions, VersionsOf
<1>6. (\A c \in FileClauses : Holds(c, m)) <=>
        /\ Holds(B00, m)
        /\ \A b \in 1 .. Len(blocks) : Holds(BlockClause(b), m)
        /\ \A s \in Symbols : \A n \in 1 .. Len(defs[s]) : Holds(<<"define", s, n>>, m)
  <2>1. \A c, s : c \in DefineClauses(s) <=> \E n \in 1 .. Len(defs[s]) : c = <<"define", s, n>>
    BY Zenon DEF DefineClauses
  <2>2. ASSUME NEW c \in FileClauses
        PROVE  \/ c = B00
               \/ \E b \in 1 .. Len(blocks) : c = BlockClause(b)
               \/ \E s \in Symbols : \E n \in 1 .. Len(defs[s]) : c = <<"define", s, n>>
    <3>1. \/ c \in {BlockClause(b) : b \in DOMAIN blocks}
          \/ c \in UNION {DefineClauses(s) : s \in Symbols}
          \/ c \in {B00}
      BY <2>2, Zenon DEF FileClauses
    <3>2. ASSUME c \in UNION {DefineClauses(s) : s \in Symbols}
          PROVE  \E s \in Symbols : \E n \in 1 .. Len(defs[s]) : c = <<"define", s, n>>
      BY <2>1, <3>2
    <3>3. ASSUME c \in {BlockClause(b) : b \in DOMAIN blocks}
          PROVE  \E b \in 1 .. Len(blocks) : c = BlockClause(b)
      BY <1>4, <3>3
    <3> QED  BY <3>1, <3>2, <3>3, Zenon
  <2>3. B00 \in FileClauses /\ \A b \in 1 .. Len(blocks) : BlockClause(b) \in FileClauses
    BY <1>4, Zenon DEF FileClauses
  <2>4. \A s \in Symbols : \A n \in 1 .. Len(defs[s]) : <<"define", s, n>> \in FileClauses
    BY <2>1 DEF FileClauses
  <2>5. ASSUME Holds(B00, m), \A b \in 1 .. Len(blocks) : Holds(BlockClause(b), m),
               \A s \in Symbols : \A n \in 1 .. Len(defs[s]) : Holds(<<"define", s, n>>, m),
               NEW c \in FileClauses
        PROVE  Holds(c, m)
    BY <2>2, <2>5
  <2> QED  BY <2>3, <2>4, <2>5
<1>7. (\A c \in FileClauses : Holds(c, m)) <=>
        /\ m.on[0]
        /\ \A b \in 1 .. Len(blocks) : m.on[b] <=> Enabled(blocks, b, m)
        /\ \A s \in Symbols : \A n \in 1 .. Len(defs[s]) : m.val[<<s, n>>] = Made(defs, s, n, m)
  BY <1>1, <1>2, <1>3, <1>6, Zenon
<1> QED  BY <1>5, <1>7, Zenon DEF Models, IsModel, Assignments, BlockIds

LEMMA ShapedBlock ==
    ASSUME NEW bs, NEW ds, Shaped(bs, ds), NEW b \in 1 .. Len(bs)
    PROVE  /\ Len(bs) \in Nat /\ Backwards(bs)
           /\ bs[b] \in BlockRecord
           /\ bs[b].kind # "if" =>
                bs[b].prev \in 1 .. b - 1 /\ bs[b].parent = bs[bs[b].prev].parent
           /\ bs[b].parent \in 0 .. b - 1
           /\ \A l \in bs[b].exp :
                /\ l.sym \in Symbols /\ l.ver \in Nat /\ l.pos \in BOOLEAN
                /\ l.ver <= Len(ds[l.sym])
                /\ \A n \in 1 .. l.ver : ds[l.sym][n].in < b
<1>1. bs \in Seq(BlockRecord)
  BY DEF Shaped
<1>2. bs[b] \in BlockRecord /\ Len(bs) \in Nat
  BY <1>1, ElementOfSeq
<1>3. Backwards(bs)
  BY <1>2 DEF Shaped, Earlier, Backwards
<1>4. Earlier(bs, ds, b)
  BY DEF Shaped
<1> QED  BY <1>2, <1>3, <1>4 DEF Earlier, BlockRecord

LEMMA ShapedDefine ==
    ASSUME NEW bs, NEW ds, Shaped(bs, ds), NEW s \in Symbols
    PROVE  /\ Len(bs) \in Nat /\ Len(ds[s]) \in Nat /\ ds[s] \in Seq(DefineRecord)
           /\ DOMAIN ds[s] = 1 .. Len(ds[s])
           /\ \A n \in 1 .. Len(ds[s]) :
                ds[s][n].in \in 0 .. Len(bs) /\ ds[s][n].define \in BOOLEAN
<1>1. ds[s] \in Seq(DefineRecord) /\ Len(bs) \in Nat
  BY DEF Shaped
<1>2. Len(ds[s]) \in Nat /\ DOMAIN ds[s] = 1 .. Len(ds[s])
  BY <1>1
<1>3. ASSUME NEW n \in 1 .. Len(ds[s])
      PROVE  ds[s][n].in \in 0 .. Len(bs) /\ ds[s][n].define \in BOOLEAN
  <2>1. ds[s][n] \in DefineRecord
    BY <1>1, ElementOfSeq
  <2>2. ds[s][n].in <= Len(bs)
    BY DEF Shaped
  <2> QED  BY <1>1, <2>1, <2>2 DEF DefineRecord
<1> QED  BY <1>1, <1>2, <1>3

\* What comes before a block in its group comes earlier, under the same parent, and so
\* does what comes before that.
LEMMA PredsRange ==
    ASSUME NEW bs, NEW ds, Shaped(bs, ds), NEW b \in 1 .. Len(bs), NEW p \in PredsOf(bs)[b]
    PROVE  /\ p \in 1 .. b - 1 /\ bs[p].parent = bs[b].parent
           /\ PredsOf(bs)[p] \subseteq PredsOf(bs)[b]
<1> DEFINE P == PredsOf(bs)
           Good(c, q) == q \in 1 .. c - 1 /\ bs[q].parent = bs[c].parent /\ P[q] \subseteq P[c]
           Bad == {c \in 1 .. Len(bs) : \E q \in P[c] : ~Good(c, q)}
<1> SUFFICES ASSUME Bad # {} PROVE FALSE
  OBVIOUS
<1>1. Len(bs) \in Nat /\ Backwards(bs)
  BY ShapedBlock
<1>2. PICK c \in Bad : \A d \in Bad : c <= d
  <2>1. Bad \in SUBSET Nat
    BY <1>1
  <2> HIDE DEF Bad
  <2> QED  BY <2>1, LeastNumber
<1>3. c \in 1 .. Len(bs) /\ c \in 0 .. Len(bs)
  BY <1>1, <1>2
<1>4. P[c] = PredsStep(bs, P, c)
  BY <1>1, <1>3, PredsEquation
<1>5. PICK q \in P[c] : ~Good(c, q)
  BY <1>2
<1>6. bs[c].kind # "if" /\ P[c] = {bs[c].prev} \cup P[bs[c].prev]
  BY <1>3, <1>4, <1>5 DEF PredsStep
<1> DEFINE r == bs[c].prev
<1>7. r \in 1 .. c - 1 /\ bs[c].parent = bs[r].parent
  BY <1>3, <1>6, ShapedBlock
<1>8. r \notin Bad /\ r \in 1 .. Len(bs)
  <2> HIDE DEF Bad, r
  <2> QED  BY <1>1, <1>2, <1>3, <1>7
<1>9. \A x \in P[r] : Good(r, x)
  BY <1>8
<1>10. CASE q = r
  BY <1>5, <1>6, <1>7, <1>10
<1>11. CASE q \in P[r]
  <2>1. Good(r, q)
    BY <1>9, <1>11
  <2>2. q \in 1 .. c - 1
    <3> HIDE DEF r
    <3> QED  BY <1>3, <1>7, <2>1
  <2> QED  BY <1>5, <1>6, <1>7, <2>1, <2>2
<1> QED  BY <1>5, <1>6, <1>10, <1>11

\* Blocks added behind change nothing before.
SamePrefix(bs, bs2) ==
    /\ Len(bs) \in Nat /\ Len(bs2) \in Nat /\ Len(bs) <= Len(bs2)
    /\ \A b \in 1 .. Len(bs) : bs2[b] = bs[b]

LEMMA PredsGrow ==
    ASSUME NEW bs, NEW bs2, Backwards(bs), Backwards(bs2), SamePrefix(bs, bs2),
           NEW b \in 0 .. Len(bs)
    PROVE  PredsOf(bs2)[b] = PredsOf(bs)[b]
<1> DEFINE Bad == {c \in 0 .. Len(bs) : PredsOf(bs2)[c] # PredsOf(bs)[c]}
<1> SUFFICES ASSUME Bad # {} PROVE FALSE
  OBVIOUS
<1>1. Len(bs) \in Nat /\ Len(bs2) \in Nat /\ Len(bs) <= Len(bs2)
  BY DEF SamePrefix
<1>2. PICK c \in Bad : \A d \in Bad : c <= d
  <2>1. Bad \in SUBSET Nat
    BY <1>1
  <2> HIDE DEF Bad
  <2> QED  BY <2>1, LeastNumber
<1>3. c \in 0 .. Len(bs) /\ c \in 0 .. Len(bs2) /\ PredsOf(bs2)[c] # PredsOf(bs)[c]
  BY <1>1, <1>2
<1>4. PredsOf(bs)[c] = PredsStep(bs, PredsOf(bs), c)
      /\ PredsOf(bs2)[c] = PredsStep(bs2, PredsOf(bs2), c)
  BY <1>3, PredsEquation
<1>5. CASE c = 0
  BY <1>3, <1>4, <1>5 DEF PredsStep
<1>6. CASE c # 0
  <2>1. c \in 1 .. Len(bs) /\ bs2[c] = bs[c]
    BY <1>1, <1>3, <1>6 DEF SamePrefix
  <2>2. bs[c].prev \in 0 .. Len(bs) /\ bs[c].prev < c
    BY <1>1, <2>1 DEF Backwards
  <2>3. bs[c].prev \notin Bad
    <3> HIDE DEF Bad
    <3> QED  BY <1>1, <1>2, <1>3, <2>2
  <2>4. PredsOf(bs2)[bs[c].prev] = PredsOf(bs)[bs[c].prev]
    BY <2>2, <2>3
  <2> QED  BY <1>3, <1>4, <2>1, <2>4 DEF PredsStep
<1> QED  BY <1>5, <1>6

\* The preprocessor's run over the directives, one directive after the other.
RunStep(fl, c, R, i) == IF i = 0 THEN Start(c) ELSE Directive(R[i - 1], fl[i])

RunOf(fl, c) == LET R[i \in 0 .. Len(fl)] == RunStep(fl, c, R, i) IN R

LEMMA RunEquation ==
    ASSUME NEW S, NEW fl \in Seq(S), NEW c, NEW i \in 0 .. Len(fl)
    PROVE  /\ RunOf(fl, c)[i] = RunStep(fl, c, RunOf(fl, c), i)
           /\ Preprocessed(fl, c) = RunOf(fl, c)[Len(fl)]
<1> DEFINE Bad == {k \in 0 .. Len(fl) : ~\E R : R = [j \in 0 .. k |-> RunStep(fl, c, R, j)]}
<1>1. Len(fl) \in Nat
  OBVIOUS
<1>2. ASSUME Bad # {} PROVE FALSE
  <2>1. PICK k \in Bad : \A m \in Bad : k <= m
    <3>1. Bad \in SUBSET Nat
      BY <1>1
    <3> HIDE DEF Bad
    <3> QED  BY <1>2, <3>1, LeastNumber
  <2>2. k # 0
    <3>1. 0 .. 0 = {0}
      OBVIOUS
    <3>2. [j \in 0 .. 0 |-> Start(c)] = [j \in 0 .. 0 |-> RunStep(fl, c, [d \in 0 .. 0 |-> Start(c)], j)]
      BY <3>1 DEF RunStep
    <3> QED  BY <3>2
  <2>3. k \in Nat /\ k - 1 \in 0 .. Len(fl) /\ k - 1 \notin Bad
    <3>1. k \in 0 .. Len(fl)
      BY <2>1
    <3>2. k \in Nat /\ k - 1 \in 0 .. Len(fl)
      BY <1>1, <2>2, <3>1
    <3> HIDE DEF Bad
    <3> QED  BY <2>1, <3>2
  <2>4. PICK R : R = [j \in 0 .. k - 1 |-> RunStep(fl, c, R, j)]
    BY <2>3
  <2> DEFINE Q == [j \in 0 .. k |-> IF j = k THEN RunStep(fl, c, R, j) ELSE R[j]]
  <2>5. ASSUME NEW j \in 0 .. k PROVE RunStep(fl, c, Q, j) = RunStep(fl, c, R, j)
    <3>1. CASE j = 0
      BY <3>1 DEF RunStep
    <3>2. CASE j # 0
      <4>1. j - 1 \in 0 .. k /\ j - 1 # k
        BY <2>3, <3>2
      <4>2. Q[j - 1] = R[j - 1]
        BY <4>1
      <4> HIDE DEF Q
      <4> QED  BY <4>2 DEF RunStep
    <3> QED  BY <3>1, <3>2
  <2>6. ASSUME NEW j \in 0 .. k PROVE Q[j] = RunStep(fl, c, R, j)
    <3>1. CASE j = k
      BY <3>1
    <3>2. CASE j # k
      <4>1. j \in 0 .. k - 1
        BY <2>3, <3>2
      <4>2. Q[j] = R[j]
        BY <3>2
      <4> HIDE DEF Q
      <4>3. R[j] = RunStep(fl, c, R, j)
        BY <2>4, <4>1
      <4> QED  BY <4>2, <4>3
    <3> QED  BY <3>1, <3>2
  <2>7. Q = [j \in 0 .. k |-> RunStep(fl, c, Q, j)]
    <3>1. Q = [j \in 0 .. k |-> Q[j]]
      OBVIOUS
    <3> HIDE DEF Q
    <3> QED  BY <2>5, <2>6, <3>1
  <2>8. \E T : T = [j \in 0 .. k |-> RunStep(fl, c, T, j)]
    <3> HIDE DEF Q
    <3> QED  BY <2>7
  <2> QED  BY <2>1, <2>8
<1>3. Len(fl) \in 0 .. Len(fl)
  BY <1>1
<1>4. \E R : R = [j \in 0 .. Len(fl) |-> RunStep(fl, c, R, j)]
  BY <1>2, <1>3
<1>5. RunOf(fl, c) = [j \in 0 .. Len(fl) |-> RunStep(fl, c, RunOf(fl, c), j)]
  BY <1>4, Zenon DEF RunOf
<1>6. Preprocessed(fl, c) = RunOf(fl, c)[Len(fl)]
  BY Zenon DEF Preprocessed, RunOf, RunStep
<1> QED  BY <1>5, <1>6

LEMMA PreprocessedNothing ==
    ASSUME NEW c
    PROVE  Preprocessed(<<>>, c) = Start(c)
<1>1. <<>> \in Seq({}) /\ Len(<<>>) = 0 /\ 0 \in 0 .. Len(<<>>)
  OBVIOUS
<1>2. RunOf(<<>>, c)[0] = RunStep(<<>>, c, RunOf(<<>>, c), 0)
      /\ Preprocessed(<<>>, c) = RunOf(<<>>, c)[0]
  <2>1. /\ RunOf(<<>>, c)[0] = RunStep(<<>>, c, RunOf(<<>>, c), 0)
        /\ Preprocessed(<<>>, c) = RunOf(<<>>, c)[Len(<<>>)]
    BY <1>1, RunEquation
  <2> QED  BY <1>1, <2>1
<1> QED  BY <1>2 DEF RunStep

LEMMA PreprocessedNext ==
    ASSUME NEW S, NEW fl \in Seq(S), NEW d \in S, NEW c
    PROVE  Preprocessed(Append(fl, d), c) = Directive(Preprocessed(fl, c), d)
<1> DEFINE n == Len(fl)
           gl == Append(fl, d)
           Bad == {k \in 0 .. n : RunOf(gl, c)[k] # RunOf(fl, c)[k]}
<1>1. /\ n \in Nat /\ gl \in Seq(S) /\ Len(gl) = n + 1 /\ gl[n + 1] = d
      /\ \A k \in 1 .. n : gl[k] = fl[k]
  BY AppendProperties
<1> HIDE DEF gl
<1>2. ASSUME Bad # {} PROVE FALSE
  <2>1. PICK k \in Bad : \A m \in Bad : k <= m
    <3>1. Bad \in SUBSET Nat
      BY <1>1
    <3> HIDE DEF Bad
    <3> QED  BY <1>2, <3>1, LeastNumber
  <2>2. k \in 0 .. n /\ k \in 0 .. Len(gl) /\ RunOf(gl, c)[k] # RunOf(fl, c)[k]
    BY <1>1, <2>1
  <2>3. RunOf(gl, c)[k] = RunStep(gl, c, RunOf(gl, c), k)
        /\ RunOf(fl, c)[k] = RunStep(fl, c, RunOf(fl, c), k)
    BY <1>1, <2>2, RunEquation
  <2>4. k # 0
    BY <2>2, <2>3 DEF RunStep
  <2>5. k - 1 \in 0 .. n /\ k - 1 \notin Bad /\ k \in 1 .. n
    BY <1>1, <2>1, <2>2, <2>4
  <2>6. RunOf(gl, c)[k - 1] = RunOf(fl, c)[k - 1] /\ gl[k] = fl[k]
    BY <1>1, <2>5
  <2> HIDE DEF n, Bad
  <2> QED  BY <2>2, <2>3, <2>4, <2>6 DEF RunStep
<1>3. n \in 0 .. n /\ n + 1 \in 0 .. Len(gl) /\ n + 1 # 0 /\ (n + 1) - 1 = n
  BY <1>1
<1>4. RunOf(gl, c)[n] = RunOf(fl, c)[n]
  BY <1>2, <1>3
<1>5. RunOf(gl, c)[n + 1] = RunStep(gl, c, RunOf(gl, c), n + 1)
      /\ Preprocessed(gl, c) = RunOf(gl, c)[n + 1]
  BY <1>1, <1>3, RunEquation
<1>6. Preprocessed(fl, c) = RunOf(fl, c)[n]
  BY <1>3, RunEquation
<1> QED  BY <1>1, <1>3, <1>4, <1>5, <1>6 DEF RunStep, gl

LEMMA VersionIn ==
    ASSUME NEW ds
    PROVE  /\ \A s, n : <<s, n>> \in VersionsOf(ds) <=> s \in Symbols /\ n \in 0 .. Len(ds[s])
           /\ \A v \in VersionsOf(ds) :
                \E s \in Symbols : \E n \in 0 .. Len(ds[s]) : v = <<s, n>>
<1>1. ASSUME NEW s, NEW n, <<s, n>> \in VersionsOf(ds)
      PROVE  s \in Symbols /\ n \in 0 .. Len(ds[s])
  <2>1. PICK t \in Symbols : <<s, n>> \in {t} \X (0 .. Len(ds[t]))
    BY <1>1 DEF VersionsOf
  <2>2. s \in {t} /\ n \in 0 .. Len(ds[t])
    BY <2>1
  <2> QED  BY <2>2
<1>2. ASSUME NEW s \in Symbols, NEW n \in 0 .. Len(ds[s])
      PROVE  <<s, n>> \in VersionsOf(ds)
  <2>1. <<s, n>> \in {s} \X (0 .. Len(ds[s]))
    BY Zenon
  <2> QED  BY <2>1, Zenon DEF VersionsOf
<1>3. ASSUME NEW v \in VersionsOf(ds)
      PROVE  \E s \in Symbols : \E n \in 0 .. Len(ds[s]) : v = <<s, n>>
  <2>1. PICK t \in Symbols : v \in {t} \X (0 .. Len(ds[t]))
    BY <1>3 DEF VersionsOf
  <2>2. PICK s \in {t}, n \in 0 .. Len(ds[t]) : v = <<s, n>>
    BY <2>1
  <2> QED  BY <2>2
<1> QED  BY <1>1, <1>2, <1>3

LEMMA ModelParts ==
    ASSUME NEW bs, NEW ds, NEW m, IsModel(bs, ds, m)
    PROVE  /\ m = [on |-> m.on, val |-> m.val]
           /\ m.on \in [0 .. Len(bs) -> BOOLEAN] /\ m.val \in [VersionsOf(ds) -> BOOLEAN]
BY DEF IsModel, Assignments

\* Whether a block is enabled is read off its parent, its condition and the blocks before
\* it in its group.
LEMMA EnabledSame ==
    ASSUME NEW bs, NEW bs2, NEW b, NEW m, NEW m2,
           bs2[b] = bs[b], PredsOf(bs2)[b] = PredsOf(bs)[b],
           bs[b].parent # 0 => m2.on[bs[b].parent] = m.on[bs[b].parent],
           \A l \in bs[b].exp : m2.val[<<l.sym, l.ver>>] = m.val[<<l.sym, l.ver>>],
           \A p \in PredsOf(bs)[b] : m2.on[p] = m.on[p]
    PROVE  Enabled(bs2, b, m2) <=> Enabled(bs, b, m)
BY DEF Enabled

\* A model of a tree extends to the tree with blocks added behind.
LEMMA ModelGrows ==
    ASSUME NEW bs, NEW bs2, NEW ds, NEW m,
           Shaped(bs, ds), Shaped(bs2, ds), SamePrefix(bs, bs2), IsModel(bs, ds, m),
           \A b \in Len(bs) + 1 .. Len(bs2) : bs2[b].parent <= Len(bs) /\ bs2[b].prev <= Len(bs)
    PROVE  \E m2 : /\ IsModel(bs2, ds, m2) /\ m2.val = m.val
                   /\ \A b \in 0 .. Len(bs) : m2.on[b] = m.on[b]
<1> DEFINE on2 == [b \in 0 .. Len(bs2) |-> IF b <= Len(bs) THEN m.on[b] ELSE Enabled(bs2, b, m)]
           m2 == [on |-> on2, val |-> m.val]
<1>1. /\ Len(bs) \in Nat /\ Len(bs2) \in Nat /\ Len(bs) <= Len(bs2)
      /\ \A b \in 1 .. Len(bs) : bs2[b] = bs[b]
  BY DEF SamePrefix
<1>2. m.on \in [0 .. Len(bs) -> BOOLEAN] /\ m.val \in [VersionsOf(ds) -> BOOLEAN]
  BY ModelParts
<1>3. ASSUME NEW b \in 0 .. Len(bs2) PROVE Enabled(bs2, b, m) \in BOOLEAN
  BY DEF Enabled
<1>4. on2 \in [0 .. Len(bs2) -> BOOLEAN]
  <2>1. ASSUME NEW b \in 0 .. Len(bs2)
        PROVE  (IF b <= Len(bs) THEN m.on[b] ELSE Enabled(bs2, b, m)) \in BOOLEAN
    BY <1>1, <1>2, <1>3
  <2> QED  BY <2>1
<1>5. m2.on = on2 /\ m2.val = m.val /\ m2 \in Assignments(bs2, ds)
  BY <1>2, <1>4 DEF Assignments
<1>6. /\ \A b \in 0 .. Len(bs) : m2.on[b] = m.on[b]
      /\ \A b \in Len(bs) + 1 .. Len(bs2) : m2.on[b] = Enabled(bs2, b, m)
  BY <1>1, <1>5
<1> HIDE DEF m2, on2
<1>7. Backwards(bs2) /\ Backwards(bs)
  <2>1. ASSUME NEW cs, Shaped(cs, ds) PROVE Backwards(cs)
    <3>1. Len(cs) \in Nat
      BY <2>1 DEF Shaped
    <3> QED  BY <2>1, <3>1 DEF Shaped, Earlier, Backwards
  <2> QED  BY <2>1
<1>8. ASSUME NEW b \in 1 .. Len(bs) PROVE m2.on[b] <=> Enabled(bs2, b, m2)
  <2>1. PredsOf(bs2)[b] = PredsOf(bs)[b] /\ bs2[b] = bs[b] /\ b \in 0 .. Len(bs)
    BY <1>1, <1>7, PredsGrow
  <2>2. bs[b].parent \in 0 .. Len(bs)
    BY <1>1, ShapedBlock
  <2>3. \A p \in PredsOf(bs)[b] : p \in 0 .. Len(bs)
    BY <1>1, PredsRange
  <2>4. Enabled(bs2, b, m2) <=> Enabled(bs, b, m)
    BY <1>5, <1>6, <2>1, <2>2, <2>3, EnabledSame
  <2>5. m.on[b] <=> Enabled(bs, b, m)
    BY DEF IsModel
  <2> QED  BY <1>6, <2>1, <2>4, <2>5
<1>9. ASSUME NEW b \in Len(bs) + 1 .. Len(bs2) PROVE m2.on[b] <=> Enabled(bs2, b, m2)
  <2>1. b \in 1 .. Len(bs2) /\ b \in 0 .. Len(bs2)
    BY <1>1
  <2>2. bs2[b].parent \in 0 .. Len(bs)
    BY <1>1, <2>1, ShapedBlock
  <2>3. \A p \in PredsOf(bs2)[b] : p \in 0 .. Len(bs)
    <3>1. PredsOf(bs2)[b] = PredsStep(bs2, PredsOf(bs2), b)
      BY <1>7, <2>1, PredsEquation
    <3>2. ASSUME NEW p \in PredsOf(bs2)[b] PROVE p \in 0 .. Len(bs)
      <4>1. bs2[b].kind # "if" /\ (p = bs2[b].prev \/ p \in PredsOf(bs2)[bs2[b].prev])
        BY <3>1, <3>2 DEF PredsStep
      <4>2. bs2[b].prev \in 1 .. Len(bs)
        BY <1>1, <2>1, <4>1, ShapedBlock
      <4>3. bs2[b].prev \in 1 .. Len(bs2)
        BY <1>1, <4>2
      <4>4. ASSUME p \in PredsOf(bs2)[bs2[b].prev] PROVE p \in 1 .. bs2[b].prev - 1
        BY <4>3, <4>4, PredsRange
      <4> QED  BY <1>1, <4>1, <4>2, <4>4
    <3> QED  BY <3>2
  <2>4. Enabled(bs2, b, m2) <=> Enabled(bs2, b, m)
    BY <1>5, <1>6, <2>2, <2>3, EnabledSame
  <2> QED  BY <1>6, <2>4
<1>10. \A b \in 1 .. Len(bs2) : m2.on[b] <=> Enabled(bs2, b, m2)
  BY <1>1, <1>8, <1>9
<1>11. ASSUME NEW s \in Symbols, NEW n \in 1 .. Len(ds[s])
       PROVE  m2.val[<<s, n>>] = Made(ds, s, n, m2)
  <2>1. m2.on[ds[s][n].in] = m.on[ds[s][n].in]
    BY <1>6, ShapedDefine
  <2>2. m.val[<<s, n>>] = Made(ds, s, n, m)
    BY DEF IsModel
  <2> QED  BY <1>5, <2>1, <2>2 DEF Made
<1>12. m2.on[0]
  <2>1. 0 \in 0 .. Len(bs) /\ m.on[0]
    BY <1>1 DEF IsModel
  <2> QED  BY <1>6, <2>1
<1>13. IsModel(bs2, ds, m2)
  BY <1>5, <1>10, <1>11, <1>12 DEF IsModel
<1> QED  BY <1>5, <1>6, <1>13

\* The assignment m2 extends m by the version the define r makes of s.
DefinedFrom(ds, s, r, m, m2) ==
    /\ m2.on = m.on
    /\ \A v \in VersionsOf(ds) : m2.val[v] = m.val[v]
    /\ m.on[r.in] => m2.val[<<s, Len(ds[s]) + 1>>] = r.define
    /\ ~m.on[r.in] => m2.val[<<s, Len(ds[s]) + 1>>] = m.val[<<s, Len(ds[s])>>]

\* A model extends to one more version of a symbol.
LEMMA ModelDefines ==
    ASSUME NEW bs, NEW ds, NEW m, NEW s \in Symbols, NEW r \in DefineRecord, r.in <= Len(bs),
           Shaped(bs, ds), IsModel(bs, ds, m)
    PROVE  \E m2 : /\ IsModel(bs, [ds EXCEPT ![s] = Append(ds[s], r)], m2)
                   /\ DefinedFrom(ds, s, r, m, m2)
<1> DEFINE ds2 == [ds EXCEPT ![s] = Append(ds[s], r)]
           k == Len(ds[s])
           new == <<s, k + 1>>
           value == IF m.on[r.in] THEN r.define ELSE m.val[<<s, k>>]
           val2 == [v \in VersionsOf(ds2) |-> IF v = new THEN value ELSE m.val[v]]
           m2 == [on |-> m.on, val |-> val2]
<1>1. m.on \in [0 .. Len(bs) -> BOOLEAN] /\ m.val \in [VersionsOf(ds) -> BOOLEAN]
  BY ModelParts
<1>2. /\ Len(bs) \in Nat /\ k \in Nat /\ ds \in [Symbols -> Seq(DefineRecord)]
      /\ r.in \in 0 .. Len(bs) /\ r.define \in BOOLEAN
  BY ShapedDefine DEF Shaped, DefineRecord
<1>3. /\ \A t \in Symbols : t # s => ds2[t] = ds[t]
      /\ ds2[s] = Append(ds[s], r) /\ Len(ds2[s]) = k + 1 /\ ds2[s][k + 1] = r
      /\ \A n \in 1 .. k : ds2[s][n] = ds[s][n]
  BY <1>2
<1> HIDE DEF ds2, k
<1>4. new \in VersionsOf(ds2) /\ new \notin VersionsOf(ds) /\ <<s, k>> \in VersionsOf(ds)
  BY <1>2, <1>3, VersionIn DEF k
<1>5. \A v \in VersionsOf(ds) : v \in VersionsOf(ds2) /\ v # new
  <2>1. ASSUME NEW v \in VersionsOf(ds) PROVE v \in VersionsOf(ds2)
    <3>1. PICK t \in Symbols : \E n \in 0 .. Len(ds[t]) : v = <<t, n>>
      BY VersionIn
    <3>2. PICK n \in 0 .. Len(ds[t]) : v = <<t, n>>
      BY <3>1
    <3>3. n \in 0 .. Len(ds2[t])
      <4>1. CASE t = s
        BY <1>2, <1>3, <3>2, <4>1 DEF k
      <4>2. CASE t # s
        BY <1>3, <3>2, <4>2
      <4> QED  BY <4>1, <4>2
    <3> QED  BY <3>2, <3>3, VersionIn
  <2> QED  BY <1>4, <2>1
<1>6. \A v \in VersionsOf(ds2) : v = new \/ v \in VersionsOf(ds)
  <2>1. ASSUME NEW v \in VersionsOf(ds2), v # new PROVE v \in VersionsOf(ds)
    <3>1. PICK t \in Symbols : \E n \in 0 .. Len(ds2[t]) : v = <<t, n>>
      BY VersionIn
    <3>2. PICK n \in 0 .. Len(ds2[t]) : v = <<t, n>>
      BY <3>1
    <3>3. n \in 0 .. Len(ds[t])
      <4>1. CASE t = s
        <5>1. n # k + 1
          BY <2>1, <3>2, <4>1
        <5> QED  BY <1>2, <1>3, <3>2, <4>1, <5>1 DEF k
      <4>2. CASE t # s
        BY <1>3, <3>2, <4>2
      <4> QED  BY <4>1, <4>2
    <3> QED  BY <3>2, <3>3, VersionIn
  <2> QED  BY <2>1
<1>7. value \in BOOLEAN
  BY <1>1, <1>2, <1>4
<1> HIDE DEF new, value
<1>8. val2 \in [VersionsOf(ds2) -> BOOLEAN]
  <2>1. ASSUME NEW v \in VersionsOf(ds2) PROVE (IF v = new THEN value ELSE m.val[v]) \in BOOLEAN
    BY <1>1, <1>6, <1>7
  <2> QED  BY <2>1
<1>9. \A v \in VersionsOf(ds) : val2[v] = m.val[v]
  BY <1>5
<1>10. val2[new] = value
  BY <1>4
<1> HIDE DEF val2
<1>11. m2.on = m.on /\ m2.val = val2 /\ m2 \in Assignments(bs, ds2) /\ m2.on[0]
  BY <1>1, <1>8 DEF Assignments, IsModel
<1> HIDE DEF m2
<1>12. ASSUME NEW b \in 1 .. Len(bs) PROVE m2.on[b] <=> Enabled(bs, b, m2)
  <2>1. \A l \in bs[b].exp : <<l.sym, l.ver>> \in VersionsOf(ds)
    <3>1. ASSUME NEW l \in bs[b].exp PROVE <<l.sym, l.ver>> \in VersionsOf(ds)
      <4>1. l.sym \in Symbols /\ l.ver \in Nat /\ l.ver <= Len(ds[l.sym])
        BY ShapedBlock
      <4>2. Len(ds[l.sym]) \in Nat
        BY <4>1, ShapedDefine
      <4> QED  BY <4>1, <4>2, VersionIn
    <3> QED  BY <3>1
  <2>2. Enabled(bs, b, m2) <=> Enabled(bs, b, m)
    BY <1>9, <1>11, <2>1, EnabledSame
  <2> QED  BY <1>11, <2>2 DEF IsModel
<1>13. ASSUME NEW t \in Symbols, NEW n \in 1 .. Len(ds2[t])
       PROVE  m2.val[<<t, n>>] = Made(ds2, t, n, m2)
  <2>1. CASE t = s /\ n = k + 1
    <3>1. ds2[t][n] = r /\ n - 1 = k
      BY <1>2, <1>3, <2>1
    <3>2. m2.val[<<t, n>>] = value /\ m2.val[<<s, k>>] = m.val[<<s, k>>]
      BY <1>4, <1>9, <1>10, <1>11, <2>1 DEF new
    <3> QED  BY <1>11, <2>1, <3>1, <3>2 DEF Made, value
  <2>2. CASE ~(t = s /\ n = k + 1)
    <3>1. n \in 1 .. Len(ds[t]) /\ ds2[t][n] = ds[t][n]
      <4>1. CASE t = s
        BY <1>2, <1>3, <2>2, <4>1 DEF k
      <4>2. CASE t # s
        BY <1>3, <4>2
      <4> QED  BY <4>1, <4>2
    <3>2. Len(ds[t]) \in Nat
      BY ShapedDefine
    <3>3. n \in 0 .. Len(ds[t]) /\ n - 1 \in 0 .. Len(ds[t])
      BY <3>1, <3>2
    <3>4. m2.val[<<t, n>>] = m.val[<<t, n>>] /\ m2.val[<<t, n - 1>>] = m.val[<<t, n - 1>>]
      BY <1>9, <1>11, <3>3, VersionIn
    <3>5. m.val[<<t, n>>] = Made(ds, t, n, m)
      BY <3>1 DEF IsModel
    <3> QED  BY <1>11, <3>1, <3>4, <3>5 DEF Made
  <2> QED  BY <2>1, <2>2
<1>14. IsModel(bs, ds2, m2)
  BY <1>11, <1>12, <1>13 DEF IsModel
<1>15. DefinedFrom(ds, s, r, m, m2)
  BY <1>9, <1>10, <1>11 DEF new, value, k, DefinedFrom
<1> QED  BY <1>14, <1>15 DEF ds2

-----------------------------------------------------------------------------
(* Reading keeps the shape of the tree.                                      *)

\* No block goes on with the group of b.
Last(bs, b) == \A c \in 1 .. Len(bs) : bs[c].kind # "if" => bs[c].prev # b

\* The open blocks are nested, and each is the last of its group so far.
Nested(bs, op) ==
    /\ op \in Seq(Nat) /\ op # <<>> /\ op[1] = 0
    /\ \A j \in 1 .. Len(op) : op[j] <= Len(bs)
    /\ \A j \in 2 .. Len(op) :
         /\ \A k \in 1 .. j - 1 : op[k] < op[j]
         /\ op[j] # 0 /\ bs[op[j]].parent = op[j - 1]
         /\ Last(bs, op[j])

ShapeInv == Shaped(blocks, defs) /\ (phase = "read" => Nested(blocks, open))

\* A tree may grow by blocks that go on with groups nobody went on with.
LEMMA ShapedGrows ==
    ASSUME NEW bs, NEW bs2, NEW ds, Shaped(bs, ds), SamePrefix(bs, bs2),
           bs2 \in Seq(BlockRecord),
           \A b \in Len(bs) + 1 .. Len(bs2) :
             /\ Earlier(bs2, ds, b)
             /\ bs2[b].kind # "if" =>
                  /\ Last(bs, bs2[b].prev)
                  /\ \A c \in Len(bs) + 1 .. Len(bs2) :
                       bs2[c].kind # "if" /\ bs2[c].prev = bs2[b].prev => b = c
    PROVE  Shaped(bs2, ds)
<1>1. /\ Len(bs) \in Nat /\ Len(bs2) \in Nat /\ Len(bs) <= Len(bs2)
      /\ \A b \in 1 .. Len(bs) : bs2[b] = bs[b]
  BY DEF SamePrefix
<1>2. ASSUME NEW b \in 1 .. Len(bs2) PROVE b \in 1 .. Len(bs) \/ b \in Len(bs) + 1 .. Len(bs2)
  BY <1>1
<1>3. ASSUME NEW b \in 1 .. Len(bs2) PROVE Earlier(bs2, ds, b)
  <2>1. CASE b \in 1 .. Len(bs)
    <3>1. Earlier(bs, ds, b) /\ bs2[b] = bs[b]
      BY <1>1, <2>1 DEF Shaped
    <3>2. ASSUME bs[b].kind # "if" PROVE bs2[bs[b].prev] = bs[bs[b].prev]
      <4>1. bs[b].prev \in 0 .. b - 1 /\ bs[b].prev # 0
        BY <3>1, <3>2 DEF Earlier
      <4>2. bs[b].prev \in 1 .. Len(bs)
        BY <1>1, <2>1, <4>1
      <4> QED  BY <1>1, <4>2
    <3> QED  BY <3>1, <3>2 DEF Earlier
  <2> QED  BY <1>2, <2>1
<1>4. ASSUME NEW b \in 1 .. Len(bs2), NEW c \in 1 .. Len(bs2),
             bs2[b].kind # "if", bs2[c].kind # "if", bs2[b].prev = bs2[c].prev
      PROVE  b = c
  <2>1. CASE b \in 1 .. Len(bs) /\ c \in 1 .. Len(bs)
    BY <1>1, <1>4, <2>1 DEF Shaped
  <2>2. CASE b \in Len(bs) + 1 .. Len(bs2) /\ c \in Len(bs) + 1 .. Len(bs2)
    BY <1>4, <2>2
  <2>3. CASE b \in Len(bs) + 1 .. Len(bs2) /\ c \in 1 .. Len(bs)
    BY <1>1, <1>4, <2>3 DEF Last
  <2>4. CASE b \in 1 .. Len(bs) /\ c \in Len(bs) + 1 .. Len(bs2)
    BY <1>1, <1>4, <2>4 DEF Last
  <2> QED  BY <1>2, <2>1, <2>2, <2>3, <2>4
<1>5. \A s \in Symbols : \A n \in 1 .. Len(ds[s]) : ds[s][n].in <= Len(bs2)
  <2>1. ASSUME NEW s \in Symbols, NEW n \in 1 .. Len(ds[s]) PROVE ds[s][n].in <= Len(bs2)
    <3>1. ds[s][n].in \in 0 .. Len(bs)
      BY ShapedDefine
    <3> QED  BY <1>1, <3>1
  <2> QED  BY <2>1
<1> QED  BY <1>3, <1>4, <1>5 DEF Shaped

LEMMA ShapedDefines ==
    ASSUME NEW bs, NEW ds, Shaped(bs, ds), NEW s \in Symbols, NEW r \in DefineRecord,
           r.in <= Len(bs)
    PROVE  Shaped(bs, [ds EXCEPT ![s] = Append(ds[s], r)])
<1> DEFINE ds2 == [ds EXCEPT ![s] = Append(ds[s], r)]
<1>1. ds \in [Symbols -> Seq(DefineRecord)] /\ ds[s] \in Seq(DefineRecord)
  BY DEF Shaped
<1>2. /\ ds2 \in [Symbols -> Seq(DefineRecord)]
      /\ \A t \in Symbols : t # s => ds2[t] = ds[t]
      /\ ds2[s] = Append(ds[s], r) /\ Len(ds2[s]) = Len(ds[s]) + 1
      /\ ds2[s][Len(ds[s]) + 1] = r
      /\ \A n \in 1 .. Len(ds[s]) : ds2[s][n] = ds[s][n]
  BY <1>1
<1>3. \A t \in Symbols : Len(ds[t]) \in Nat
  BY <1>1
<1> HIDE DEF ds2
<1>4. ASSUME NEW t \in Symbols
      PROVE  /\ Len(ds2[t]) \in Nat /\ Len(ds[t]) <= Len(ds2[t])
             /\ \A n \in 1 .. Len(ds[t]) : ds2[t][n] = ds[t][n]
             /\ \A n \in 1 .. Len(ds2[t]) : ds2[t][n].in <= Len(bs)
  <2>1. CASE t # s
    BY <1>2, <1>3, <2>1 DEF Shaped
  <2>2. CASE t = s
    <3>1. ASSUME NEW n \in 1 .. Len(ds2[s]) PROVE ds2[s][n].in <= Len(bs)
      <4>1. n \in 1 .. Len(ds[s]) \/ n = Len(ds[s]) + 1
        BY <1>2, <1>3
      <4> QED  BY <1>2, <4>1 DEF Shaped
    <3> QED  BY SMTT(30), <1>2, <1>3, <2>2, <3>1
  <2> QED  BY <2>1, <2>2
<1>5. ASSUME NEW b \in 1 .. Len(bs) PROVE Earlier(bs, ds2, b)
  <2>1. Earlier(bs, ds, b)
    BY DEF Shaped
  <2>2. ASSUME NEW l \in bs[b].exp
        PROVE  /\ l.ver <= Len(ds2[l.sym])
               /\ \A n \in 1 .. l.ver : ds2[l.sym][n].in < b
    <3>1. l.sym \in Symbols /\ l.ver \in Nat /\ l.ver <= Len(ds[l.sym])
          /\ \A n \in 1 .. l.ver : ds[l.sym][n].in < b
      BY ShapedBlock
    <3>2. Len(ds[l.sym]) \in Nat
      BY <1>3, <3>1
    <3> QED  BY SMTT(30), <1>4, <3>1, <3>2
  <2> QED  BY <2>1, <2>2 DEF Earlier
<1>6. \A t \in Symbols : \A n \in 1 .. Len(ds2[t]) : ds2[t][n].in <= Len(bs)
  BY <1>4
<1> HIDE DEF ds2
<1>7. Shaped(bs, ds2)
  BY <1>2, <1>5, <1>6 DEF Shaped
<1> QED  BY <1>7 DEF ds2

\* The blocks the visitor makes refer to versions there are.
LEMMA BlockEarlier ==
    ASSUME TreeInv, Shaped(blocks, defs), NEW bs2, NEW b \in Nat, Len(blocks) < b,
           NEW p, NEW q, NEW kind, NEW e \in SUBSET Literals,
           p \in 0 .. b - 1, q \in 0 .. b - 1,
           bs2[b] = Block(p, q, kind, e),
           kind # "if" => q # 0 /\ p = bs2[q].parent,
           kind = "else" => e = {}
    PROVE  Earlier(bs2, defs, b)
<1>1. /\ bs2[b].parent = p /\ bs2[b].prev = q /\ bs2[b].kind = kind /\ bs2[b].raw = e
      /\ bs2[b].exp = Rewritten(e)
  BY DEF Block
<1>2. ASSUME NEW l \in Rewritten(e)
      PROVE  /\ l.ver <= Len(defs[l.sym])
             /\ \E k \in e : k.sym = l.sym
             /\ \A n \in 1 .. l.ver : defs[l.sym][n].in < b
  <2>1. PICK k \in e : l = [sym |-> k.sym, ver |-> Len(defs[k.sym]), pos |-> k.pos]
    BY DEF Rewritten
  <2>2. l.sym = k.sym /\ l.ver = Len(defs[k.sym]) /\ k.sym \in Symbols
    BY <2>1 DEF Literals
  <2>3. Len(defs[k.sym]) \in Nat /\ Len(blocks) \in Nat
        /\ \A n \in 1 .. Len(defs[k.sym]) : defs[k.sym][n].in \in 0 .. Len(blocks)
    BY <2>2, ShapedDefine
  <2> QED  BY SMTT(30), <2>2, <2>3
<1>3. kind = "else" => Rewritten(e) = {}
  BY DEF Rewritten
<1> QED  BY <1>1, <1>2, <1>3 DEF Earlier

\* One block more: what OpenIf and Alternative make of the tree.
LEMMA OneBlockMore ==
    ASSUME TreeInv, Shaped(blocks, defs),
           NEW p \in 0 .. Len(blocks), NEW q \in 0 .. Len(blocks),
           NEW kind \in {"if", "elif", "else"}, NEW e \in SUBSET Literals,
           kind # "if" => q # 0 /\ p = blocks[q].parent /\ Last(blocks, q),
           kind = "else" => e = {}
    PROVE  LET bs2 == Append(blocks, Block(p, q, kind, e)) IN
           /\ Shaped(bs2, defs) /\ SamePrefix(blocks, bs2)
           /\ Len(bs2) = Len(blocks) + 1 /\ bs2[Len(blocks) + 1] = Block(p, q, kind, e)
<1> DEFINE r == Block(p, q, kind, e)
           bs2 == Append(blocks, r)
           k == Len(blocks) + 1
<1>1. blocks \in Seq(BlockRecord) /\ Len(blocks) \in Nat
  BY DEF TreeInv
<1>2. BlockOK(r, Len(blocks)) /\ r \in BlockRecord
  <2>1. BlockOK(r, Len(blocks))
    BY <1>1, BlockFits DEF Top
  <2> QED  BY <2>1 DEF BlockOK
<1> HIDE DEF r
<1>3. /\ bs2 \in Seq(BlockRecord) /\ Len(bs2) = k /\ bs2[k] = r
      /\ \A b \in 1 .. Len(blocks) : bs2[b] = blocks[b]
  BY <1>1, <1>2, AppendProperties
<1> HIDE DEF bs2
<1>4. SamePrefix(blocks, bs2)
  BY <1>1, <1>3 DEF SamePrefix
<1>5. Earlier(bs2, defs, k)
  <2>1. kind # "if" => q # 0 /\ p = bs2[q].parent
    BY <1>1, <1>3
  <2>2. k \in Nat /\ Len(blocks) < k /\ p \in 0 .. k - 1 /\ q \in 0 .. k - 1
    BY <1>1
  <2> HIDE DEF k
  <2> QED  BY <1>3, <2>1, <2>2, BlockEarlier DEF r
<1>6. \A b \in Len(blocks) + 1 .. Len(bs2) : b = k
  BY <1>1, <1>3
<1>7. r.kind = kind /\ r.prev = q
  BY DEF r, Block
<1>8. Shaped(bs2, defs)
  BY <1>3, <1>4, <1>5, <1>6, <1>7, ShapedGrows
<1> QED  BY <1>3, <1>4, <1>8 DEF bs2, r

\* Entering a block that goes on with no open group.
LEMMA NestedPush ==
    ASSUME NEW bs, NEW bs2, NEW ds, NEW op, Shaped(bs, ds), Shaped(bs2, ds), Nested(bs, op),
           SamePrefix(bs, bs2), Len(bs2) = Len(bs) + 1,
           bs2[Len(bs) + 1].parent = op[Len(op)],
           bs2[Len(bs) + 1].kind # "if" =>
             \A j \in 1 .. Len(op) : bs2[Len(bs) + 1].prev # op[j]
    PROVE  Nested(bs2, Append(op, Len(bs) + 1))
<1> DEFINE new == Len(bs) + 1
           op2 == Append(op, new)
           n == Len(op)
<1>1. /\ Len(bs) \in Nat /\ Len(bs2) \in Nat
      /\ \A b \in 1 .. Len(bs) : bs2[b] = bs[b]
  BY DEF SamePrefix
<1>2. /\ op \in Seq(Nat) /\ n \in Nat \ {0} /\ op[1] = 0
      /\ \A j \in 1 .. n : op[j] \in 0 .. Len(bs)
  <2>1. op \in Seq(Nat) /\ op # <<>> /\ op[1] = 0
    BY DEF Nested
  <2>2. n \in Nat \ {0}
    BY <2>1
  <2>3. \A j \in 1 .. n : op[j] \in Nat
    BY <2>1, ElementOfSeq
  <2> QED  BY <1>1, <2>1, <2>2, <2>3 DEF Nested
<1>3. /\ op2 \in Seq(Nat) /\ Len(op2) = n + 1 /\ op2[n + 1] = new
      /\ \A j \in 1 .. n : op2[j] = op[j]
  BY <1>1, <1>2, AppendProperties
<1> HIDE DEF op2, n
<1>4. op2 # <<>> /\ op2[1] = 0
  <2>1. 1 \in 1 .. n
    BY <1>2
  <2> QED  BY <1>2, <1>3, <2>1
<1>5. \A j \in 1 .. Len(op2) : j \in 1 .. n \/ j = n + 1
  BY <1>2, <1>3
<1>6. \A j \in 1 .. Len(op2) : op2[j] <= Len(bs2)
  BY <1>1, <1>2, <1>3, <1>5
<1>7. ASSUME NEW b \in 1 .. Len(bs2) PROVE b \in 1 .. Len(bs) \/ b = new
  BY <1>1
<1>8. ASSUME NEW j \in 2 .. n
      PROVE  /\ \A k \in 1 .. j - 1 : op2[k] < op2[j]
             /\ op2[j] # 0 /\ bs2[op2[j]].parent = op2[j - 1] /\ Last(bs2, op2[j])
  <2>1. j \in 1 .. n /\ j - 1 \in 1 .. n /\ \A k \in 1 .. j - 1 : k \in 1 .. n
    BY <1>2
  <2>2. /\ \A k \in 1 .. j - 1 : op[k] < op[j]
        /\ op[j] # 0 /\ bs[op[j]].parent = op[j - 1] /\ Last(bs, op[j])
    BY DEF Nested, n
  <2>3. op[j] \in 1 .. Len(bs)
    BY <1>1, <1>2, <2>1, <2>2
  <2>4. Last(bs2, op[j])
    <3>1. ASSUME NEW b \in 1 .. Len(bs2), bs2[b].kind # "if" PROVE bs2[b].prev # op[j]
      <4>1. CASE b \in 1 .. Len(bs)
        BY <1>1, <2>2, <3>1, <4>1 DEF Last
      <4>2. CASE b = new
        BY <2>1, <3>1, <4>2 DEF n
      <4> QED  BY <1>7, <4>1, <4>2
    <3> QED  BY <3>1 DEF Last
  <2> QED  BY <1>1, <1>3, <2>1, <2>2, <2>3, <2>4
<1>9. /\ \A k \in 1 .. n : op2[k] < new
      /\ new # 0 /\ bs2[new].parent = op2[n] /\ Last(bs2, new)
  <2>1. ASSUME NEW k \in 1 .. n PROVE op2[k] < new
    <3>1. op2[k] \in 0 .. Len(bs)
      BY <1>2, <1>3
    <3> QED  BY <1>1, <3>1
  <2>2. ASSUME NEW b \in 1 .. Len(bs2) PROVE bs2[b].prev < new
    <3>1. bs2[b].prev \in 0 .. b - 1
      BY DEF Shaped, Earlier
    <3> QED  BY <1>1, <3>1
  <2>3. Last(bs2, new)
    <3>1. \A b \in 1 .. Len(bs2) : bs2[b].prev # new
      BY <1>1, <2>2
    <3> QED  BY <3>1 DEF Last
  <2>4. n \in 1 .. n
    BY <1>2
  <2> QED  BY <1>1, <1>3, <2>1, <2>3, <2>4 DEF n
<1>10. ASSUME NEW j \in 2 .. Len(op2)
       PROVE  /\ \A k \in 1 .. j - 1 : op2[k] < op2[j]
              /\ op2[j] # 0 /\ bs2[op2[j]].parent = op2[j - 1] /\ Last(bs2, op2[j])
  <2>1. CASE j \in 2 .. n
    BY <1>8, <2>1
  <2>2. CASE j = n + 1
    <3>1. j - 1 = n
      BY <1>2, <2>2
    <3> QED  BY <1>3, <1>9, <2>2, <3>1
  <2>3. j \in 2 .. n \/ j = n + 1
    BY <1>2, <1>3
  <2> QED  BY <2>1, <2>2, <2>3
<1>11. Nested(bs2, op2)
  BY <1>3, <1>4, <1>6, <1>10 DEF Nested
<1> QED  BY <1>11 DEF op2

\* Leaving the innermost block.
LEMMA NestedPop ==
    ASSUME NEW bs, NEW op, Nested(bs, op), Len(op) > 1
    PROVE  LET op2 == SubSeq(op, 1, Len(op) - 1) IN
           /\ Nested(bs, op2) /\ Len(op2) = Len(op) - 1
           /\ \A j \in 1 .. Len(op) - 1 : op2[j] = op[j]
<1> DEFINE op2 == SubSeq(op, 1, Len(op) - 1)
           n == Len(op) - 1
<1>1. op \in Seq(Nat) /\ n \in Nat \ {0} /\ Len(op) = n + 1
  BY DEF Nested
<1>2. op2 \in Seq(Nat) /\ Len(op2) = n /\ \A j \in 1 .. n : op2[j] = op[j]
  BY <1>1
<1> HIDE DEF op2, n
<1>3. \A j \in 1 .. n : j \in 1 .. Len(op)
  BY <1>1
<1>4. op2 # <<>> /\ op2[1] = 0
  <2>1. 1 \in 1 .. n
    BY <1>1
  <2> QED  BY <1>2, <2>1, <1>1 DEF Nested
<1>5. ASSUME NEW j \in 2 .. n
      PROVE  /\ j \in 2 .. Len(op) /\ j \in 1 .. n /\ j - 1 \in 1 .. n
             /\ \A k \in 1 .. j - 1 : k \in 1 .. n
  BY <1>1
<1>6. Nested(bs, op2)
  BY <1>2, <1>3, <1>4, <1>5 DEF Nested
<1> QED  BY <1>1, <1>2, <1>6 DEF op2, n

\* What each step of the visitor makes of the tree and of the open blocks.
LEMMA OpenIfShape ==
    ASSUME TreeInv, ShapeInv, NEW e \in SUBSET Literals, OpenIf(e)
    PROVE  /\ phase = "read" /\ phase' = "read" /\ defs' = defs
           /\ Nested(blocks, open) /\ Innermost = open[Len(open)]
           /\ Shaped(blocks', defs) /\ SamePrefix(blocks, blocks')
           /\ Len(blocks') = Len(blocks) + 1
           /\ blocks'[Len(blocks) + 1] = Block(Innermost, 0, "if", e)
           /\ open' = Append(open, Len(blocks) + 1) /\ Nested(blocks', open')
<1>1. /\ phase = "read" /\ phase' = "read" /\ defs' = defs
      /\ blocks' = Append(blocks, Block(Innermost, 0, "if", e))
      /\ open' = Append(open, Len(blocks) + 1)
  BY DEF OpenIf, Read, Asked, Top
<1>2. Nested(blocks, open) /\ Innermost = open[Len(open)]
  BY <1>1 DEF ShapeInv, Innermost
<1>3. Len(blocks) \in Nat /\ Innermost \in 0 .. Len(blocks)
  <2>1. Len(open) \in 1 .. Len(open) /\ open \in Seq(Nat)
    BY <1>2 DEF Nested
  <2>2. Innermost \in Nat /\ Innermost <= Len(blocks)
    BY <1>2, <2>1, ElementOfSeq DEF Nested
  <2> QED  BY <2>2 DEF TreeInv
<1>4. /\ Shaped(blocks', defs) /\ SamePrefix(blocks, blocks')
      /\ Len(blocks') = Len(blocks) + 1
      /\ blocks'[Len(blocks) + 1] = Block(Innermost, 0, "if", e)
  BY <1>1, <1>3, OneBlockMore DEF ShapeInv
<1>5. blocks'[Len(blocks) + 1].parent = Innermost /\ blocks'[Len(blocks) + 1].kind = "if"
  BY <1>4 DEF Block
<1>6. Nested(blocks', open')
  BY <1>1, <1>2, <1>4, <1>5, NestedPush DEF ShapeInv
<1> QED  BY <1>1, <1>2, <1>4, <1>6

LEMMA AlternativeShape ==
    ASSUME TreeInv, ShapeInv, NEW kind \in {"elif", "else"}, NEW e \in SUBSET Literals,
           kind = "else" => e = {}, Alternative(kind, e)
    PROVE  LET rest == SubSeq(open, 1, Len(open) - 1) IN
           /\ phase = "read" /\ phase' = "read" /\ defs' = defs
           /\ Nested(blocks, open) /\ Innermost = open[Len(open)] /\ Len(open) > 1
           /\ Shaped(blocks', defs) /\ SamePrefix(blocks, blocks')
           /\ Len(blocks') = Len(blocks) + 1
           /\ blocks'[Len(blocks) + 1] = Block(open[Len(open) - 1], Innermost, kind, e)
           /\ Nested(blocks, rest)
           /\ open' = Append(rest, Len(blocks) + 1) /\ Nested(blocks', open')
<1> DEFINE rest == SubSeq(open, 1, Len(open) - 1)
           n == Len(open)
           k == Len(blocks) + 1
<1>1. /\ phase = "read" /\ phase' = "read" /\ defs' = defs /\ n > 1
      /\ blocks' = Append(blocks, Block(open[n - 1], Innermost, kind, e))
      /\ open' = [open EXCEPT ![n] = k]
  BY DEF Alternative, Read, Asked
<1>2. Nested(blocks, open) /\ Innermost = open[n]
  BY <1>1 DEF ShapeInv, Innermost
<1>3. /\ open \in Seq(Nat) /\ n \in Nat /\ n \in 2 .. n /\ n \in 1 .. n /\ n - 1 \in 1 .. n
      /\ n - 1 \in 1 .. n - 1
  BY <1>1, <1>2 DEF Nested
<1>4. Len(blocks) \in Nat /\ Innermost \in 1 .. Len(blocks) /\ open[n - 1] \in 0 .. Len(blocks)
      /\ open[n - 1] = blocks[Innermost].parent /\ Last(blocks, Innermost)
  <2>1. Len(blocks) \in Nat
    BY DEF TreeInv
  <2>2. open[n] \in Nat /\ open[n - 1] \in Nat
    BY <1>3, ElementOfSeq
  <2> QED  BY <1>2, <1>3, <2>1, <2>2 DEF Nested
<1>5. /\ Shaped(blocks', defs) /\ SamePrefix(blocks, blocks')
      /\ Len(blocks') = Len(blocks) + 1
      /\ blocks'[k] = Block(open[n - 1], Innermost, kind, e)
  BY <1>1, <1>4, OneBlockMore DEF ShapeInv
<1>6. blocks'[k].parent = open[n - 1] /\ blocks'[k].prev = Innermost
  BY <1>5 DEF Block
<1>7. /\ Nested(blocks, rest) /\ Len(rest) = n - 1
      /\ \A j \in 1 .. n - 1 : rest[j] = open[j]
  BY <1>1, <1>2, NestedPop
<1>8. open' = Append(rest, k)
  <2>1. k \in Nat /\ open' \in Seq(Nat) /\ Len(open') = n
        /\ \A j \in 1 .. n : open'[j] = IF j = n THEN k ELSE open[j]
    BY <1>1, <1>3, <1>4, ExceptSeq
  <2>2. rest \in Seq(Nat)
    BY <1>7 DEF Nested
  <2> HIDE DEF rest, n, k
  <2>3. Append(rest, k) \in Seq(Nat) /\ Len(Append(rest, k)) = n
        /\ \A j \in 1 .. n - 1 : Append(rest, k)[j] = rest[j]
        /\ Append(rest, k)[n] = k
    BY <1>3, <1>7, <2>1, <2>2, AppendProperties
  <2>4. \A j \in 1 .. n : j = n \/ j \in 1 .. n - 1
    BY <1>3
  <2>5. \A j \in 1 .. n : open'[j] = Append(rest, k)[j]
    BY SMTT(30), <1>7, <2>1, <2>3, <2>4
  <2> QED  BY <2>1, <2>3, <2>5, SeqEqual
<1>9. \A j \in 1 .. Len(rest) : blocks'[k].prev # rest[j]
  <2>1. ASSUME NEW j \in 1 .. n - 1 PROVE open[j] < open[n]
    BY <1>2, <1>3 DEF Nested
  <2>2. \A j \in 1 .. n - 1 : open[j] \in Nat
    BY <1>3, ElementOfSeq
  <2>3. \A j \in 1 .. n - 1 : open[j] # open[n]
    BY <1>3, <1>4, <2>1, <2>2, <1>2
  <2> QED  BY <1>2, <1>6, <1>7, <2>3
<1>10. rest[Len(rest)] = open[n - 1]
  BY <1>3, <1>7
<1>11. Nested(blocks', open')
  <2>1. Shaped(blocks, defs)
    BY DEF ShapeInv
  <2> HIDE DEF rest, n
  <2> QED  BY <1>5, <1>6, <1>7, <1>8, <1>9, <1>10, <2>1, NestedPush
<1> QED  BY <1>1, <1>2, <1>5, <1>7, <1>8, <1>11

LEMMA EndifShape ==
    ASSUME TreeInv, ShapeInv, Endif
    PROVE  /\ phase = "read" /\ phase' = "read" /\ defs' = defs /\ blocks' = blocks
           /\ Nested(blocks, open) /\ Len(open) > 1
           /\ open' = SubSeq(open, 1, Len(open) - 1) /\ Nested(blocks, open')
<1>1. /\ phase = "read" /\ phase' = "read" /\ defs' = defs /\ blocks' = blocks /\ Len(open) > 1
      /\ open' = SubSeq(open, 1, Len(open) - 1)
  BY DEF Endif, Read, Asked
<1> QED  BY <1>1, NestedPop DEF ShapeInv

LEMMA DefineShape ==
    ASSUME TreeInv, ShapeInv, NEW s \in Symbols, NEW define \in BOOLEAN, Define(s, define)
    PROVE  LET r == [in |-> Innermost, define |-> define] IN
           /\ phase = "read" /\ phase' = "read" /\ blocks' = blocks /\ open' = open
           /\ Nested(blocks, open) /\ Innermost = open[Len(open)]
           /\ r \in DefineRecord /\ r.in <= Len(blocks)
           /\ defs' = [defs EXCEPT ![s] = Append(defs[s], r)] /\ Shaped(blocks, defs')
<1> DEFINE r == [in |-> Innermost, define |-> define]
<1>1. /\ phase = "read" /\ phase' = "read" /\ blocks' = blocks /\ open' = open
      /\ defs' = [defs EXCEPT ![s] = Append(defs[s], r)]
  BY DEF Define, Read, Asked
<1>2. Nested(blocks, open) /\ Innermost = open[Len(open)]
  BY <1>1 DEF ShapeInv, Innermost
<1>3. r \in DefineRecord /\ r.in <= Len(blocks)
  <2>1. Len(open) \in 1 .. Len(open) /\ open \in Seq(Nat)
    BY <1>2 DEF Nested
  <2>2. Innermost \in Nat /\ Innermost <= Len(blocks)
    BY <1>2, <2>1, ElementOfSeq DEF Nested
  <2> QED  BY <2>2 DEF DefineRecord
<1> HIDE DEF r
<1>4. Shaped(blocks, defs')
  BY <1>1, <1>3, ShapedDefines DEF ShapeInv
<1> QED  BY <1>1, <1>2, <1>3, <1>4 DEF r

\* Every group ends with an #else.
Complete(bs) == \A b \in 1 .. Len(bs) : bs[b].kind = "else" \/ ~Last(bs, b)

LEMMA DecisionShape ==
    ASSUME TreeInv, ShapeInv, DecisionCoverage
    PROVE  /\ phase = "ask" /\ phase' = "ask" /\ defs' = defs /\ file' = file
           /\ calls = <<>> /\ calls' = <<>> /\ visited' = visited /\ clauses' = clauses
           /\ Shaped(blocks', defs) /\ SamePrefix(blocks, blocks') /\ Complete(blocks')
           /\ \A b \in Len(blocks) + 1 .. Len(blocks') :
                blocks'[b].parent <= Len(blocks) /\ blocks'[b].prev <= Len(blocks)
<1> DEFINE Ends == {b \in DOMAIN blocks : LacksElse(b)}
           n == Cardinality(Ends)
           k == Len(blocks)
<1>1. k \in Nat /\ DOMAIN blocks = 1 .. k /\ blocks \in Seq(BlockRecord) /\ Shaped(blocks, defs)
  BY DEF TreeInv, ShapeInv
<1>2. IsFiniteSet(Ends) /\ n \in Nat
  <2>1. IsFiniteSet(1 .. k)
    BY <1>1, FS_Interval
  <2>2. IsFiniteSet(Ends)
    BY <1>1, <2>1, FS_Subset
  <2> QED  BY <2>2, FS_CardinalityType
<1>3. PICK order \in [1 .. n -> Ends] :
        /\ \A b \in Ends : \E i \in DOMAIN order : order[i] = b
        /\ blocks' = blocks \o [i \in 1 .. n |-> Block(blocks[order[i]].parent, order[i], "else", {})]
  BY DEF DecisionCoverage
<1> DEFINE new == [i \in 1 .. n |-> Block(blocks[order[i]].parent, order[i], "else", {})]
<1>4. \A b \in 1 .. k : b \in Ends <=> blocks[b].kind # "else" /\ Last(blocks, b)
  BY <1>1 DEF LacksElse, Last
<1>5. Ends \subseteq 1 .. k
  BY <1>1
<1> HIDE DEF Ends, n
<1>6. \A i, j \in 1 .. n : order[i] = order[j] => i = j
  <2>1. order \in Surjection(1 .. n, Ends)
    BY <1>3 DEF Surjection
  <2>2. IsFiniteSet(1 .. n) /\ Cardinality(1 .. n) = n
    BY <1>2, FS_Interval
  <2>3. order \in Injection(1 .. n, Ends)
    BY <2>1, <2>2, FS_SurjSameCardinalityImpliesInj DEF n
  <2> QED  BY <2>3 DEF Injection, IsInjective
<1>7. ASSUME NEW i \in 1 .. n
      PROVE  /\ order[i] \in 1 .. k /\ blocks[order[i]].parent \in 0 .. k
             /\ Last(blocks, order[i])
  <2>1. order[i] \in 1 .. k /\ Last(blocks, order[i])
    BY <1>3, <1>4, <1>5
  <2>2. blocks[order[i]].parent \in 0 .. order[i] - 1
    BY <1>1, <2>1, ShapedBlock
  <2> QED  BY <1>1, <2>1, <2>2
<1>8. new \in Seq(BlockRecord) /\ Len(new) = n
  <2>1. ASSUME NEW i \in 1 .. n
        PROVE  Block(blocks[order[i]].parent, order[i], "else", {}) \in BlockRecord
    <3>1. order[i] \in 0 .. k /\ order[i] # Top /\ blocks[order[i]].parent \in 0 .. k
      BY <1>1, <1>7 DEF Top
    <3>2. BlockOK(Block(blocks[order[i]].parent, order[i], "else", {}), k)
      BY <1>1, <3>1, BlockFits
    <3> QED  BY <3>2 DEF BlockOK
  <2> QED  BY <1>2, <2>1
<1>9. \A i \in 1 .. n : new[i] = Block(blocks[order[i]].parent, order[i], "else", {})
  OBVIOUS
<1>10. blocks' = blocks \o new
  BY <1>3
<1> HIDE DEF new
<1>11. /\ blocks' \in Seq(BlockRecord) /\ Len(blocks') = k + n
       /\ \A b \in 1 .. k + n : blocks'[b] = IF b <= k THEN blocks[b] ELSE new[b - k]
  BY <1>1, <1>8, <1>10, ConcatProperties
<1> HIDE DEF k
<1>12. SamePrefix(blocks, blocks')
  BY <1>1, <1>2, <1>11 DEF SamePrefix, k
<1>13. ASSUME NEW b \in k + 1 .. Len(blocks')
       PROVE  /\ b - k \in 1 .. n
              /\ blocks'[b] = Block(blocks[order[b - k]].parent, order[b - k], "else", {})
              /\ blocks'[b].prev = order[b - k] /\ blocks'[b].kind = "else"
              /\ blocks'[b].parent = blocks[order[b - k]].parent
  <2>1. b - k \in 1 .. n /\ b \in 1 .. k + n /\ ~(b <= k)
    BY <1>1, <1>2, <1>11
  <2>2. blocks'[b] = Block(blocks[order[b - k]].parent, order[b - k], "else", {})
    BY <1>9, <1>11, <2>1
  <2> QED  BY <2>1, <2>2 DEF Block
<1>14. ASSUME NEW b \in k + 1 .. Len(blocks') PROVE Earlier(blocks', defs, b)
  <2>1. b \in Nat /\ Len(blocks) < b
    BY <1>1, <1>2, <1>11 DEF k
  <2>2. /\ order[b - k] \in 0 .. b - 1 /\ order[b - k] # 0
        /\ blocks[order[b - k]].parent \in 0 .. b - 1
        /\ blocks[order[b - k]].parent = blocks'[order[b - k]].parent
    BY <1>1, <1>2, <1>7, <1>11, <1>13
  <2>3. {} \in SUBSET Literals
    OBVIOUS
  <2> QED  BY <1>1, <1>13, <2>1, <2>2, <2>3, BlockEarlier
<1>15. ASSUME NEW b \in k + 1 .. Len(blocks'), NEW c \in k + 1 .. Len(blocks'),
              blocks'[c].prev = blocks'[b].prev
       PROVE  b = c
  <2>1. b - k = c - k
    BY <1>6, <1>13, <1>15
  <2> QED  BY <1>1, <1>2, <1>11, <2>1
<1>16. Shaped(blocks', defs)
  <2>1. ASSUME NEW b \in k + 1 .. Len(blocks') PROVE Last(blocks, blocks'[b].prev)
    BY <1>7, <1>13
  <2> QED  BY <1>1, <1>11, <1>12, <1>14, <1>15, <2>1, ShapedGrows DEF k
<1>17. ASSUME NEW b \in 1 .. Len(blocks') PROVE blocks'[b].kind = "else" \/ ~Last(blocks', b)
  <2>1. CASE b \in k + 1 .. Len(blocks')
    BY <1>13, <2>1
  <2>2. CASE b \in 1 .. k /\ blocks[b].kind # "else" /\ Last(blocks, b)
    <3>1. PICK i \in 1 .. n : order[i] = b
      BY <1>3, <1>4, <2>2
    <3>2. k + i \in k + 1 .. Len(blocks') /\ k + i \in 1 .. Len(blocks') /\ (k + i) - k = i
      BY <1>1, <1>2, <1>11
    <3>3. blocks'[k + i].prev = b /\ blocks'[k + i].kind # "if"
      BY <1>13, <3>1, <3>2
    <3> QED  BY <3>2, <3>3 DEF Last
  <2>3. CASE b \in 1 .. k /\ blocks[b].kind = "else"
    BY <1>1, <1>2, <1>11, <2>3
  <2>4. CASE b \in 1 .. k /\ ~Last(blocks, b)
    <3>1. PICK c \in 1 .. k : blocks[c].kind # "if" /\ blocks[c].prev = b
      BY <2>4 DEF Last, k
    <3>2. c \in 1 .. Len(blocks') /\ blocks'[c] = blocks[c]
      BY <1>1, <1>2, <1>11
    <3> QED  BY <3>1, <3>2 DEF Last
  <2>5. b \in 1 .. k \/ b \in k + 1 .. Len(blocks')
    BY <1>1, <1>2, <1>11
  <2> QED  BY <2>1, <2>2, <2>3, <2>4, <2>5
<1>18. ASSUME NEW b \in k + 1 .. Len(blocks') PROVE blocks'[b].parent <= k /\ blocks'[b].prev <= k
  BY <1>1, <1>7, <1>13
<1> QED  BY <1>12, <1>16, <1>17, <1>18 DEF DecisionCoverage, Complete, k

\* The tree keeps its shape.
LEMMA ShapeKept ==
    ASSUME TreeInv, ShapeInv, Next \/ UNCHANGED vars
    PROVE  ShapeInv'
<1>1. ASSUME NEW e \in Expressions, OpenIf(e) PROVE ShapeInv'
  <2>1. e \in SUBSET Literals
    BY ExpressionsAssumption
  <2> QED  BY <1>1, <2>1, OpenIfShape DEF ShapeInv
<1>2. ASSUME NEW kind \in {"elif", "else"}, NEW e \in SUBSET Literals,
             kind = "else" => e = {}, Alternative(kind, e)
      PROVE  ShapeInv'
  BY <1>2, AlternativeShape DEF ShapeInv
<1>3. ASSUME NEW e \in Expressions, Elif(e) PROVE ShapeInv'
  <2>1. e \in SUBSET Literals
    BY ExpressionsAssumption
  <2> QED  BY <1>2, <1>3, <2>1 DEF Elif
<1>4. ASSUME Else PROVE ShapeInv'
  BY <1>2, <1>4 DEF Else
<1>5. ASSUME Endif PROVE ShapeInv'
  <2>1. /\ phase' = "read" /\ defs' = defs /\ blocks' = blocks
        /\ Nested(blocks, open')
    BY <1>5, EndifShape
  <2> QED  BY <2>1 DEF ShapeInv
<1>6. ASSUME NEW s \in Symbols, NEW define \in BOOLEAN, Define(s, define) PROVE ShapeInv'
  <2>1. blocks' = blocks /\ open' = open /\ Nested(blocks, open) /\ Shaped(blocks, defs')
    BY <1>6, DefineShape
  <2> QED  BY <2>1 DEF ShapeInv
<1>7. ASSUME EndOfFile PROVE ShapeInv'
  BY <1>7 DEF EndOfFile, ShapeInv
<1>8. ASSUME DecisionCoverage PROVE ShapeInv'
  BY <1>8, DecisionShape DEF ShapeInv
<1>9. ASSUME Tree PROVE ShapeInv'
  BY <1>9 DEF Tree, ShapeInv
<1>10. (\E b \in BlockIds : Ask(b)) \/ Collect \/ UNCHANGED vars => Tree
  BY DEF Ask, Collect, EnterVisited, EnterTop, EnterBlock, StartDefines, CallDefine, DefinesDone,
         FollowDefine, DefineReturns, Leave, vars, Tree
<1> QED  BY <1>1, <1>3, <1>4, <1>5, <1>6, <1>7, <1>8, <1>9, <1>10 DEF Next, Reading

-----------------------------------------------------------------------------
(* The preprocessor's run over the directives read so far is a model of the  *)
(* tree they made: the invariant behind FormulaIsPreprocessor.               *)

Directives ==
    [kind : {"if", "elif", "else", "endif"}, exp : SUBSET Literals]
      \cup [kind : {"define", "undef"}, exp : {{}}, sym : Symbols]

Group == [outer : BOOLEAN, taken : BOOLEAN, on : BOOLEAN]

Knowledge == [val : [Symbols -> BOOLEAN], groups : Seq(Group), last : Nat, on : SUBSET Nat]

\* The first n blocks that are enabled in m are the compiled ones.
SameBlocks(m, n, compiled) ==
    compiled \subseteq 1 .. n /\ \A b \in 1 .. n : m.on[b] <=> b \in compiled

\* What the preprocessor knows of the j-th open block.
GroupMirrors(bs, op, m, j, g) ==
    /\ g.on <=> m.on[op[j]]
    /\ g.taken <=> m.on[op[j]] \/ \E p \in PredsOf(bs)[op[j]] : m.on[p]
    /\ j > 1 => (g.outer <=> m.on[op[j - 1]])

Mirrors(bs, ds, op, m, st) ==
    /\ st \in Knowledge
    /\ SameBlocks(m, Len(bs), st.on)
    /\ st.last = Len(bs) /\ Len(st.groups) = Len(op)
    /\ \A s \in Symbols : st.val[s] = m.val[<<s, Len(ds[s])>>]
    /\ \A j \in 1 .. Len(op) : GroupMirrors(bs, op, m, j, st.groups[j])

\* m extends the configuration c.
Extends(m, c) == \A s \in Symbols : m.val[<<s, 0>>] = c[s]

FileBlocksOf(fl) == Cardinality({i \in DOMAIN fl : fl[i].kind \in {"if", "elif", "else"}})

\* The directives make the blocks, up to the else blocks of decision coverage, which
\* complete every group.
CountInv ==
    /\ file \in Seq(Directives)
    /\ FileBlocksOf(file) <= Len(blocks)
    /\ phase = "read" => FileBlocksOf(file) = Len(blocks)
    /\ Len(blocks) > FileBlocksOf(file) => Complete(blocks)

\* The model m is the run of the preprocessor with the configuration c.
RunsAs(c, m) ==
    /\ IsModel(blocks, defs, m) /\ Extends(m, c)
    /\ phase = "read" => Mirrors(blocks, defs, open, m, Preprocessed(file, c))
    /\ phase # "read" => SameBlocks(m, FileBlocksOf(file), Preprocessed(file, c).on)

MirrorInv == \A c \in [Symbols -> BOOLEAN] : \E m \in Assignments(blocks, defs) : RunsAs(c, m)

LEMMA ShapedBackwards ==
    ASSUME NEW bs, NEW ds, Shaped(bs, ds)
    PROVE  Len(bs) \in Nat /\ Backwards(bs)
<1>1. Len(bs) \in Nat
  BY DEF Shaped
<1> QED  BY <1>1 DEF Shaped, Earlier, Backwards

LEMMA PredsInside ==
    ASSUME NEW bs, NEW ds, Shaped(bs, ds), NEW b \in 0 .. Len(bs), NEW p \in PredsOf(bs)[b]
    PROVE  p \in 1 .. Len(bs) /\ p < b
<1>1. Len(bs) \in Nat /\ Backwards(bs)
  BY ShapedBackwards
<1>3. b # 0
  BY <1>1, PredsEquation DEF PredsStep
<1>4. b \in 1 .. Len(bs)
  BY <1>1, <1>3
<1>5. p \in 1 .. b - 1
  BY <1>4, PredsRange
<1> QED  BY <1>1, <1>4, <1>5

\* Entering a block: what the preprocessor learns of it.
Hit(st, outer, taken, e) == outer /\ ~taken /\ ConditionTrue(e, st.val)

Entered(st, outer, taken, e) ==
    [outer |-> outer, taken |-> taken \/ Hit(st, outer, taken, e), on |-> Hit(st, outer, taken, e)]

LEMMA BranchFields ==
    ASSUME NEW st \in Knowledge, NEW outer \in BOOLEAN, NEW taken \in BOOLEAN, NEW e
    PROVE  /\ Branch(st, outer, taken, e) \in Knowledge
           /\ Branch(st, outer, taken, e).val = st.val
           /\ Branch(st, outer, taken, e).last = st.last + 1
           /\ Hit(st, outer, taken, e) =>
                Branch(st, outer, taken, e).on = st.on \cup {st.last + 1}
           /\ ~Hit(st, outer, taken, e) => Branch(st, outer, taken, e).on = st.on
           /\ Branch(st, outer, taken, e).groups =
                Append(st.groups, Entered(st, outer, taken, e))
           /\ Entered(st, outer, taken, e) \in Group
<1> DEFINE hit == Hit(st, outer, taken, e)
           g == Entered(st, outer, taken, e)
           st2 == Branch(st, outer, taken, e)
<1>1. hit \in BOOLEAN
  BY DEF ConditionTrue, Hit
<1>2. st.groups \in Seq(Group) /\ st.last \in Nat /\ st.on \in SUBSET Nat
      /\ st.val \in [Symbols -> BOOLEAN]
  BY DEF Knowledge
<1>3. st2 = [st EXCEPT !.groups = Append(st.groups, g), !.last = st.last + 1,
                       !.on = IF hit THEN st.on \cup {st.last + 1} ELSE st.on]
  BY DEF Branch, Hit, Entered
<1>4. g \in Group
  BY <1>1 DEF Group, Entered
<1> HIDE DEF hit, g, st2
<1>5. Append(st.groups, g) \in Seq(Group)
  BY <1>2, <1>4, AppendProperties
<1>6. (IF hit THEN st.on \cup {st.last + 1} ELSE st.on) \in SUBSET Nat
  BY <1>2
<1>7. /\ st2 \in Knowledge /\ st2.val = st.val /\ st2.last = st.last + 1
      /\ st2.on = IF hit THEN st.on \cup {st.last + 1} ELSE st.on
      /\ st2.groups = Append(st.groups, g)
  <2>1. st = [val |-> st.val, groups |-> st.groups, last |-> st.last, on |-> st.on]
    BY DEF Knowledge
  <2>2. st2 = [val |-> st.val, groups |-> Append(st.groups, g), last |-> st.last + 1,
               on |-> IF hit THEN st.on \cup {st.last + 1} ELSE st.on]
    BY <1>3, <2>1
  <2> QED  BY <1>2, <1>5, <1>6, <2>2 DEF Knowledge
<1> QED  BY <1>4, <1>7 DEF st2, g, hit

\* The condition e, on the latest versions of its symbols.
LatestOf(ds, e) == {[sym |-> l.sym, ver |-> Len(ds[l.sym]), pos |-> l.pos] : l \in e}

LEMMA BranchMirrors ==
    ASSUME NEW bs, NEW bs2, NEW ds, NEW op, NEW m, NEW st, NEW e \in SUBSET Literals,
           NEW outer \in BOOLEAN, NEW taken \in BOOLEAN,
           Shaped(bs, ds), Shaped(bs2, ds), SamePrefix(bs, bs2), Len(bs2) = Len(bs) + 1,
           Nested(bs, op), IsModel(bs, ds, m), Mirrors(bs, ds, op, m, st),
           bs2[Len(bs) + 1].parent = op[Len(op)], bs2[Len(bs) + 1].prev <= Len(bs),
           bs2[Len(bs) + 1].exp = LatestOf(ds, e),
           outer <=> m.on[op[Len(op)]],
           taken <=> \E p \in PredsOf(bs2)[Len(bs) + 1] : m.on[p]
    PROVE  \E m2 : /\ IsModel(bs2, ds, m2) /\ m2.val = m.val
                   /\ Mirrors(bs2, ds, Append(op, Len(bs) + 1), m2, Branch(st, outer, taken, e))
<1> DEFINE k == Len(bs)
           new == k + 1
           n == Len(op)
           op2 == Append(op, new)
           hit == Hit(st, outer, taken, e)
           g == Entered(st, outer, taken, e)
           st2 == Branch(st, outer, taken, e)
<1>1. k \in Nat /\ Len(bs2) \in Nat /\ Backwards(bs) /\ Backwards(bs2)
  BY ShapedBackwards
<1>2. /\ op \in Seq(Nat) /\ n \in Nat \ {0}
      /\ \A j \in 1 .. n : op[j] \in 0 .. k
  <2>1. op \in Seq(Nat) /\ op # <<>>
    BY DEF Nested
  <2>2. n \in Nat \ {0}
    BY <2>1
  <2>3. \A j \in 1 .. n : op[j] \in Nat
    BY <2>1, ElementOfSeq
  <2> QED  BY <1>1, <2>1, <2>2, <2>3 DEF Nested
<1>3. /\ Len(op2) = n + 1 /\ op2[n + 1] = new
      /\ \A j \in 1 .. n : op2[j] = op[j]
  BY <1>1, <1>2, AppendProperties
<1>4. PICK m2 : /\ IsModel(bs2, ds, m2) /\ m2.val = m.val
                /\ \A b \in 0 .. k : m2.on[b] = m.on[b]
  <2>1. \A b \in k + 1 .. Len(bs2) : bs2[b].parent <= k /\ bs2[b].prev <= k
    <3>1. \A b \in k + 1 .. Len(bs2) : b = new
      BY <1>1
    <3>2. n \in 1 .. n
      BY <1>2
    <3>3. op[n] <= k
      BY <1>1, <1>2, <3>2
    <3> QED  BY <3>1, <3>3
  <2> QED  BY <2>1, ModelGrows
<1> HIDE DEF op2, n
<1>5. /\ st \in Knowledge /\ st.last = k /\ Len(st.groups) = n
      /\ SameBlocks(m, k, st.on)
      /\ \A s \in Symbols : st.val[s] = m.val[<<s, Len(ds[s])>>]
      /\ \A j \in 1 .. n : GroupMirrors(bs, op, m, j, st.groups[j])
  BY DEF Mirrors, n
<1>6. /\ st2 \in Knowledge /\ st2.val = st.val /\ st2.last = new
      /\ st2.on = IF hit THEN st.on \cup {new} ELSE st.on
      /\ Len(st2.groups) = n + 1
      /\ st2.groups[n + 1] = g
      /\ \A j \in 1 .. n : st2.groups[j] = st.groups[j]
  <2>1. /\ st2 \in Knowledge /\ st2.val = st.val /\ st2.last = st.last + 1
        /\ st2.on = IF hit THEN st.on \cup {st.last + 1} ELSE st.on
        /\ Len(st2.groups) = Len(st.groups) + 1
        /\ st2.groups[Len(st.groups) + 1] = g
        /\ \A j \in 1 .. Len(st.groups) : st2.groups[j] = st.groups[j]
    <3>1. st \in Knowledge
      BY <1>5
    <3>2. st2 \in Knowledge /\ st2.groups = Append(st.groups, g)
      BY <3>1, BranchFields
    <3>4. g \in Group /\ st2.val = st.val
      BY <3>1, BranchFields
    <3>5. st2.last = st.last + 1
      BY <3>1, BranchFields
    <3>6. hit => st2.on = st.on \cup {st.last + 1}
      BY <3>1, BranchFields
    <3>7. ~hit => st2.on = st.on
      BY <3>1, BranchFields
    <3>3. st.groups \in Seq(Group)
      BY <3>1 DEF Knowledge
    <3> HIDE DEF hit, g, st2, k, new
    <3>8. st2.on = IF hit THEN st.on \cup {st.last + 1} ELSE st.on
      BY <3>6, <3>7
    <3>9. /\ Len(st2.groups) = Len(st.groups) + 1
          /\ st2.groups[Len(st.groups) + 1] = g
          /\ \A j \in 1 .. Len(st.groups) : st2.groups[j] = st.groups[j]
      BY <3>2, <3>3, <3>4, AppendProperties
    <3> QED  BY <3>2, <3>4, <3>5, <3>8, <3>9
  <2> HIDE DEF k, hit, g, st2
  <2> QED  BY <1>5, <2>1
<1> HIDE DEF st2
<1>7. m2.on[new] <=> hit
  <2>1. new \in 1 .. Len(bs2)
    BY <1>1
  <2>2. m2.on[new] <=> Enabled(bs2, new, m2)
    BY <1>4, <2>1 DEF IsModel
  <2>3. n \in 1 .. n /\ op[n] \in 0 .. k /\ m2.on[op[n]] = m.on[op[n]]
    BY <1>2, <1>4
  <2>4. (bs2[new].parent # 0 => m2.on[bs2[new].parent]) <=> outer
    <3>1. m.on[0]
      BY DEF IsModel
    <3> QED  BY <2>3, <3>1 DEF n
  <2>5. (\A l \in bs2[new].exp : m2.val[<<l.sym, l.ver>>] = l.pos) <=> ConditionTrue(e, st.val)
    <3>1. \A l \in e : l.sym \in Symbols
      BY DEF Literals
    <3>2. (\A l \in bs2[new].exp : m2.val[<<l.sym, l.ver>>] = l.pos)
          <=> \A l \in e : m.val[<<l.sym, Len(ds[l.sym])>>] = l.pos
      <4> DEFINE made(l) == [sym |-> l.sym, ver |-> Len(ds[l.sym]), pos |-> l.pos]
      <4>1. \A l : made(l).sym = l.sym /\ made(l).ver = Len(ds[l.sym]) /\ made(l).pos = l.pos
        OBVIOUS
      <4>2. bs2[new].exp = {made(l) : l \in e}
        BY DEF LatestOf
      <4> HIDE DEF made
      <4>3. (\A l \in bs2[new].exp : m2.val[<<l.sym, l.ver>>] = l.pos)
            <=> \A l \in e : m2.val[<<made(l).sym, made(l).ver>>] = made(l).pos
        BY <4>2
      <4> QED  BY <1>4, <4>1, <4>3
    <3> QED  BY <1>5, <3>1, <3>2 DEF ConditionTrue
  <2>6. (\A p \in PredsOf(bs2)[new] : ~m2.on[p]) <=> ~taken
    <3>1. \A p \in PredsOf(bs2)[new] : p \in 0 .. k
      <4>1. ASSUME NEW p \in PredsOf(bs2)[new] PROVE p \in 0 .. k
        <5>1. p \in 1 .. new - 1
          BY <2>1, <4>1, PredsRange
        <5> QED  BY <1>1, <5>1
      <4> QED  BY <4>1
    <3> QED  BY <1>4, <3>1
  <2> QED  BY <2>2, <2>4, <2>5, <2>6 DEF Enabled, Hit
<1>8. SameBlocks(m2, Len(bs2), st2.on)
  <2>1. st.on \subseteq 1 .. k /\ \A b \in 1 .. k : m.on[b] <=> b \in st.on
    BY <1>5 DEF SameBlocks
  <2>2. st2.on \subseteq 1 .. new
    BY <1>1, <1>6, <2>1
  <2>3. ASSUME NEW b \in 1 .. new PROVE m2.on[b] <=> b \in st2.on
    <3>1. CASE b = new
      <4>1. new \notin st.on
        BY <1>1, <2>1
      <4> HIDE DEF new, hit
      <4> QED  BY <1>6, <1>7, <3>1, <4>1
    <3>2. CASE b # new
      <4>1. b \in 1 .. k /\ b \in 0 .. k
        BY <1>1, <3>2
      <4>2. b \in st2.on <=> b \in st.on
        BY <1>6, <3>2
      <4> QED  BY <1>4, <2>1, <4>1, <4>2
    <3> QED  BY <3>1, <3>2
  <2> QED  BY <2>2, <2>3 DEF SameBlocks
<1>9. ASSUME NEW j \in 1 .. n PROVE GroupMirrors(bs2, op2, m2, j, st2.groups[j])
  <2>1. GroupMirrors(bs, op, m, j, st.groups[j])
    BY <1>5
  <2>2. /\ op2[j] = op[j] /\ op[j] \in 0 .. k /\ m2.on[op[j]] = m.on[op[j]]
        /\ st2.groups[j] = st.groups[j]
    BY <1>2, <1>3, <1>4, <1>6
  <2>3. j > 1 => op2[j - 1] = op[j - 1] /\ m2.on[op[j - 1]] = m.on[op[j - 1]]
    <3>1. j > 1 => j - 1 \in 1 .. n
      BY <1>2
    <3> QED  BY <1>2, <1>3, <1>4, <3>1
  <2>4. PredsOf(bs2)[op[j]] = PredsOf(bs)[op[j]]
    BY <1>1, <2>2, PredsGrow
  <2>5. \A p \in PredsOf(bs)[op[j]] : m2.on[p] = m.on[p]
    <3>1. \A p \in PredsOf(bs)[op[j]] : p \in 1 .. k
      BY <2>2, PredsInside
    <3>2. \A p \in 1 .. k : p \in 0 .. k
      BY <1>1
    <3> QED  BY <1>4, <3>1, <3>2
  <2> QED  BY <2>1, <2>2, <2>3, <2>4, <2>5 DEF GroupMirrors
<1>10. GroupMirrors(bs2, op2, m2, n + 1, st2.groups[n + 1])
  <2>1. n \in 1 .. n /\ (n + 1) - 1 = n /\ op2[n] = op[n] /\ op[n] \in 0 .. k
    BY <1>2, <1>3
  <2>2. m2.on[op[n]] <=> outer
    BY <1>4, <2>1 DEF n
  <2>3. \A p \in PredsOf(bs2)[new] : m2.on[p] = m.on[p]
    <3>1. new \in 1 .. Len(bs2)
      BY <1>1
    <3>2. \A p \in PredsOf(bs2)[new] : p \in 1 .. new - 1
      BY <3>1, PredsRange
    <3>3. \A p \in 1 .. new - 1 : p \in 0 .. k
      BY <1>1
    <3> QED  BY <1>4, <3>2, <3>3
  <2>4. /\ g.on <=> m2.on[new]
        /\ g.taken <=> m2.on[new] \/ \E p \in PredsOf(bs2)[new] : m2.on[p]
        /\ g.outer <=> m2.on[op2[n]]
    <3>1. taken <=> \E p \in PredsOf(bs2)[new] : m2.on[p]
      BY <2>3
    <3>2. g.on = hit /\ g.taken = (taken \/ hit) /\ g.outer = outer
      BY DEF Entered
    <3> HIDE DEF hit, g
    <3> QED  BY <1>7, <2>1, <2>2, <3>1, <3>2
  <2> HIDE DEF new, g, k
  <2> QED  BY <1>3, <1>6, <2>1, <2>4 DEF GroupMirrors
<1>11. \A j \in 1 .. Len(op2) : GroupMirrors(bs2, op2, m2, j, st2.groups[j])
  <2>1. \A j \in 1 .. Len(op2) : j \in 1 .. n \/ j = n + 1
    BY <1>2, <1>3
  <2> QED  BY <1>9, <1>10, <2>1
<1>12. \A s \in Symbols : st2.val[s] = m2.val[<<s, Len(ds[s])>>]
  BY <1>4, <1>5, <1>6
<1>13. Mirrors(bs2, ds, op2, m2, st2)
  <2> HIDE DEF g, hit
  <2> QED  BY <1>3, <1>6, <1>8, <1>11, <1>12 DEF Mirrors
<1> QED  BY <1>4, <1>13 DEF st2, op2

\* Leaving the innermost block: the preprocessor forgets its group.
Under(st) == [st EXCEPT !.groups = SubSeq(@, 1, Len(@) - 1)]

LEMMA PopMirrors ==
    ASSUME NEW bs, NEW ds, NEW op, NEW m, NEW st,
           Nested(bs, op), Len(op) > 1, Mirrors(bs, ds, op, m, st)
    PROVE  Mirrors(bs, ds, SubSeq(op, 1, Len(op) - 1), m, Under(st))
<1> DEFINE n == Len(op) - 1
           op2 == SubSeq(op, 1, n)
           gs == SubSeq(st.groups, 1, n)
           st2 == Under(st)
<1>1. op \in Seq(Nat) /\ n \in Nat \ {0} /\ Len(op) = n + 1
  BY DEF Nested
<1>2. Len(op2) = n /\ \A j \in 1 .. n : op2[j] = op[j]
  BY <1>1
<1>3. st \in Knowledge /\ Len(st.groups) = Len(op)
  BY DEF Mirrors
<1>4. st.groups \in Seq(Group)
  BY <1>3 DEF Knowledge
<1>5. gs \in Seq(Group) /\ Len(gs) = n /\ \A j \in 1 .. n : gs[j] = st.groups[j]
  BY <1>1, <1>3, <1>4
<1>6. st2 = [st EXCEPT !.groups = gs]
  BY <1>3 DEF Under
<1> HIDE DEF gs, st2, op2, n
<1>7. st2 \in Knowledge /\ st2.groups = gs
  BY <1>3, <1>5, <1>6 DEF Knowledge
<1>8. st2.val = st.val /\ st2.last = st.last /\ st2.on = st.on
  BY <1>3, <1>6 DEF Knowledge
<1>9. ASSUME NEW j \in 1 .. n PROVE GroupMirrors(bs, op2, m, j, st2.groups[j])
  <2>1. GroupMirrors(bs, op, m, j, st.groups[j]) /\ op2[j] = op[j] /\ st2.groups[j] = st.groups[j]
    BY SMTT(30), <1>1, <1>2, <1>5, <1>7 DEF Mirrors
  <2>2. j > 1 => op2[j - 1] = op[j - 1]
    BY <1>1, <1>2
  <2> QED  BY <2>1, <2>2 DEF GroupMirrors
<1>10. Mirrors(bs, ds, op2, m, st2)
  BY <1>2, <1>5, <1>7, <1>8, <1>9 DEF Mirrors
<1> QED  BY <1>10 DEF op2, st2, n

\* A #define or #undef in the innermost block: the versions, and what the preprocessor
\* learns of it.
OneMore(ds, s, b, d) == [ds EXCEPT ![s] = Append(ds[s], [in |-> b, define |-> d])]

Told(st, s, d) == IF st.groups[Len(st.groups)].on THEN [st EXCEPT !.val[s] = d] ELSE st

LEMMA DefineMirrors ==
    ASSUME NEW bs, NEW ds, NEW m, NEW s \in Symbols,
           Shaped(bs, ds), IsModel(bs, ds, m), NEW op, NEW st, NEW d \in BOOLEAN,
           Nested(bs, op), Mirrors(bs, ds, op, m, st)
    PROVE  \E m2 : /\ IsModel(bs, OneMore(ds, s, op[Len(op)], d), m2)
                   /\ Mirrors(bs, OneMore(ds, s, op[Len(op)], d), op, m2, Told(st, s, d))
                   /\ \A t \in Symbols : m2.val[<<t, 0>>] = m.val[<<t, 0>>]
<1>0. ASSUME NEW q \in DefineRecord, q.in <= Len(bs)
      PROVE  \E m2 : /\ IsModel(bs, [ds EXCEPT ![s] = Append(ds[s], q)], m2)
                     /\ DefinedFrom(ds, s, q, m, m2)
  BY <1>0, ModelDefines
<1> DEFINE n == Len(op)
           r == [in |-> op[n], define |-> d]
           ds2 == [ds EXCEPT ![s] = Append(ds[s], r)]
           on == st.groups[Len(st.groups)].on
           st2 == IF on THEN [st EXCEPT !.val[s] = d] ELSE st
           k == Len(ds[s])
<1>1. n \in 1 .. n /\ op[n] \in Nat /\ op[n] <= Len(bs)
  <2>1. op \in Seq(Nat) /\ op # <<>>
    BY DEF Nested
  <2>2. n \in 1 .. n
    BY <2>1
  <2> QED  BY <2>1, <2>2, ElementOfSeq DEF Nested
<1>2. r \in DefineRecord /\ r.in = op[n] /\ r.define = d
  BY <1>1 DEF DefineRecord
<1>3. /\ st \in Knowledge /\ Len(st.groups) = n
      /\ SameBlocks(m, Len(bs), st.on) /\ st.last = Len(bs)
      /\ \A t \in Symbols : st.val[t] = m.val[<<t, Len(ds[t])>>]
      /\ \A j \in 1 .. n : GroupMirrors(bs, op, m, j, st.groups[j])
  BY DEF Mirrors
<1>4. on <=> m.on[op[n]]
  BY <1>1, <1>3 DEF GroupMirrors
<1>5. /\ k \in Nat /\ ds \in [Symbols -> Seq(DefineRecord)]
      /\ \A t \in Symbols : Len(ds[t]) \in Nat
  BY DEF Shaped
<1>6. /\ \A t \in Symbols : t # s => ds2[t] = ds[t]
      /\ Len(ds2[s]) = k + 1
  BY <1>2, <1>5
<1>7. PICK m2 : IsModel(bs, ds2, m2) /\ DefinedFrom(ds, s, r, m, m2)
  <2>1. r.in <= Len(bs)
    BY <1>1, <1>2
  <2> HIDE DEF r
  <2> QED  BY <1>0, <1>2, <2>1
<1>8. /\ m2.on = m.on
      /\ \A v \in VersionsOf(ds) : m2.val[v] = m.val[v]
      /\ m.on[r.in] => m2.val[<<s, k + 1>>] = r.define
      /\ ~m.on[r.in] => m2.val[<<s, k + 1>>] = m.val[<<s, k>>]
  BY <1>7 DEF DefinedFrom
<1> HIDE DEF r, ds2, n, k, on
<1>9. ASSUME NEW t \in Symbols, NEW i \in 0 .. Len(ds[t]) PROVE m2.val[<<t, i>>] = m.val[<<t, i>>]
  BY <1>8, VersionIn
<1>10. \A t \in Symbols : m2.val[<<t, 0>>] = m.val[<<t, 0>>]
  BY <1>5, <1>9
<1>11. st2 \in Knowledge /\ st2.groups = st.groups /\ st2.last = st.last /\ st2.on = st.on
  <2>1. st.val \in [Symbols -> BOOLEAN]
    BY <1>3 DEF Knowledge
  <2>2. [st.val EXCEPT ![s] = d] \in [Symbols -> BOOLEAN]
    BY <2>1
  <2>3. [st EXCEPT !.val[s] = d] = [st EXCEPT !.val = [st.val EXCEPT ![s] = d]]
    BY <1>3 DEF Knowledge
  <2>4. CASE on
    BY <1>3, <2>2, <2>3, <2>4 DEF Knowledge
  <2>5. CASE ~on
    BY <1>3, <2>5
  <2> QED  BY <2>4, <2>5
<1>12. ASSUME NEW t \in Symbols PROVE st2.val[t] = m2.val[<<t, Len(ds2[t])>>]
  <2>1. CASE t # s
    <3>1. st2.val[t] = st.val[t]
      BY <1>3, <2>1 DEF Knowledge
    <3>2. m2.val[<<t, Len(ds[t])>>] = m.val[<<t, Len(ds[t])>>]
      BY <1>5, <1>9
    <3> QED  BY <1>3, <1>6, <2>1, <3>1, <3>2
  <2>2. CASE t = s /\ on
    <3>1. st2.val[s] = d
      BY <1>3, <2>2 DEF Knowledge
    <3>2. m2.val[<<s, k + 1>>] = d
      BY <1>2, <1>4, <1>8, <2>2
    <3> QED  BY <1>6, <2>2, <3>1, <3>2
  <2>3. CASE t = s /\ ~on
    <3>1. st2.val[s] = m.val[<<s, k>>]
      BY <1>3, <2>3 DEF k
    <3>2. m2.val[<<s, k + 1>>] = m.val[<<s, k>>]
      BY <1>2, <1>4, <1>8, <2>3
    <3> QED  BY <1>6, <2>3, <3>1, <3>2
  <2> QED  BY <2>1, <2>2, <2>3
<1> HIDE DEF st2
<1>13. SameBlocks(m2, Len(bs), st2.on)
  BY <1>3, <1>8, <1>11 DEF SameBlocks
<1>14. \A j \in 1 .. n : GroupMirrors(bs, op, m2, j, st2.groups[j])
  BY <1>3, <1>8, <1>11 DEF GroupMirrors
<1>15. Mirrors(bs, ds2, op, m2, st2)
  BY <1>3, <1>11, <1>12, <1>13, <1>14 DEF Mirrors, n
<1> QED  BY <1>7, <1>10, <1>15 DEF ds2, st2, r, n, on, OneMore, Told

\* Before the first directive.
LEMMA StartMirrors ==
    ASSUME NEW c \in [Symbols -> BOOLEAN], NEW bs, bs = <<>>,
           NEW ds, ds = [s \in Symbols |-> <<>>], NEW op, op = << 0 >>
    PROVE  \E m : IsModel(bs, ds, m) /\ Extends(m, c) /\ Mirrors(bs, ds, op, m, Start(c))
<1> DEFINE m == [on |-> [b \in 0 .. 0 |-> TRUE], val |-> [v \in VersionsOf(ds) |-> c[v[1]]]]
           g == [outer |-> TRUE, taken |-> TRUE, on |-> TRUE]
<1>1. Len(bs) = 0 /\ \A s \in Symbols : Len(ds[s]) = 0 /\ ds[s] = <<>>
  OBVIOUS
<1>2. Len(op) = 1 /\ op[1] = 0
  OBVIOUS
<1>3. \A v \in VersionsOf(ds) : c[v[1]] \in BOOLEAN
  <2>1. ASSUME NEW v \in VersionsOf(ds) PROVE v[1] \in Symbols
    <3>1. PICK s \in Symbols : \E n \in 0 .. Len(ds[s]) : v = <<s, n>>
      BY VersionIn
    <3> QED  BY <3>1
  <2> QED  BY <2>1
<1>4. m.val \in [VersionsOf(ds) -> BOOLEAN]
  BY <1>3
<1>5. \A s \in Symbols : m.val[<<s, 0>>] = c[s]
  <2>1. ASSUME NEW s \in Symbols PROVE <<s, 0>> \in VersionsOf(ds) /\ <<s, 0>>[1] = s
    BY <1>1, VersionIn
  <2> QED  BY <2>1
<1>6. m.on \in [0 .. 0 -> BOOLEAN] /\ m.on[0]
  OBVIOUS
<1>7. m \in Assignments(bs, ds)
  <2>1. m = [on |-> m.on, val |-> m.val]
    OBVIOUS
  <2> HIDE DEF m
  <2> QED  BY <1>1, <1>4, <1>6, <2>1 DEF Assignments
<1> HIDE DEF m
<1>8. IsModel(bs, ds, m)
  <2>1. \A b \in 1 .. Len(bs) : FALSE
    BY <1>1
  <2>2. \A s \in Symbols : \A n \in 1 .. Len(ds[s]) : FALSE
    BY <1>1
  <2> HIDE <1>1
  <2> QED  BY <1>6, <1>7, <2>1, <2>2 DEF IsModel
<1>9. Start(c) \in Knowledge /\ Len(Start(c).groups) = 1 /\ Start(c).groups[1] = g
      /\ Start(c).last = 0 /\ Start(c).on = {} /\ Start(c).val = c
  BY DEF Start, Knowledge, Group
<1>10. GroupMirrors(bs, op, m, 1, Start(c).groups[1])
  BY <1>2, <1>6, <1>9 DEF GroupMirrors
<1>11. SameBlocks(m, Len(bs), Start(c).on)
  BY <1>1, <1>9 DEF SameBlocks
<1>12. \A j \in 1 .. Len(op) : GroupMirrors(bs, op, m, j, Start(c).groups[j])
  BY <1>2, <1>10
<1>13. Mirrors(bs, ds, op, m, Start(c))
  BY <1>1, <1>2, <1>5, <1>9, <1>11, <1>12 DEF Mirrors
<1> QED  BY <1>5, <1>8, <1>13 DEF Extends

\* One directive more.
LEMMA FileBlocksNext ==
    ASSUME NEW fl \in Seq(Directives), NEW d \in Directives
    PROVE  /\ FileBlocksOf(fl) \in Nat
           /\ FileBlocksOf(Append(fl, d)) =
                IF d.kind \in {"if", "elif", "else"} THEN FileBlocksOf(fl) + 1 ELSE FileBlocksOf(fl)
<1> DEFINE K == {"if", "elif", "else"}
           B == {i \in DOMAIN fl : fl[i].kind \in K}
           gl == Append(fl, d)
           B2 == {i \in DOMAIN gl : gl[i].kind \in K}
           n == Len(fl)
<1>1. /\ n \in Nat /\ DOMAIN fl = 1 .. n /\ DOMAIN gl = 1 .. n + 1
      /\ gl[n + 1] = d /\ \A i \in 1 .. n : gl[i] = fl[i]
  BY AppendProperties
<1>2. IsFiniteSet(B) /\ Cardinality(B) \in Nat
  <2>1. IsFiniteSet(1 .. n)
    BY <1>1, FS_Interval
  <2>2. IsFiniteSet(B)
    BY <1>1, <2>1, FS_Subset
  <2> QED  BY <2>2, FS_CardinalityType
<1>3. n + 1 \notin B
  BY <1>1
<1>4. B2 = IF d.kind \in K THEN B \cup {n + 1} ELSE B
  <2>1. ASSUME NEW i \in B2 PROVE i \in B \/ (i = n + 1 /\ d.kind \in K)
    <3>1. i \in 1 .. n \/ i = n + 1
      BY <1>1
    <3> QED  BY <1>1, <3>1
  <2>2. \A i \in B : i \in B2
    BY <1>1
  <2>3. d.kind \in K => n + 1 \in B2
    BY <1>1
  <2> HIDE DEF B, B2, K
  <2>4. CASE d.kind \in K
    BY <2>1, <2>2, <2>3, <2>4
  <2>5. CASE d.kind \notin K
    BY <2>1, <2>2, <2>5
  <2> QED  BY <2>4, <2>5
<1> HIDE DEF B, B2
<1>5. Cardinality(B2) = IF d.kind \in K THEN Cardinality(B) + 1 ELSE Cardinality(B)
  <2>1. Cardinality(B \cup {n + 1}) = Cardinality(B) + 1
    BY <1>2, <1>3, FS_AddElement
  <2> HIDE DEF K
  <2> QED  BY <1>4, <2>1
<1> QED  BY <1>2, <1>5 DEF FileBlocksOf, B, B2

-----------------------------------------------------------------------------
(* Reading keeps the run a model.                                            *)

\* A step that reads a directive keeps the invariants, once every model of the tree that
\* is the preprocessor's run extends to one of the tree after the step.
LEMMA ReadMirrors ==
    ASSUME CountInv, MirrorInv, phase = "read", phase' = "read",
           NEW d \in Directives, file' = Append(file, d),
           d.kind \in {"if", "elif", "else"} => Len(blocks') = Len(blocks) + 1,
           d.kind \notin {"if", "elif", "else"} => Len(blocks') = Len(blocks),
           \A m, st : IsModel(blocks, defs, m) /\ Mirrors(blocks, defs, open, m, st) =>
             \E m2 : /\ IsModel(blocks', defs', m2)
                     /\ Mirrors(blocks', defs', open', m2, Directive(st, d))
                     /\ \A s \in Symbols : m2.val[<<s, 0>>] = m.val[<<s, 0>>]
    PROVE  CountInv' /\ MirrorInv'
<1>1. file \in Seq(Directives) /\ FileBlocksOf(file) = Len(blocks)
  BY DEF CountInv
<1>2. file' \in Seq(Directives)
  BY <1>1, AppendProperties
<1>3. FileBlocksOf(file') = Len(blocks') /\ FileBlocksOf(file') \in Nat
  <2>1. FileBlocksOf(file) \in Nat
        /\ FileBlocksOf(Append(file, d)) =
             IF d.kind \in {"if", "elif", "else"} THEN FileBlocksOf(file) + 1 ELSE FileBlocksOf(file)
    BY <1>1, FileBlocksNext
  <2>2. FileBlocksOf(file') = FileBlocksOf(Append(file, d))
    OBVIOUS
  <2> QED  BY <1>1, <2>1, <2>2
<1>4. CountInv'
  <2>1. FileBlocksOf(file)' = FileBlocksOf(file')
    BY DEF FileBlocksOf
  <2> QED  BY <1>2, <1>3, <2>1 DEF CountInv
<1>5. ASSUME NEW c \in [Symbols -> BOOLEAN]
      PROVE  \E m2 : /\ IsModel(blocks', defs', m2) /\ Extends(m2, c)
                     /\ Mirrors(blocks', defs', open', m2, Preprocessed(file', c))
  <2>1. PICK m : /\ IsModel(blocks, defs, m) /\ Extends(m, c)
                 /\ Mirrors(blocks, defs, open, m, Preprocessed(file, c))
    BY DEF MirrorInv, RunsAs
  <2>2. PICK m2 : /\ IsModel(blocks', defs', m2)
                  /\ Mirrors(blocks', defs', open', m2, Directive(Preprocessed(file, c), d))
                  /\ \A s \in Symbols : m2.val[<<s, 0>>] = m.val[<<s, 0>>]
    BY <2>1
  <2>3. Preprocessed(file', c) = Directive(Preprocessed(file, c), d)
    BY <1>1, PreprocessedNext
  <2>4. Extends(m2, c)
    BY <2>1, <2>2 DEF Extends
  <2> QED  BY <2>2, <2>3, <2>4
<1>6. MirrorInv'
  <2>1. ASSUME NEW c \in [Symbols -> BOOLEAN]
        PROVE  \E m \in Assignments(blocks', defs') : RunsAs(c, m)'
    <3>1. PICK m2 : /\ IsModel(blocks', defs', m2) /\ Extends(m2, c)
                    /\ Mirrors(blocks', defs', open', m2, Preprocessed(file', c))
      BY <1>5
    <3>2. m2 \in Assignments(blocks', defs')
      BY <3>1 DEF IsModel
    <3>3. RunsAs(c, m2)'
      BY <3>1 DEF RunsAs
    <3> QED  BY <3>2, <3>3
  <2> QED  BY <2>1 DEF MirrorInv
<1> QED  BY <1>4, <1>6

\* What the preprocessor does with a directive of each kind.
LEMMA DirectiveIs ==
    ASSUME NEW st, NEW e, NEW kind
    PROVE  LET d == [kind |-> kind, exp |-> e]
               group == st.groups[Len(st.groups)]
           IN  /\ kind = "if" => Directive(st, d) = Branch(st, group.on, FALSE, e)
               /\ kind \in {"elif", "else"} =>
                    Directive(st, d) = Branch(Under(st), group.outer, group.taken, e)
               /\ kind = "endif" => Directive(st, d) = Under(st)
<1> DEFINE d == [kind |-> kind, exp |-> e]
<1>1. d.kind = kind /\ d.exp = e
  OBVIOUS
<1> HIDE DEF d
<1>2. CASE kind = "if"
  BY <1>1, <1>2 DEF Directive, d
<1>3. CASE kind \in {"elif", "else"}
  BY <1>1, <1>3 DEF Directive, Under, d
<1>4. CASE kind = "endif"
  BY <1>1, <1>4 DEF Directive, Under, d
<1> QED  BY <1>2, <1>3, <1>4 DEF d

\* The group of the innermost block.
LEMMA InnermostMirrors ==
    ASSUME NEW bs, NEW ds, NEW op, NEW m, NEW st, Nested(bs, op), Mirrors(bs, ds, op, m, st)
    PROVE  LET group == st.groups[Len(st.groups)] IN
           /\ group \in Group
           /\ GroupMirrors(bs, op, m, Len(op), group)
<1>1. op \in Seq(Nat) /\ op # <<>>
  BY DEF Nested
<1>2. Len(op) \in 1 .. Len(op)
  BY <1>1
<1>3. st.groups \in Seq(Group) /\ Len(st.groups) = Len(op)
  BY DEF Mirrors, Knowledge
<1>4. st.groups[Len(op)] \in Group
  BY <1>2, <1>3, ElementOfSeq
<1> QED  BY <1>2, <1>3, <1>4 DEF Mirrors

LEMMA OpenIfMirrors ==
    ASSUME TreeInv, ShapeInv, CountInv, MirrorInv, NEW e \in SUBSET Literals, OpenIf(e)
    PROVE  CountInv' /\ MirrorInv'
<1> DEFINE d == [kind |-> "if", exp |-> e]
           new == Len(blocks) + 1
<1>1. /\ phase = "read" /\ phase' = "read" /\ defs' = defs
      /\ Nested(blocks, open) /\ Innermost = open[Len(open)]
      /\ Shaped(blocks', defs) /\ SamePrefix(blocks, blocks')
      /\ Len(blocks') = new
      /\ blocks'[new] = Block(Innermost, 0, "if", e)
      /\ open' = Append(open, new)
  BY OpenIfShape
<1>2. d \in Directives /\ file' = Append(file, d)
  BY DEF Directives, OpenIf, Read
<1>3. Shaped(blocks, defs)
  BY DEF ShapeInv
<1>4. /\ blocks'[new].parent = open[Len(open)] /\ blocks'[new].prev = 0
      /\ blocks'[new].kind = "if"
      /\ blocks'[new].exp = LatestOf(defs, e)
  BY <1>1 DEF Block, Rewritten, LatestOf
<1>5. PredsOf(blocks')[new] = {}
  <2>1. Backwards(blocks') /\ Len(blocks') \in Nat
    BY <1>1, ShapedBackwards
  <2>2. new \in 0 .. Len(blocks')
    BY <1>1, <2>1
  <2> QED  BY <1>4, <2>1, <2>2, PredsEquation DEF PredsStep
<1>6. ASSUME NEW m, NEW st, IsModel(blocks, defs, m), Mirrors(blocks, defs, open, m, st)
      PROVE  \E m2 : /\ IsModel(blocks', defs', m2)
                     /\ Mirrors(blocks', defs', open', m2, Directive(st, d))
                     /\ \A s \in Symbols : m2.val[<<s, 0>>] = m.val[<<s, 0>>]
  <2> DEFINE outer == st.groups[Len(st.groups)].on
  <2>1. outer \in BOOLEAN /\ (outer <=> m.on[open[Len(open)]])
    BY <1>1, <1>6, InnermostMirrors DEF Group, GroupMirrors
  <2>2. Directive(st, d) = Branch(st, outer, FALSE, e)
    BY DirectiveIs
  <2>3. FALSE <=> \E p \in PredsOf(blocks')[new] : m.on[p]
    BY <1>5
  <2>4. Len(blocks) \in Nat
    BY <1>3, ShapedBackwards
  <2>5. PICK taken \in BOOLEAN : taken = FALSE
    OBVIOUS
  <2>6. blocks'[new].prev <= Len(blocks)
    BY <1>4, <2>4
  <2>7. taken <=> \E p \in PredsOf(blocks')[new] : m.on[p]
    BY <2>3, <2>5
  <2> HIDE DEF outer
  <2>8. \E m2 : /\ IsModel(blocks', defs, m2) /\ m2.val = m.val
                /\ Mirrors(blocks', defs, Append(open, new), m2, Branch(st, outer, taken, e))
    BY <1>1, <1>3, <1>4, <1>6, <2>1, <2>6, <2>7, BranchMirrors
  <2> QED  BY <1>1, <2>2, <2>5, <2>8
<1>7. d.kind = "if"
  OBVIOUS
<1> HIDE DEF d, new
<1> QED  BY <1>1, <1>2, <1>6, <1>7, ReadMirrors DEF new

LEMMA AlternativeMirrors ==
    ASSUME TreeInv, ShapeInv, CountInv, MirrorInv, NEW kind \in {"elif", "else"},
           NEW e \in SUBSET Literals, kind = "else" => e = {}, Alternative(kind, e)
    PROVE  CountInv' /\ MirrorInv'
<1> DEFINE d == [kind |-> kind, exp |-> e]
           new == Len(blocks) + 1
           n == Len(open)
           rest == SubSeq(open, 1, n - 1)
<1>1. /\ phase = "read" /\ phase' = "read" /\ defs' = defs
      /\ Nested(blocks, open) /\ Innermost = open[n] /\ n > 1
      /\ Shaped(blocks', defs) /\ SamePrefix(blocks, blocks')
      /\ Len(blocks') = new
      /\ blocks'[new] = Block(open[n - 1], Innermost, kind, e)
      /\ Nested(blocks, rest)
      /\ open' = Append(rest, new)
  BY AlternativeShape
<1>2. d \in Directives /\ file' = Append(file, d)
  BY DEF Directives, Alternative, Read
<1>3. Shaped(blocks, defs)
  BY DEF ShapeInv
<1>4. n \in Nat \ {0} /\ open \in Seq(Nat) /\ open[n] \in 0 .. Len(blocks)
  <2>1. open \in Seq(Nat) /\ open # <<>>
    BY <1>1 DEF Nested
  <2>2. n \in 1 .. n
    BY <2>1
  <2>3. open[n] \in Nat
    BY <2>1, <2>2, ElementOfSeq
  <2>4. Len(blocks) \in Nat /\ open[n] <= Len(blocks)
    BY <1>1, <1>3, <2>2, ShapedBackwards DEF Nested
  <2> QED  BY <2>1, <2>2, <2>3, <2>4
<1>5. Len(rest) = n - 1 /\ rest[n - 1] = open[n - 1]
  BY <1>1, <1>4
<1>6. /\ blocks'[new].parent = rest[Len(rest)] /\ blocks'[new].prev = open[n]
      /\ blocks'[new].kind = kind /\ kind # "if"
      /\ blocks'[new].exp = LatestOf(defs, e)
  BY <1>1, <1>5 DEF Block, Rewritten, LatestOf
<1>7. PredsOf(blocks')[new] = {open[n]} \cup PredsOf(blocks)[open[n]]
  <2>1. Backwards(blocks') /\ Len(blocks') \in Nat /\ Backwards(blocks) /\ Len(blocks) \in Nat
    BY <1>1, <1>3, ShapedBackwards
  <2>2. new \in 0 .. Len(blocks') /\ new # 0
    BY <1>1, <2>1
  <2>3. PredsOf(blocks')[open[n]] = PredsOf(blocks)[open[n]]
    BY <1>1, <1>4, <2>1, PredsGrow
  <2>4. PredsOf(blocks')[new] = PredsStep(blocks', PredsOf(blocks'), new)
    BY <2>1, <2>2, PredsEquation
  <2> QED  BY <1>6, <2>2, <2>3, <2>4 DEF PredsStep
<1> HIDE DEF rest
<1>8. ASSUME NEW m, NEW st, IsModel(blocks, defs, m), Mirrors(blocks, defs, open, m, st)
      PROVE  \E m2 : /\ IsModel(blocks', defs', m2)
                     /\ Mirrors(blocks', defs', open', m2, Directive(st, d))
                     /\ \A s \in Symbols : m2.val[<<s, 0>>] = m.val[<<s, 0>>]
  <2> DEFINE group == st.groups[Len(st.groups)]
             outer == group.outer
             taken == group.taken
             under == Under(st)
  <2>1. group \in Group /\ GroupMirrors(blocks, open, m, n, group)
    BY <1>1, <1>8, InnermostMirrors
  <2>2. outer \in BOOLEAN /\ taken \in BOOLEAN
    BY <2>1 DEF Group
  <2>3. outer <=> m.on[rest[Len(rest)]]
    BY <1>1, <1>5, <2>1 DEF GroupMirrors
  <2>4. taken <=> \E p \in PredsOf(blocks')[new] : m.on[p]
    BY <1>7, <2>1 DEF GroupMirrors
  <2>5. Mirrors(blocks, defs, rest, m, under)
    BY <1>1, <1>8, PopMirrors DEF rest
  <2>6. Directive(st, d) = Branch(under, outer, taken, e)
    BY DirectiveIs
  <2>7. blocks'[new].prev <= Len(blocks)
    BY <1>3, <1>4, <1>6, ShapedBackwards
  <2> HIDE DEF outer, taken, under
  <2>8. \E m2 : /\ IsModel(blocks', defs, m2) /\ m2.val = m.val
                /\ Mirrors(blocks', defs, Append(rest, new), m2, Branch(under, outer, taken, e))
    BY SMTT(30), <1>1, <1>3, <1>6, <1>8, <2>2, <2>3, <2>4, <2>5, <2>7, BranchMirrors
  <2> QED  BY <1>1, <2>6, <2>8
<1>9. d.kind \in {"if", "elif", "else"}
  OBVIOUS
<1> HIDE DEF d, new
<1> QED  BY <1>1, <1>2, <1>8, <1>9, ReadMirrors DEF new

LEMMA EndifMirrors ==
    ASSUME TreeInv, ShapeInv, CountInv, MirrorInv, Endif
    PROVE  CountInv' /\ MirrorInv'
<1> DEFINE d == [kind |-> "endif", exp |-> {}]
<1>1. /\ phase = "read" /\ phase' = "read" /\ defs' = defs /\ blocks' = blocks
      /\ Nested(blocks, open) /\ Len(open) > 1
      /\ open' = SubSeq(open, 1, Len(open) - 1)
  BY EndifShape
<1>2. d \in Directives /\ file' = Append(file, d)
  BY DEF Directives, Endif, Read
<1>3. ASSUME NEW m, NEW st, IsModel(blocks, defs, m), Mirrors(blocks, defs, open, m, st)
      PROVE  \E m2 : /\ IsModel(blocks', defs', m2)
                     /\ Mirrors(blocks', defs', open', m2, Directive(st, d))
                     /\ \A s \in Symbols : m2.val[<<s, 0>>] = m.val[<<s, 0>>]
  <2>1. Mirrors(blocks, defs, SubSeq(open, 1, Len(open) - 1), m, Under(st))
    BY <1>1, <1>3, PopMirrors
  <2>2. Directive(st, d) = Under(st)
    BY DirectiveIs
  <2>3. Mirrors(blocks', defs', open', m, Directive(st, d))
    BY <1>1, <2>1, <2>2
  <2> QED  BY <1>1, <1>3, <2>3
<1>4. d.kind \notin {"if", "elif", "else"}
  OBVIOUS
<1> HIDE DEF d
<1> QED  BY <1>1, <1>2, <1>3, <1>4, ReadMirrors

LEMMA DefineStepMirrors ==
    ASSUME TreeInv, ShapeInv, CountInv, MirrorInv, NEW s \in Symbols, NEW define \in BOOLEAN,
           Define(s, define)
    PROVE  CountInv' /\ MirrorInv'
<1> DEFINE d == [kind |-> IF define THEN "define" ELSE "undef", exp |-> {}, sym |-> s]
           r == [in |-> open[Len(open)], define |-> define]
<1>1. /\ phase = "read" /\ phase' = "read" /\ blocks' = blocks /\ open' = open
      /\ Nested(blocks, open)
      /\ defs' = [defs EXCEPT ![s] = Append(defs[s], r)]
  BY DefineShape
<1>2. d \in Directives /\ file' = Append(file, d)
  <2>1. (IF define THEN "define" ELSE "undef") \in {"define", "undef"}
    OBVIOUS
  <2> QED  BY <2>1 DEF Directives, Define, Read
<1>3. Shaped(blocks, defs)
  BY DEF ShapeInv
<1>4. d.kind \notin {"if", "elif", "else", "endif"} /\ (d.kind = "define" <=> define) /\ d.sym = s
  OBVIOUS
<1> HIDE DEF d
<1>5. ASSUME NEW m, NEW st, IsModel(blocks, defs, m), Mirrors(blocks, defs, open, m, st)
      PROVE  \E m2 : /\ IsModel(blocks', defs', m2)
                     /\ Mirrors(blocks', defs', open', m2, Directive(st, d))
                     /\ \A t \in Symbols : m2.val[<<t, 0>>] = m.val[<<t, 0>>]
  <2>1. Directive(st, d) =
          IF st.groups[Len(st.groups)].on THEN [st EXCEPT !.val[d.sym] = (d.kind = "define")]
                                          ELSE st
    BY <1>4 DEF Directive
  <2>2. Directive(st, d) = Told(st, s, define)
    BY <1>4, <2>1 DEF Told
  <2>3. defs' = OneMore(defs, s, open[Len(open)], define)
    BY <1>1 DEF OneMore
  <2> DEFINE ds2 == OneMore(defs, s, open[Len(open)], define)
             st2 == Told(st, s, define)
  <2>4. \E m2 : /\ IsModel(blocks, ds2, m2) /\ Mirrors(blocks, ds2, open, m2, st2)
                /\ \A t \in Symbols : m2.val[<<t, 0>>] = m.val[<<t, 0>>]
    BY <1>1, <1>3, <1>5, DefineMirrors
  <2> HIDE DEF ds2, st2
  <2> QED  BY <1>1, <2>2, <2>3, <2>4 DEF ds2, st2
<1> HIDE DEF r
<1> QED  BY <1>1, <1>2, <1>4, <1>5, ReadMirrors

LEMMA EndOfFileMirrors ==
    ASSUME TreeInv, ShapeInv, CountInv, MirrorInv, EndOfFile
    PROVE  CountInv' /\ MirrorInv'
<1>1. phase = "read" /\ phase' = "ask" /\ file' = file /\ blocks' = blocks /\ defs' = defs
  BY DEF EndOfFile
<1>2. FileBlocksOf(file) = Len(blocks) /\ Len(blocks) \in Nat
  BY <1>1, ShapedBackwards DEF CountInv, ShapeInv
<1>3. CountInv'
  BY <1>1, <1>2 DEF CountInv
<1>4. ASSUME NEW c \in [Symbols -> BOOLEAN]
      PROVE  \E m \in Assignments(blocks', defs') : RunsAs(c, m)'
  <2>1. PICK m \in Assignments(blocks, defs) :
          /\ IsModel(blocks, defs, m) /\ Extends(m, c)
          /\ Mirrors(blocks, defs, open, m, Preprocessed(file, c))
    BY <1>1 DEF MirrorInv, RunsAs
  <2>2. SameBlocks(m, FileBlocksOf(file), Preprocessed(file, c).on)
    BY <1>2, <2>1 DEF Mirrors
  <2>3. RunsAs(c, m)'
    BY <1>1, <2>1, <2>2 DEF RunsAs
  <2>4. m \in Assignments(blocks', defs')
    BY <1>1, <2>1
  <2> QED  BY <2>3, <2>4
<1> QED  BY <1>3, <1>4 DEF MirrorInv

LEMMA DecisionMirrors ==
    ASSUME TreeInv, ShapeInv, CountInv, MirrorInv, DecisionCoverage
    PROVE  CountInv' /\ MirrorInv'
<1>1. /\ phase = "ask" /\ phase' = "ask" /\ defs' = defs /\ file' = file
      /\ Shaped(blocks', defs) /\ SamePrefix(blocks, blocks') /\ Complete(blocks')
      /\ \A b \in Len(blocks) + 1 .. Len(blocks') :
           blocks'[b].parent <= Len(blocks) /\ blocks'[b].prev <= Len(blocks)
  BY DecisionShape
<1>2. Shaped(blocks, defs)
  BY DEF ShapeInv
<1>3. /\ Len(blocks) \in Nat /\ Len(blocks') \in Nat /\ Len(blocks) <= Len(blocks')
      /\ FileBlocksOf(file) <= Len(blocks)
  BY <1>1 DEF SamePrefix, CountInv
<1>4. FileBlocksOf(file) \in Nat
  <2>1. file \in Seq(Directives)
    BY DEF CountInv
  <2>2. [kind |-> "if", exp |-> {}] \in Directives
    BY DEF Directives
  <2> QED  BY <2>1, <2>2, FileBlocksNext
<1>5. CountInv'
  BY <1>1, <1>3, <1>4 DEF CountInv
<1>6. ASSUME NEW c \in [Symbols -> BOOLEAN]
      PROVE  \E m \in Assignments(blocks', defs') : RunsAs(c, m)'
  <2>1. PICK m \in Assignments(blocks, defs) :
          /\ IsModel(blocks, defs, m) /\ Extends(m, c)
          /\ SameBlocks(m, FileBlocksOf(file), Preprocessed(file, c).on)
    BY <1>1 DEF MirrorInv, RunsAs
  <2>2. PICK m2 : /\ IsModel(blocks', defs, m2) /\ m2.val = m.val
                  /\ \A b \in 0 .. Len(blocks) : m2.on[b] = m.on[b]
    BY <1>1, <1>2, <2>1, ModelGrows
  <2>3. SameBlocks(m2, FileBlocksOf(file), Preprocessed(file, c).on)
    <3>1. \A b \in 1 .. FileBlocksOf(file) : m2.on[b] = m.on[b]
      BY <1>3, <1>4, <2>2
    <3> QED  BY <2>1, <3>1 DEF SameBlocks
  <2>4. Extends(m2, c)
    BY <2>1, <2>2 DEF Extends
  <2>5. m2 \in Assignments(blocks', defs')
    BY <1>1, <2>2 DEF IsModel
  <2>6. RunsAs(c, m2)'
    BY <1>1, <2>2, <2>3, <2>4 DEF RunsAs
  <2> QED  BY <2>5, <2>6
<1> QED  BY <1>5, <1>6 DEF MirrorInv

\* The tree and its models, between the directives and after the last.
FileInv == ShapeInv /\ CountInv /\ MirrorInv

LEMMA FileKept ==
    ASSUME TreeInv, FileInv, Next \/ UNCHANGED vars
    PROVE  FileInv'
<1>1. ShapeInv'
  BY ShapeKept DEF FileInv
<1>2. ASSUME NEW e \in Expressions PROVE e \in SUBSET Literals
  BY ExpressionsAssumption
<1>3. ASSUME NEW e \in Expressions, OpenIf(e) PROVE CountInv' /\ MirrorInv'
  BY <1>2, <1>3, OpenIfMirrors DEF FileInv
<1>4. ASSUME NEW e \in Expressions, Elif(e) PROVE CountInv' /\ MirrorInv'
  <2>1. e \in SUBSET Literals /\ Alternative("elif", e)
    BY <1>2, <1>4 DEF Elif
  <2> QED  BY <2>1, AlternativeMirrors DEF FileInv
<1>5. ASSUME Else PROVE CountInv' /\ MirrorInv'
  <2>1. {} \in SUBSET Literals /\ Alternative("else", {})
    BY <1>5 DEF Else
  <2> QED  BY <2>1, AlternativeMirrors DEF FileInv
<1>6. ASSUME Endif PROVE CountInv' /\ MirrorInv'
  BY <1>6, EndifMirrors DEF FileInv
<1>7. ASSUME NEW s \in Symbols, NEW define \in BOOLEAN, Define(s, define)
      PROVE  CountInv' /\ MirrorInv'
  BY <1>7, DefineStepMirrors DEF FileInv
<1>8. ASSUME EndOfFile PROVE CountInv' /\ MirrorInv'
  BY <1>8, EndOfFileMirrors DEF FileInv
<1>9. ASSUME DecisionCoverage PROVE CountInv' /\ MirrorInv'
  BY <1>9, DecisionMirrors DEF FileInv
<1>10. ASSUME Tree PROVE CountInv' /\ MirrorInv'
  BY <1>10 DEF Tree, FileInv, CountInv, MirrorInv, RunsAs
<1>11. (\E b \in BlockIds : Ask(b)) \/ Collect \/ UNCHANGED vars => Tree
  BY DEF Ask, Collect, EnterVisited, EnterTop, EnterBlock, StartDefines, CallDefine, DefinesDone,
         FollowDefine, DefineReturns, Leave, vars, Tree
<1>12. CountInv' /\ MirrorInv'
  BY <1>3, <1>4, <1>5, <1>6, <1>7, <1>8, <1>9, <1>10, <1>11 DEF Next, Reading
<1> QED  BY <1>1, <1>12 DEF FileInv

LEMMA FileInit == Init => FileInv
<1> SUFFICES ASSUME Init PROVE FileInv
  OBVIOUS
<1>1. /\ file = <<>> /\ open = <<0>> /\ blocks = <<>> /\ defs = [s \in Symbols |-> <<>>]
      /\ phase = "read"
  BY DEF Init, Top
<1>2. ShapeInv
  <2>1. Len(blocks) = 0 /\ blocks \in Seq(BlockRecord)
    BY <1>1
  <2>2. \A s \in Symbols : defs[s] = <<>> /\ Len(defs[s]) = 0
    BY <1>1
  <2>3. defs \in [Symbols -> Seq(DefineRecord)]
    BY <1>1
  <2>4. Shaped(blocks, defs)
    BY <2>1, <2>2, <2>3 DEF Shaped
  <2>5. open \in Seq(Nat) /\ open # <<>> /\ Len(open) = 1 /\ open[1] = 0
    BY <1>1
  <2>6. Nested(blocks, open)
    BY <2>1, <2>5 DEF Nested
  <2> QED  BY <2>4, <2>6 DEF ShapeInv
<1>3. CountInv
  <2>1. file \in Seq(Directives)
    BY <1>1
  <2>2. FileBlocksOf(file) = 0
    <3>1. {i \in DOMAIN file : file[i].kind \in {"if", "elif", "else"}} = {}
      BY <1>1
    <3> QED  BY <3>1, FS_EmptySet DEF FileBlocksOf
  <2>3. Len(blocks) = 0
    BY <1>1
  <2> QED  BY <1>1, <2>1, <2>2, <2>3 DEF CountInv
<1>4. MirrorInv
  <2>1. ASSUME NEW c \in [Symbols -> BOOLEAN]
        PROVE  \E m \in Assignments(blocks, defs) : RunsAs(c, m)
    <3>1. PICK m : /\ IsModel(blocks, defs, m) /\ Extends(m, c)
                   /\ Mirrors(blocks, defs, open, m, Start(c))
      BY <1>1, StartMirrors
    <3>2. Preprocessed(file, c) = Start(c)
      BY <1>1, PreprocessedNothing
    <3>3. m \in Assignments(blocks, defs)
      BY <3>1 DEF IsModel
    <3> QED  BY <1>1, <3>1, <3>2, <3>3 DEF RunsAs
  <2> QED  BY <2>1 DEF MirrorInv
<1> QED  BY <1>2, <1>3, <1>4 DEF FileInv

THEOREM FileInvariance == Spec => []FileInv
<1>1. IInv => TreeInv
  BY DEF IInv
<1>2. TreeInv /\ FileInv /\ [Next]_vars => FileInv'
  BY FileKept
<1> QED  BY <1>1, <1>2, FileInit, Invariance, PTL DEF Spec

-----------------------------------------------------------------------------
(* The conjuncts a block depends on determine whether it is enabled.         *)

\* The block a block hangs from: an #if from its parent, another from the one before.
LinkOf(bs, b) == IF bs[b].kind = "if" THEN bs[b].parent ELSE bs[b].prev

\* C has, with a block, the block it hangs from, and the blocks that make the versions of
\* its condition.
Closed(bs, ds, C) ==
    /\ C \subseteq 1 .. Len(bs)
    /\ \A b \in C :
         /\ LinkOf(bs, b) \in C \cup {0}
         /\ \A l \in bs[b].exp : \A n \in 1 .. l.ver : ds[l.sym][n].in \in C \cup {0}

\* m satisfies the conjuncts of the blocks of C and of the versions they speak of.
Satisfies(bs, ds, C, m) ==
    /\ m \in Assignments(bs, ds)
    /\ m.on[0]
    /\ \A b \in C : m.on[b] <=> Enabled(bs, b, m)
    /\ \A b \in C : \A l \in bs[b].exp : \A n \in 1 .. l.ver :
         m.val[<<l.sym, n>>] = Made(ds, l.sym, n, m)

\* With a block come its parent and the blocks before it in its group.
LEMMA ClosedChain ==
    ASSUME NEW bs, NEW ds, Shaped(bs, ds), NEW C, Closed(bs, ds, C), NEW b \in C
    PROVE  bs[b].parent \in C \cup {0} /\ PredsOf(bs)[b] \subseteq C
<1> DEFINE Good(c) == bs[c].parent \in C \cup {0} /\ PredsOf(bs)[c] \subseteq C
           Bad == {c \in C : ~Good(c)}
<1> SUFFICES ASSUME Bad # {} PROVE FALSE
  OBVIOUS
<1>0. Len(bs) \in Nat /\ Backwards(bs)
  BY ShapedBackwards
<1>1. Len(bs) \in Nat /\ Backwards(bs) /\ C \subseteq 1 .. Len(bs) /\ C \subseteq Nat
  BY <1>0 DEF Closed
<1>2. PICK k \in Bad : \A c \in Bad : k <= c
  <2>1. Bad \in SUBSET Nat
    BY <1>1
  <2> QED  BY <2>1, LeastNumber
<1>3. k \in C /\ k \in 1 .. Len(bs) /\ k \in 0 .. Len(bs) /\ k # 0
  BY <1>1
<1>4. PredsOf(bs)[k] = PredsStep(bs, PredsOf(bs), k)
  BY <1>1, <1>3, PredsEquation
<1>5. CASE bs[k].kind = "if"
  <2>1. bs[k].parent \in C \cup {0}
    BY <1>3, <1>5 DEF Closed, LinkOf
  <2>2. PredsOf(bs)[k] = {}
    BY <1>4, <1>5 DEF PredsStep
  <2> QED  BY <2>1, <2>2
<1>6. CASE bs[k].kind # "if"
  <2>1. bs[k].prev \in 1 .. k - 1 /\ bs[k].parent = bs[bs[k].prev].parent
    BY <1>3, <1>6, ShapedBlock
  <2>2. bs[k].prev \in C
    BY <1>3, <1>6, <2>1 DEF Closed, LinkOf
  <2>3. Good(bs[k].prev)
    BY <1>1, <1>2, <1>3, <2>1, <2>2
  <2>4. PredsOf(bs)[k] = {bs[k].prev} \cup PredsOf(bs)[bs[k].prev]
    BY <1>3, <1>4, <1>6 DEF PredsStep
  <2> QED  BY <2>1, <2>2, <2>3, <2>4
<1> QED  BY <1>5, <1>6

\* Two assignments that satisfy these conjuncts and agree on the configuration agree on
\* the blocks of C: what is enabled is decided from the top of the file to its end.
LEMMA Determined ==
    ASSUME NEW bs, NEW ds, Shaped(bs, ds), NEW C, Closed(bs, ds, C),
           NEW m, Satisfies(bs, ds, C, m), NEW m2, Satisfies(bs, ds, C, m2),
           \A s \in Symbols : m.val[<<s, 0>>] = m2.val[<<s, 0>>],
           NEW b \in C
    PROVE  m.on[b] = m2.on[b]
<1> DEFINE Bad == {c \in C : m.on[c] # m2.on[c]}
<1> SUFFICES ASSUME Bad # {} PROVE FALSE
  OBVIOUS
<1>0. Len(bs) \in Nat
  BY ShapedBackwards
<1>1. Len(bs) \in Nat /\ C \subseteq 1 .. Len(bs) /\ C \subseteq Nat
  BY <1>0 DEF Closed
<1>2. PICK k \in Bad : \A c \in Bad : k <= c
  <2>1. Bad \in SUBSET Nat
    BY <1>1
  <2> QED  BY <2>1, LeastNumber
<1>3. k \in C /\ k \in 1 .. Len(bs) /\ m.on[k] # m2.on[k]
  BY <1>1
<1>4. ASSUME NEW c \in C \cup {0}, c < k PROVE m.on[c] = m2.on[c]
  <2>1. CASE c = 0
    <3>1. m.on \in [0 .. Len(bs) -> BOOLEAN] /\ m2.on \in [0 .. Len(bs) -> BOOLEAN]
      BY DEF Satisfies, Assignments
    <3> QED  BY <1>1, <2>1, <3>1 DEF Satisfies
  <2>2. CASE c \in C
    <3>1. c \in Nat /\ k \in Nat
      BY <1>1, <1>3, <2>2
    <3>2. ~(k <= c)
      BY <1>4, <3>1
    <3>3. c \notin Bad
      BY <1>2, <3>2
    <3> QED  BY <2>2, <3>3
  <2> QED  BY <2>1, <2>2
<1>5. bs[k].parent # 0 => m.on[bs[k].parent] = m2.on[bs[k].parent]
  <2>1. bs[k].parent \in C \cup {0}
    BY <1>3, ClosedChain
  <2>2. bs[k].parent \in 0 .. k - 1
    BY <1>3, ShapedBlock
  <2>3. bs[k].parent < k
    BY <1>1, <1>3, <2>2
  <2> QED  BY <1>4, <2>1, <2>3
<1>6. \A p \in PredsOf(bs)[k] : m.on[p] = m2.on[p]
  <2>1. ASSUME NEW p \in PredsOf(bs)[k] PROVE m.on[p] = m2.on[p]
    <3>1. p \in C
      BY <1>3, ClosedChain
    <3>2. p \in 1 .. k - 1
      BY <1>3, PredsRange
    <3>3. p < k
      BY <1>1, <1>3, <3>2
    <3> QED  BY <1>4, <3>1, <3>3
  <2> QED  BY <2>1
<1>7. ASSUME NEW l \in bs[k].exp PROVE m.val[<<l.sym, l.ver>>] = m2.val[<<l.sym, l.ver>>]
  <2> DEFINE s == l.sym
             Bad2 == {n \in 0 .. l.ver : m.val[<<s, n>>] # m2.val[<<s, n>>]}
  <2> SUFFICES ASSUME Bad2 # {} PROVE FALSE
    <3>1. l.ver \in Nat
      BY <1>3, ShapedBlock
    <3>2. l.ver \in 0 .. l.ver
      BY <3>1
    <3> QED  BY <3>2
  <2>1. l.ver \in Nat /\ s \in Symbols
    BY <1>3, ShapedBlock
  <2>2. PICK n \in Bad2 : \A i \in Bad2 : n <= i
    <3>1. Bad2 \in SUBSET Nat
      BY <2>1
    <3> QED  BY <3>1, LeastNumber
  <2>3. n \in 0 .. l.ver /\ n # 0
    BY <2>1
  <2>4. n \in 1 .. l.ver /\ n - 1 \in 0 .. l.ver /\ n - 1 < n
    BY <2>1, <2>3
  <2>5. m.val[<<s, n - 1>>] = m2.val[<<s, n - 1>>]
    <3>1. n - 1 \notin Bad2
      BY <2>1, <2>2, <2>4
    <3> QED  BY <2>4, <3>1
  <2>6. m.on[ds[s][n].in] = m2.on[ds[s][n].in]
    <3>1. ds[s][n].in \in C \cup {0}
      BY <1>3, <2>4 DEF Closed
    <3>2. ds[s][n].in < k
      BY <1>3, <2>4 DEF Shaped, Earlier
    <3> QED  BY <1>4, <3>1, <3>2
  <2>7. m.val[<<s, n>>] = Made(ds, s, n, m) /\ m2.val[<<s, n>>] = Made(ds, s, n, m2)
    BY <1>3, <2>4 DEF Satisfies
  <2>8. Made(ds, s, n, m) = Made(ds, s, n, m2)
    BY <2>5, <2>6 DEF Made
  <2> QED  BY <2>2, <2>7, <2>8
<1>8. Enabled(bs, k, m) <=> Enabled(bs, k, m2)
  BY <1>5, <1>6, <1>7, EnabledSame
<1>9. m.on[k] \in BOOLEAN /\ m2.on[k] \in BOOLEAN
  <2>1. m.on \in [0 .. Len(bs) -> BOOLEAN] /\ m2.on \in [0 .. Len(bs) -> BOOLEAN]
    BY DEF Satisfies, Assignments
  <2>2. k \in 0 .. Len(bs)
    BY <1>1, <1>3
  <2> QED  BY <2>1, <2>2
<1> QED  BY <1>3, <1>8, <1>9 DEF Satisfies

\* A model of the whole file satisfies the conjuncts of any set of blocks.
LEMMA ModelSatisfies ==
    ASSUME NEW bs, NEW ds, Shaped(bs, ds), NEW C, C \subseteq 1 .. Len(bs), NEW m,
           IsModel(bs, ds, m)
    PROVE  Satisfies(bs, ds, C, m)
<1>1. ASSUME NEW b \in C, NEW l \in bs[b].exp, NEW n \in 1 .. l.ver
      PROVE  m.val[<<l.sym, n>>] = Made(ds, l.sym, n, m)
  <2>1. l.sym \in Symbols /\ l.ver \in Nat /\ l.ver <= Len(ds[l.sym])
    BY ShapedBlock
  <2>2. Len(ds[l.sym]) \in Nat
    BY <2>1, ShapedDefine
  <2>3. n \in 1 .. Len(ds[l.sym])
    BY <2>1, <2>2
  <2> QED  BY <2>1, <2>3 DEF IsModel
<1> QED  BY <1>1 DEF IsModel, Satisfies

\* A configuration has one model.
LEMMA OneModel ==
    ASSUME NEW bs, NEW ds, Shaped(bs, ds), NEW m, IsModel(bs, ds, m), NEW m2, IsModel(bs, ds, m2),
           \A s \in Symbols : m.val[<<s, 0>>] = m2.val[<<s, 0>>]
    PROVE  m = m2
<1> DEFINE C == 1 .. Len(bs)
<1>1. Len(bs) \in Nat
  BY ShapedBackwards
<1>2. Closed(bs, ds, C)
  <2>1. ASSUME NEW b \in C PROVE LinkOf(bs, b) \in C \cup {0}
    <3>1. bs[b].parent \in 0 .. b - 1 /\ (bs[b].kind # "if" => bs[b].prev \in 1 .. b - 1)
      BY ShapedBlock
    <3> QED  BY <1>1, <3>1 DEF LinkOf
  <2>2. ASSUME NEW b \in C, NEW l \in bs[b].exp, NEW n \in 1 .. l.ver
        PROVE  ds[l.sym][n].in \in C \cup {0}
    <3>1. l.sym \in Symbols /\ l.ver \in Nat /\ l.ver <= Len(ds[l.sym])
      BY ShapedBlock
    <3>2. Len(ds[l.sym]) \in Nat
      BY <3>1, ShapedDefine
    <3>3. n \in 1 .. Len(ds[l.sym])
      BY <3>1, <3>2
    <3>4. ds[l.sym][n].in \in 0 .. Len(bs)
      BY <3>1, <3>3, ShapedDefine
    <3> QED  BY <1>1, <3>4
  <2> QED  BY <2>1, <2>2 DEF Closed
<1>3. Satisfies(bs, ds, C, m) /\ Satisfies(bs, ds, C, m2)
  BY ModelSatisfies
<1>4. m.on \in [0 .. Len(bs) -> BOOLEAN] /\ m2.on \in [0 .. Len(bs) -> BOOLEAN]
      /\ m.val \in [VersionsOf(ds) -> BOOLEAN] /\ m2.val \in [VersionsOf(ds) -> BOOLEAN]
      /\ m = [on |-> m.on, val |-> m.val] /\ m2 = [on |-> m2.on, val |-> m2.val]
  BY ModelParts
<1>5. ASSUME NEW b \in 0 .. Len(bs) PROVE m.on[b] = m2.on[b]
  <2>1. CASE b = 0
    BY <1>1, <1>4, <2>1 DEF IsModel
  <2>2. CASE b # 0
    <3>1. b \in C
      BY <1>1, <2>2
    <3> QED  BY <1>2, <1>3, <3>1, Determined
  <2> QED  BY <2>1, <2>2
<1>6. ASSUME NEW s \in Symbols, NEW i \in 0 .. Len(ds[s])
      PROVE  m.val[<<s, i>>] = m2.val[<<s, i>>]
  <2> DEFINE Bad == {n \in 0 .. Len(ds[s]) : m.val[<<s, n>>] # m2.val[<<s, n>>]}
  <2> SUFFICES ASSUME Bad # {} PROVE FALSE
    OBVIOUS
  <2>1. Len(ds[s]) \in Nat
    BY ShapedDefine
  <2>2. PICK n \in Bad : \A j \in Bad : n <= j
    <3>1. Bad \in SUBSET Nat
      BY <2>1
    <3> QED  BY <3>1, LeastNumber
  <2>3. n \in 0 .. Len(ds[s]) /\ n # 0
    OBVIOUS
  <2>4. n \in 1 .. Len(ds[s]) /\ n - 1 \in 0 .. Len(ds[s]) /\ n - 1 < n
    BY <2>1, <2>3
  <2>5. m.val[<<s, n - 1>>] = m2.val[<<s, n - 1>>]
    <3>1. n - 1 \notin Bad
      BY <2>1, <2>2, <2>4
    <3> QED  BY <2>4, <3>1
  <2>6. ds[s][n].in \in 0 .. Len(bs)
    BY <2>4, ShapedDefine
  <2>7. Made(ds, s, n, m) = Made(ds, s, n, m2)
    BY <1>5, <2>5, <2>6 DEF Made
  <2> QED  BY <2>2, <2>4, <2>7 DEF IsModel
<1>7. m.on = m2.on
  BY SMTT(30), <1>4, <1>5
<1>8. m.val = m2.val
  <2>1. ASSUME NEW v \in VersionsOf(ds) PROVE m.val[v] = m2.val[v]
    <3>1. PICK s \in Symbols : \E n \in 0 .. Len(ds[s]) : v = <<s, n>>
      BY VersionIn
    <3> QED  BY <1>6, <3>1
  <2> QED  BY <1>4, <2>1
<1> QED  BY <1>4, <1>7, <1>8

-----------------------------------------------------------------------------
(* FormulaIsPreprocessor: every configuration has the one model the           *)
(* preprocessor's run is.                                                     *)

LEMMA FormulaRuns == TreeInv /\ FileInv => FormulaIsPreprocessor
<1> SUFFICES ASSUME TreeInv, FileInv, Unasked, NEW c \in [Symbols -> BOOLEAN]
             PROVE  LET Of == {m \in Models(FileClauses) : \A s \in Symbols : m.val[<<s, 0>>] = c[s]}
                    IN  /\ Cardinality(Of) = 1
                        /\ \A m \in Of : {b \in 1 .. FileBlocks : m.on[b]} = Compiled(c)
  BY DEF FormulaIsPreprocessor
<1> DEFINE Of == {m \in Models(FileClauses) : \A s \in Symbols : m.val[<<s, 0>>] = c[s]}
<1>1. Shaped(blocks, defs) /\ phase # "read"
  BY DEF FileInv, ShapeInv, Unasked
<1>2. PICK m : IsModel(blocks, defs, m) /\ Extends(m, c) /\ SameBlocks(m, FileBlocks, Compiled(c))
  BY <1>1 DEF FileInv, MirrorInv, RunsAs, FileBlocks, FileBlocksOf, Compiled
<1>3. m \in Of
  BY <1>2, ModelsAre DEF Extends
<1>4. ASSUME NEW m2 \in Of PROVE m2 = m
  <2>1. IsModel(blocks, defs, m2)
    BY ModelsAre
  <2>2. \A s \in Symbols : m2.val[<<s, 0>>] = m.val[<<s, 0>>]
    BY <1>2 DEF Extends
  <2> QED  BY <1>1, <1>2, <2>1, <2>2, OneModel
<1> HIDE DEF Of
<1>5. Of = {m}
  BY <1>3, <1>4
<1>6. Cardinality(Of) = 1
  BY <1>5, FS_Singleton
<1>7. {b \in 1 .. FileBlocks : m.on[b]} = Compiled(c)
  BY <1>2 DEF SameBlocks
<1> QED  BY <1>5, <1>6, <1>7 DEF Of

\* For every file, and after decision coverage too, every configuration has one model, and
\* the blocks enabled in it are the ones the preprocessor compiles: getCodeConstraints of
\* the file, CppDefine's versions and the #elif chains together.
THEOREM FormulaIsCpp == Spec => []FormulaIsPreprocessor
<1>1. IInv => TreeInv
  BY DEF IInv
<1> QED  BY <1>1, FormulaRuns, FileInvariance, Invariance, PTL

-----------------------------------------------------------------------------
(* OneBranchEnabled: the blocks of an #if group are a chain, at most one of  *)
(* them is enabled because each excludes the ones before it, and one is      *)
(* because the chain ends with an #else.                                     *)

\* The group that the #if block i opens.
GroupOf(bs, i) == {b \in 1 .. Len(bs) : b = i \/ i \in PredsOf(bs)[b]}

\* A block of the group is the #if, or goes on with an earlier block of it.
LEMMA GroupStep ==
    ASSUME NEW bs, NEW ds, Shaped(bs, ds), NEW i \in 1 .. Len(bs), NEW b \in GroupOf(bs, i)
    PROVE  /\ b \in 1 .. Len(bs) /\ Len(bs) \in Nat
           /\ b # i =>
                /\ bs[b].kind # "if" /\ bs[b].prev \in 1 .. b - 1
                /\ bs[b].prev \in GroupOf(bs, i)
                /\ PredsOf(bs)[b] = {bs[b].prev} \cup PredsOf(bs)[bs[b].prev]
<1>1. b \in 1 .. Len(bs) /\ Len(bs) \in Nat /\ Backwards(bs)
  BY ShapedBackwards DEF GroupOf
<1>2. ASSUME b # i
      PROVE  /\ bs[b].kind # "if" /\ bs[b].prev \in 1 .. b - 1
             /\ bs[b].prev \in GroupOf(bs, i)
             /\ PredsOf(bs)[b] = {bs[b].prev} \cup PredsOf(bs)[bs[b].prev]
  <2>1. i \in PredsOf(bs)[b]
    BY <1>2 DEF GroupOf
  <2>2. b \in 0 .. Len(bs) /\ b # 0
    BY <1>1
  <2>3. PredsOf(bs)[b] = PredsStep(bs, PredsOf(bs), b)
    BY <1>1, <2>2, PredsEquation
  <2>4. bs[b].kind # "if" /\ PredsOf(bs)[b] = {bs[b].prev} \cup PredsOf(bs)[bs[b].prev]
    BY <2>1, <2>2, <2>3 DEF PredsStep
  <2>5. bs[b].prev \in 1 .. b - 1
    BY <1>1, <2>4, ShapedBlock
  <2>6. bs[b].prev \in 1 .. Len(bs)
    BY <1>1, <2>5
  <2>7. bs[b].prev = i \/ i \in PredsOf(bs)[bs[b].prev]
    BY <2>1, <2>4
  <2> QED  BY <2>4, <2>5, <2>6, <2>7 DEF GroupOf
<1> QED  BY <1>1, <1>2

\* Up to a block, some block goes on with each block before it in the group.
LEMMA GoesOn ==
    ASSUME NEW bs, NEW ds, Shaped(bs, ds), NEW b \in 1 .. Len(bs), NEW p \in PredsOf(bs)[b]
    PROVE  \E c \in 1 .. b : bs[c].kind # "if" /\ bs[c].prev = p
<1> DEFINE Good(x) == \E c \in 1 .. x : bs[c].kind # "if" /\ bs[c].prev = p
           Bad == {x \in 1 .. Len(bs) : p \in PredsOf(bs)[x] /\ ~Good(x)}
<1> SUFFICES ASSUME Bad # {} PROVE FALSE
  OBVIOUS
<1>1. Len(bs) \in Nat /\ Backwards(bs)
  BY ShapedBackwards
<1>2. PICK k \in Bad : \A x \in Bad : k <= x
  <2>1. Bad \in SUBSET Nat
    BY <1>1
  <2> QED  BY <2>1, LeastNumber
<1>3. k \in 1 .. Len(bs) /\ k \in 0 .. Len(bs) /\ k # 0 /\ p \in PredsOf(bs)[k] /\ ~Good(k)
  BY <1>1
<1>4. PredsOf(bs)[k] = PredsStep(bs, PredsOf(bs), k)
  BY <1>1, <1>3, PredsEquation
<1>5. bs[k].kind # "if" /\ PredsOf(bs)[k] = {bs[k].prev} \cup PredsOf(bs)[bs[k].prev]
  BY <1>3, <1>4 DEF PredsStep
<1>6. bs[k].prev \in 1 .. k - 1
  BY <1>3, <1>5, ShapedBlock
<1>7. CASE p = bs[k].prev
  <2>1. k \in 1 .. k
    BY <1>1, <1>3
  <2> QED  BY <1>3, <1>5, <1>7, <2>1
<1>8. CASE p # bs[k].prev
  <2> DEFINE q == bs[k].prev
  <2>1. q \in 1 .. Len(bs) /\ q < k /\ p \in PredsOf(bs)[q]
    BY <1>1, <1>3, <1>5, <1>6, <1>8
  <2>2. ~(k <= q)
    BY <1>1, <1>3, <2>1
  <2>3. Good(q)
    BY <1>2, <2>1, <2>2
  <2>4. \A c \in 1 .. q : c \in 1 .. k
    BY <1>1, <1>3, <2>1
  <2> QED  BY <1>3, <2>3, <2>4
<1> QED  BY <1>7, <1>8

\* Of two blocks of a group one comes before the other.
LEMMA GroupLinear ==
    ASSUME NEW bs, NEW ds, Shaped(bs, ds), NEW i \in 1 .. Len(bs),
           NEW b \in GroupOf(bs, i), NEW c \in GroupOf(bs, i), b < c
    PROVE  b \in PredsOf(bs)[c]
<1> DEFINE G == GroupOf(bs, i)
           Bad == {x \in G : \E y \in G : y < x /\ y \notin PredsOf(bs)[x]}
<1> SUFFICES ASSUME Bad # {} PROVE FALSE
  OBVIOUS
<1>1. Len(bs) \in Nat /\ G \subseteq 1 .. Len(bs) /\ G \subseteq Nat
  <2>1. Len(bs) \in Nat
    BY ShapedBackwards
  <2> QED  BY <2>1 DEF GroupOf
<1>2. PICK k \in Bad : \A x \in Bad : k <= x
  <2>1. Bad \in SUBSET Nat
    BY <1>1
  <2> QED  BY <2>1, LeastNumber
<1>3. PICK y \in G : y < k /\ y \notin PredsOf(bs)[k]
  OBVIOUS
<1>4. k \in G /\ k \in 1 .. Len(bs) /\ y \in 1 .. Len(bs) /\ k \in Nat /\ y \in Nat
  BY <1>1
<1>5. k # i
  <2>1. ASSUME k = i PROVE FALSE
    <3>1. y # i
      BY <1>3, <1>4, <2>1
    <3>2. i \in PredsOf(bs)[y]
      BY <3>1 DEF GroupOf
    <3>3. i \in 1 .. y - 1
      BY <1>4, <3>2, PredsRange
    <3> QED  BY <1>3, <1>4, <2>1, <3>3
  <2> QED  BY <2>1
<1> DEFINE p == bs[k].prev
<1>6. /\ bs[k].kind # "if" /\ p \in 1 .. k - 1 /\ p \in G
      /\ PredsOf(bs)[k] = {p} \cup PredsOf(bs)[p]
  BY <1>4, <1>5, GroupStep
<1>7. p \in Nat /\ p < k
  BY <1>4, <1>6
<1> HIDE DEF p, G
<1>8. CASE y = p
  BY <1>3, <1>6, <1>8
<1>9. CASE y < p
  <2>1. p \notin Bad
    BY <1>2, <1>4, <1>7
  <2>2. y \in PredsOf(bs)[p]
    BY <1>6, <1>9, <2>1
  <2> QED  BY <1>3, <1>6, <2>2
<1>10. CASE p < y
  <2>1. y \notin Bad
    BY <1>2, <1>3, <1>4
  <2>2. p \in PredsOf(bs)[y]
    BY <1>6, <1>10, <2>1
  <2>3. PICK x \in 1 .. y : bs[x].kind # "if" /\ bs[x].prev = p
    BY <1>4, <2>2, GoesOn
  <2>4. x \in 1 .. Len(bs) /\ x < k
    BY <1>1, <1>3, <1>4
  <2>5. x = k
    BY <1>4, <1>6, <2>3, <2>4 DEF Shaped, p
  <2> QED  BY <1>4, <2>4, <2>5
<1> QED  BY <1>4, <1>7, <1>8, <1>9, <1>10

\* What comes before a block of the group is of the group.
LEMMA GroupBefore ==
    ASSUME NEW bs, NEW ds, Shaped(bs, ds), NEW i \in 1 .. Len(bs), bs[i].kind = "if",
           NEW b \in GroupOf(bs, i)
    PROVE  PredsOf(bs)[b] \subseteq GroupOf(bs, i) /\ bs[b].parent = bs[i].parent
<1> DEFINE G == GroupOf(bs, i)
           Bad == {x \in G : ~(PredsOf(bs)[x] \subseteq G)}
<1>1. Len(bs) \in Nat /\ Backwards(bs) /\ G \subseteq 1 .. Len(bs) /\ G \subseteq Nat
  <2>1. Len(bs) \in Nat /\ Backwards(bs)
    BY ShapedBackwards
  <2> QED  BY <2>1 DEF GroupOf
<1>2. bs[b].parent = bs[i].parent
  <2>1. CASE b = i
    BY <2>1
  <2>2. CASE b # i
    <3>1. b \in 1 .. Len(bs) /\ i \in PredsOf(bs)[b]
      BY <2>2 DEF GroupOf
    <3> QED  BY <3>1, PredsRange
  <2> QED  BY <2>1, <2>2
<1>3. ASSUME Bad # {} PROVE FALSE
  <2>1. PICK k \in Bad : \A x \in Bad : k <= x
    <3>1. Bad \in SUBSET Nat
      BY <1>1
    <3> QED  BY <1>3, <3>1, LeastNumber
  <2>2. k \in G /\ k \in 1 .. Len(bs) /\ k \in 0 .. Len(bs) /\ k \in Nat
    BY <1>1
  <2>3. k # i
    <3>1. i \in 0 .. Len(bs)
      BY <1>1
    <3>2. PredsOf(bs)[i] = {}
      BY <1>1, <3>1, PredsEquation DEF PredsStep
    <3> QED  BY <3>2
  <2> DEFINE p == bs[k].prev
  <2>4. p \in 1 .. k - 1 /\ p \in G /\ PredsOf(bs)[k] = {p} \cup PredsOf(bs)[p]
    BY <2>2, <2>3, GroupStep
  <2>5. ~(k <= p)
    BY <2>2, <2>4
  <2>6. p \notin Bad
    BY <2>1, <2>5
  <2> QED  BY <2>4, <2>6
<1> QED  BY <1>2, <1>3

LEMMA OneOfGroup ==
    ASSUME NEW bs, NEW ds, Shaped(bs, ds), NEW m, IsModel(bs, ds, m),
           NEW i \in 1 .. Len(bs), bs[i].kind = "if", NEW b \in GroupOf(bs, i), m.on[b]
    PROVE  m.on[bs[i].parent] /\ Cardinality({c \in GroupOf(bs, i) : m.on[c]}) = 1
<1> DEFINE G == GroupOf(bs, i)
<1>1. Len(bs) \in Nat /\ G \subseteq 1 .. Len(bs) /\ G \subseteq Nat
  <2>1. Len(bs) \in Nat
    BY ShapedBackwards
  <2> QED  BY <2>1 DEF GroupOf
<1>2. ASSUME NEW c \in G PROVE m.on[c] <=> Enabled(bs, c, m)
  BY <1>1 DEF IsModel
<1>3. ASSUME NEW x \in G, NEW y \in G, x < y, m.on[x] PROVE ~m.on[y]
  <2>1. x \in PredsOf(bs)[y]
    BY <1>3, GroupLinear
  <2> QED  BY <1>2, <1>3, <2>1 DEF Enabled
<1>4. m.on[bs[i].parent]
  <2>1. bs[b].parent = bs[i].parent
    BY GroupBefore
  <2>2. Enabled(bs, b, m)
    BY <1>2, Zenon
  <2>3. m.on[0] /\ (bs[b].parent # 0 => m.on[bs[b].parent])
    BY <2>2, Zenon DEF Enabled, IsModel
  <2> QED  BY <2>1, <2>3, Zenon
<1>5. ASSUME NEW c \in G, m.on[c] PROVE c = b
  <2>1. b \in Nat /\ c \in Nat
    BY <1>1
  <2>2. ~(b < c) /\ ~(c < b)
    BY <1>3, <1>5
  <2> QED  BY <2>1, <2>2
<1>6. m.on[b] /\ b \in G
  OBVIOUS
<1> HIDE DEF G
<1>7. {c \in G : m.on[c]} = {b}
  BY <1>5, <1>6
<1> QED  BY <1>4, <1>7, FS_Singleton DEF G

\* A group with an else block has a branch for every configuration.
LEMMA ElseOfGroup ==
    ASSUME NEW bs, NEW ds, Shaped(bs, ds), NEW m, IsModel(bs, ds, m),
           NEW i \in 1 .. Len(bs), bs[i].kind = "if", m.on[bs[i].parent],
           NEW e \in GroupOf(bs, i), bs[e].kind = "else"
    PROVE  \E b \in GroupOf(bs, i) : m.on[b]
<1>1. e \in 1 .. Len(bs)
  BY DEF GroupOf
<1>2. bs[e].exp = {}
  BY <1>1 DEF Shaped, Earlier
<1>3. PredsOf(bs)[e] \subseteq GroupOf(bs, i) /\ bs[e].parent = bs[i].parent
  BY GroupBefore
<1>4. CASE \E p \in PredsOf(bs)[e] : m.on[p]
  BY <1>3, <1>4
<1>5. CASE \A p \in PredsOf(bs)[e] : ~m.on[p]
  <2>1. Enabled(bs, e, m)
    BY <1>2, <1>3, <1>5 DEF Enabled
  <2> QED  BY <1>1, <2>1 DEF IsModel
<1> QED  BY <1>4, <1>5

\* With the else blocks of decision coverage every group has one: its last block.
LEMMA CompleteGroup ==
    ASSUME NEW bs, NEW ds, Shaped(bs, ds), Complete(bs),
           NEW i \in 1 .. Len(bs), bs[i].kind = "if"
    PROVE  \E e \in GroupOf(bs, i) : bs[e].kind = "else"
<1> DEFINE G == GroupOf(bs, i)
<1>1. Len(bs) \in Nat /\ G \subseteq 1 .. Len(bs) /\ G \subseteq Nat /\ i \in G
  <2>1. Len(bs) \in Nat
    BY ShapedBackwards
  <2> QED  BY <2>1 DEF GroupOf
<1>2. PICK e \in G : \A b \in G : b <= e
  <2> DEFINE N == {x \in Nat : \E b \in G : x = Len(bs) - b}
  <2>1. Len(bs) - i \in N
    BY <1>1
  <2>2. N \in SUBSET Nat /\ N # {}
    BY <2>1
  <2>3. PICK x \in N : \A y \in N : x <= y
    BY <2>2, LeastNumber
  <2>4. PICK e \in G : x = Len(bs) - e
    OBVIOUS
  <2>5. ASSUME NEW b \in G PROVE b <= e
    <3>1. Len(bs) - b \in N
      BY <1>1
    <3>2. x <= Len(bs) - b
      BY <2>3, <3>1
    <3> QED  BY <1>1, <2>4, <3>2
  <2> QED  BY <2>5
<1>3. e \in 1 .. Len(bs)
  BY <1>1
<1>4. Last(bs, e)
  <2> SUFFICES ASSUME NEW c \in 1 .. Len(bs), bs[c].kind # "if", bs[c].prev = e
               PROVE  FALSE
    BY DEF Last
  <2>1. c \in 0 .. Len(bs) /\ c # 0 /\ Backwards(bs)
    BY <1>1, ShapedBackwards
  <2>2. PredsOf(bs)[c] = {e} \cup PredsOf(bs)[e]
    BY <2>1, PredsEquation DEF PredsStep
  <2>3. c \in G
    BY <2>2 DEF GroupOf
  <2>4. e \in 1 .. c - 1
    BY ShapedBlock
  <2> QED  BY <1>1, <1>2, <2>3, <2>4
<1> QED  BY <1>3, <1>4 DEF Complete

LEMMA OneBranchOfFile == TreeInv /\ FileInv => OneBranchEnabled
<1> SUFFICES ASSUME TreeInv, FileInv, Unasked,
                    NEW m \in Models(FileClauses), NEW i \in DOMAIN blocks, IsIf(i),
                    NEW Branches, Branches = {b \in DOMAIN blocks : b = i \/ i \in Predecessors(b)},
                    NEW On, On = {b \in Branches : m.on[b]}
             PROVE  /\ On # {} => m.on[blocks[i].parent] /\ Cardinality(On) = 1
                    /\ /\ m.on[blocks[i].parent]
                       /\ Len(blocks) > FileBlocks \/ \E b \in Branches : blocks[b].kind = "else"
                       => On # {}
  BY DEF OneBranchEnabled
<1>1. Shaped(blocks, defs) /\ (Len(blocks) > FileBlocks => Complete(blocks))
  BY DEF FileInv, ShapeInv, CountInv, FileBlocks, FileBlocksOf
<1>2. IsModel(blocks, defs, m)
  BY ModelsAre
<1>3. DOMAIN blocks = 1 .. Len(blocks) /\ i \in 1 .. Len(blocks)
  BY DEF TreeInv
<1>4. blocks[i].kind = "if"
  <2>1. Len(blocks) \in Nat
    BY <1>1, ShapedBackwards
  <2> QED  BY <1>3, <2>1 DEF IsIf, Top
<1>5. Branches = GroupOf(blocks, i)
  BY <1>3, PredsAre DEF GroupOf
<1>6. ASSUME On # {} PROVE m.on[blocks[i].parent] /\ Cardinality(On) = 1
  <2>1. PICK b \in Branches : m.on[b]
    BY <1>6
  <2>2. /\ m.on[blocks[i].parent]
        /\ Cardinality({c \in GroupOf(blocks, i) : m.on[c]}) = 1
    BY <1>1, <1>2, <1>3, <1>4, <1>5, <2>1, OneOfGroup
  <2>3. On = {c \in GroupOf(blocks, i) : m.on[c]}
    BY <1>5, Zenon
  <2> QED  BY <2>2, <2>3
<1>7. ASSUME m.on[blocks[i].parent],
             Len(blocks) > FileBlocks \/ \E b \in Branches : blocks[b].kind = "else"
      PROVE  On # {}
  <2>1. PICK e \in Branches : blocks[e].kind = "else"
    BY <1>1, <1>3, <1>4, <1>5, <1>7, CompleteGroup
  <2>2. \E b \in Branches : m.on[b]
    BY <1>1, <1>2, <1>3, <1>4, <1>5, <1>7, <2>1, ElseOfGroup
  <2> QED  BY <2>2
<1> QED  BY <1>6, <1>7

\* For every file and every configuration: at most one branch of a group is enabled, and
\* only inside enabled text; exactly one there, if the group has an #else or the else blocks
\* of decision coverage were added.
THEOREM OneBranch == Spec => []OneBranchEnabled
<1>1. IInv => TreeInv
  BY DEF IInv
<1> QED  BY <1>1, OneBranchOfFile, FileInvariance, Invariance, PTL

-----------------------------------------------------------------------------
(***************************************************************************)
(* FirstAnswerExact.  What a visited block depends on is collected, or     *)
(* some call under way still has it before it: the block it hangs from is  *)
(* the next to be entered; the defines of a symbol of its condition wait   *)
(* in its own frame, and the blocks with these defines in the frame of the *)
(* define call.  When the top-level call leaves, nothing waits any more,   *)
(* and the conjuncts of the visited blocks determine them.                 *)
(***************************************************************************)

\* The frame f of a define call has the block d before it; that of the block b has the
\* defines of s before it.
AwaitsIn(f, d) == f.pc = "define" /\ \E k \in DOMAIN f.todo : f.todo[k] = d

OwesIn(f, b, s) ==
    f.blk = b /\ (f.pc = "marked" \/ (f.pc = "defines" /\ \E k \in DOMAIN f.todo : f.todo[k] = s))

Entering(q, d) == q # <<>> /\ q[Len(q)].pc = "enter" /\ q[Len(q)].blk = d

Reached(q, V, d) ==
    d = Top \/ d \in V \/ (\E i \in DOMAIN q : AwaitsIn(q[i], d)) \/ Entering(q, d)

Followed(q, V, F, s) ==
    DefineClauses(s) \subseteq F /\ \A n \in DOMAIN defs[s] : Reached(q, V, defs[s][n].in)

Linked(q, V, b) == Link(b) = Top \/ Link(b) \in V \/ Entering(q, Link(b))

Owes(q, b, s) == \E i \in DOMAIN q : OwesIn(q[i], b, s)

Begun(q, F) == B00 \in F \/ \E i \in DOMAIN q : q[i].pc = "marked"

\* The stack q when the blocks of V are visited and the conjuncts F collected.
Depends(q, V, F) ==
    /\ F \subseteq FileClauses
    /\ V \subseteq BlockIds
    /\ V # {} => Begun(q, F)
    /\ \A b \in V \ {Top} :
         /\ Linked(q, V, b)
         /\ \A s \in Symbols : UsesDefine(b, s) => Followed(q, V, F, s) \/ Owes(q, b, s)

DependsInv == Depends(calls, visited, clauses)

\* The frames below the innermost stay.
Below(q) == \A i \in 1 .. Len(calls) - 1 : i \in DOMAIN q /\ q[i] = calls[i]

\* What a step of the innermost call has to see to.
LEMMA StepDepends ==
    ASSUME CallsInv, calls # <<>>, DependsInv,
           NEW q, NEW V, visited \subseteq V, V \subseteq BlockIds,
           NEW F, clauses \subseteq F, F \subseteq FileClauses,
           Below(q),
           Caller.pc = "marked" \/ visited = {} => Begun(q, F),
           Caller.pc = "enter" => Caller.blk \in V \cup {Top},
           \A d : AwaitsIn(Caller, d) => Reached(q, V, d),
           \A b \in visited \ {Top} : \A s \in Symbols :
             UsesDefine(b, s) /\ OwesIn(Caller, b, s) => Followed(q, V, F, s) \/ Owes(q, b, s),
           \A b \in V \ (visited \cup {Top}) :
             Linked(q, V, b) /\ \A s \in Symbols : Owes(q, b, s)
    PROVE  Depends(q, V, F)
<1> DEFINE n == Len(calls)
<1>1. n \in Nat \ {0} /\ DOMAIN calls = 1 .. n /\ Caller = calls[n]
  BY DEF CallsInv, Caller
<1>2. \A i \in DOMAIN calls : i = n \/ (i \in DOMAIN q /\ q[i] = calls[i])
  BY <1>1 DEF Below
<1>3. ASSUME V # {} PROVE Begun(q, F)
  <2>1. CASE visited = {} \/ Caller.pc = "marked"
    BY <2>1
  <2>2. CASE visited # {} /\ Caller.pc # "marked"
    <3>1. Begun(calls, clauses)
      BY <2>2 DEF DependsInv, Depends
    <3>2. CASE B00 \in clauses
      BY <3>2 DEF Begun
    <3>3. CASE \E i \in DOMAIN calls : calls[i].pc = "marked"
      BY <1>1, <1>2, <2>2, <3>3 DEF Begun
    <3> QED  BY <3>1, <3>2, <3>3 DEF Begun
  <2> QED  BY <2>1, <2>2
<1>4. ASSUME NEW d, Entering(calls, d) PROVE d = Top \/ d \in V
  BY <1>1, <1>4 DEF Entering
<1>5. ASSUME NEW d, Reached(calls, visited, d) PROVE Reached(q, V, d)
  <2>1. CASE d = Top \/ d \in visited \/ Entering(calls, d)
    BY <1>4, <2>1 DEF Reached
  <2>2. CASE \E i \in DOMAIN calls : AwaitsIn(calls[i], d)
    <3>1. PICK i \in DOMAIN calls : AwaitsIn(calls[i], d)
      BY <2>2
    <3>2. CASE i = n
      BY <1>1, <3>1, <3>2
    <3>3. CASE i # n
      BY <1>2, <3>1, <3>3 DEF Reached
    <3> QED  BY <3>2, <3>3
  <2> QED  BY <1>5, <2>1, <2>2 DEF Reached
<1>6. ASSUME NEW s, Followed(calls, visited, clauses, s) PROVE Followed(q, V, F, s)
  BY <1>5, <1>6 DEF Followed
<1>7. ASSUME NEW b \in V \ {Top}
      PROVE  /\ Linked(q, V, b)
             /\ \A s \in Symbols : UsesDefine(b, s) => Followed(q, V, F, s) \/ Owes(q, b, s)
  <2>1. CASE b \notin visited
    BY <2>1
  <2>2. CASE b \in visited
    <3>1. /\ Linked(calls, visited, b)
          /\ \A s \in Symbols :
               UsesDefine(b, s) => Followed(calls, visited, clauses, s) \/ Owes(calls, b, s)
      BY <2>2 DEF DependsInv, Depends
    <3>2. Linked(q, V, b)
      BY <1>4, <3>1 DEF Linked
    <3>3. ASSUME NEW s \in Symbols, UsesDefine(b, s), Owes(calls, b, s)
          PROVE  Followed(q, V, F, s) \/ Owes(q, b, s)
      <4>1. PICK i \in DOMAIN calls : OwesIn(calls[i], b, s)
        BY <3>3 DEF Owes
      <4>2. CASE i = n
        BY <1>1, <2>2, <3>3, <4>1, <4>2
      <4>3. CASE i # n
        BY <1>2, <4>1, <4>3 DEF Owes
      <4> QED  BY <4>2, <4>3
    <3> QED  BY <1>6, <3>1, <3>2, <3>3
  <2> QED  BY <2>1, <2>2
<1> QED  BY <1>3, <1>7 DEF Depends

\* The tree of a step that collects is the tree before it.
LEMMA TreeDepends ==
    ASSUME Tree, Depends(calls', visited', clauses')
    PROVE  DependsInv'
<1>1. blocks' = blocks /\ defs' = defs
  BY DEF Tree
<1>2. /\ FileClauses' = FileClauses /\ BlockIds' = BlockIds
      /\ \A b : Link(b)' = Link(b)
      /\ \A s : DefineClauses(s)' = DefineClauses(s)
  BY <1>1 DEF FileClauses, BlockIds, Link, IsIf, DefineClauses, BlockClause, B00, Top
<1>3. \A b, s : UsesDefine(b, s)' <=> UsesDefine(b, s)
  BY <1>1 DEF UsesDefine
<1>4. \A s : Followed(calls, visited, clauses, s)' <=> Followed(calls', visited', clauses', s)
  BY <1>1, <1>2 DEF Followed, Reached, AwaitsIn, Entering, Top
<1>5. \A b : Linked(calls, visited, b)' <=> Linked(calls', visited', b)
  BY <1>2 DEF Linked, Entering, Top
<1>6. \A b, s : Owes(calls, b, s)' <=> Owes(calls', b, s)
  BY DEF Owes, OwesIn
<1>7. Begun(calls, clauses)' <=> Begun(calls', clauses')
  BY DEF Begun, B00
<1> QED  BY <1>2, <1>3, <1>4, <1>5, <1>6, <1>7 DEF DependsInv, Depends, Top

\* Nothing depends on anything outside a top-level call.
LEMMA OutsideDepends ==
    ASSUME IInv, DependsInv, Reading \/ (\E b \in BlockIds : Ask(b)) \/ UNCHANGED vars
    PROVE  DependsInv'
<1>1. CASE Reading
  <2>1. calls = <<>> /\ clauses' = clauses /\ visited' = visited
    BY <1>1 DEF Reading, OpenIf, Elif, Else, Alternative, Endif, Define, Read, Asked, EndOfFile,
                DecisionCoverage, IInv, PhaseInv
  <2>2. clauses' = {} /\ visited' = {}
    BY <2>1 DEF IInv, PhaseInv
  <2> QED  BY <2>2 DEF DependsInv, Depends
<1>2. CASE \E b \in BlockIds : Ask(b)
  <2>1. clauses' = {} /\ visited' = {}
    BY <1>2 DEF Ask, IInv, PhaseInv
  <2> QED  BY <2>1 DEF DependsInv, Depends
<1>3. CASE UNCHANGED vars
  <2>1. Tree /\ Depends(calls', visited', clauses')
    BY <1>3 DEF vars, Tree, DependsInv
  <2> QED  BY <2>1, TreeDepends
<1> QED  BY <1>1, <1>2, <1>3

\* What a step makes of the stack.
LEMMA GotoBelow ==
    ASSUME CallsInv, calls # <<>>,
           NEW pc \in {"marked", "defines", "define", "leave"},
           NEW todo \in Seq(Symbols) \cup Seq(Nat),
           NEW g, g = Goto(pc, todo), NEW n, n = Len(calls)
    PROVE  /\ n \in Nat \ {0} /\ g \in Seq(Frame) /\ Len(g) = n /\ g # <<>>
           /\ n \in DOMAIN g /\ g[n].pc = pc /\ g[n].blk = Caller.blk /\ g[n].todo = todo
           /\ Below(g)
<1>1. n \in Nat \ {0} /\ DOMAIN calls = 1 .. n
  BY DEF CallsInv
<1>2. /\ g \in Seq(Frame) /\ Len(g) = n /\ DOMAIN g = DOMAIN calls
      /\ \A i \in DOMAIN calls : i < n => g[i] = calls[i]
      /\ g[n].pc = pc /\ g[n].blk = Caller.blk /\ g[n].todo = todo
  BY GotoFrames
<1>3. Below(g)
  BY <1>1, <1>2 DEF Below
<1> QED  BY <1>1, <1>2, <1>3

\* What is left of a list behind its i-th element.
LEMMA BehindIs ==
    ASSUME NEW S, NEW q \in Seq(S), NEW i \in 1 .. Len(q),
           NEW r, r = SubSeq(q, i + 1, Len(q))
    PROVE  /\ r \in Seq(S)
           /\ \A k \in i + 1 .. Len(q) : k - i \in DOMAIN r /\ r[k - i] = q[k]
<1>1. Len(q) \in Nat /\ i \in Nat /\ i >= 1 /\ i <= Len(q)
  OBVIOUS
<1>2. r \in Seq(S)
  BY <1>1
<1>3. Len(r) = Len(q) - i /\ \A k \in 1 .. Len(q) - i : r[k] = q[i + k]
  BY <1>1
<1>4. ASSUME NEW k \in i + 1 .. Len(q) PROVE k - i \in DOMAIN r /\ r[k - i] = q[k]
  <2>1. k - i \in 1 .. Len(q) - i /\ i + (k - i) = k
    BY <1>1
  <2>2. r[k - i] = q[i + (k - i)]
    BY <1>3, <2>1
  <2>3. DOMAIN r = 1 .. Len(r)
    BY <1>2
  <2> QED  BY <1>3, <2>1, <2>2, <2>3
<1> QED  BY <1>2, <1>4

LEMMA PushBelow ==
    ASSUME NEW q \in Seq(Frame), q # <<>>, NEW f
    PROVE  LET h == Append(q, f)
               n == Len(q)
           IN  /\ h # <<>> /\ Len(h) = n + 1 /\ h[n + 1] = f /\ DOMAIN h = 1 .. n + 1
               /\ \A i \in 1 .. n : i \in DOMAIN h /\ h[i] = q[i]
OBVIOUS

LEMMA PopBelow ==
    ASSUME CallsInv, calls # <<>>, NEW q, q = SubSeq(calls, 1, Len(calls) - 1)
    PROVE  Below(q)
BY DEF CallsInv, Below

LEMMA CollectDepends ==
    ASSUME IInv, StackInv, DependsInv, Collect
    PROVE  DependsInv'
<1> DEFINE n == Len(calls)
<1>0. TreeInv /\ PhaseInv /\ CallsInv
  BY DEF IInv
<1>1. calls # <<>> /\ n \in DOMAIN calls /\ Caller = calls[n]
  <2>1. calls # <<>>
    BY DEF Collect, EnterVisited, EnterTop, EnterBlock, StartDefines, FollowDefine, DefineReturns,
           Leave, At
  <2> QED  BY <1>0, <2>1 DEF CallsInv, Caller
<1>2. /\ Caller.blk \in BlockIds
      /\ Caller.pc = "define" => Caller.todo \in Seq(BlockIds) /\ Caller.todo \in Seq(Nat)
      /\ Caller.pc = "defines" => Caller.todo \in Seq(Symbols)
      /\ Caller.pc \in {"marked", "defines", "leave"} => Caller.blk \in visited
  <2>1. Caller \in Frame /\ Caller.blk <= Len(blocks) /\ Len(blocks) \in Nat
    BY <1>0, <1>1 DEF CallsInv, TreeInv
  <2>2. \A q \in Seq(BlockIds) : q \in Seq(Nat)
    BY <2>1 DEF BlockIds
  <2> QED  BY <1>0, <1>1, <2>1, <2>2 DEF CallsInv, Frame, BlockIds
<1>3. /\ clauses \subseteq FileClauses /\ visited \subseteq BlockIds
      /\ visited # {} => Begun(calls, clauses)
  BY DEF DependsInv, Depends
<1>4. <<>> \in Seq(Symbols) \cup Seq(Nat) /\ SymbolOrder \in Seq(Symbols) \cup Seq(Nat)
  BY SymbolOrderAssumption
<1>5. \A f, d : f.pc # "define" => ~AwaitsIn(f, d)
  BY DEF AwaitsIn
<1>6. \A f, b, s : f.pc \notin {"marked", "defines"} => ~OwesIn(f, b, s)
  BY DEF OwesIn
<1>7. Tree
  BY DEF Collect, EnterVisited, EnterTop, EnterBlock, StartDefines, CallDefine, DefinesDone,
         FollowDefine, DefineReturns, Leave
<1>8. SUFFICES Depends(calls', visited', clauses')
  BY <1>7, TreeDepends
<1>9. Caller.pc = "define" => visited # {}
  <2> SUFFICES ASSUME Caller.pc = "define" PROVE visited # {}
    OBVIOUS
  <2>1. n > 1 /\ calls[n - 1].pc = "defines" /\ n \in Nat
    BY <1>0, <1>1 DEF StackInv, Stacked, CallsInv
  <2>2. n - 1 \in DOMAIN calls
    BY <1>0, <2>1 DEF CallsInv
  <2> QED  BY <2>1, <2>2 DEF StackInv, Stacked, Pending
<1>10. CASE EnterVisited
  <2>1. /\ Caller.pc = "enter" /\ Caller.blk \in visited /\ calls' = Goto("leave", <<>>)
        /\ visited' = visited /\ clauses' = clauses
    BY <1>10 DEF EnterVisited, At
  <2>2. Below(calls')
    BY <1>0, <1>1, <1>4, <2>1, GotoBelow
  <2> QED  BY <1>0, <1>1, <1>3, <1>5, <1>6, <2>1, <2>2, StepDepends
<1>11. CASE EnterTop
  <2>1. /\ Caller.pc = "enter" /\ Caller.blk = Top /\ calls' = Goto("leave", <<>>)
        /\ visited' = visited \cup {Top} /\ clauses' = clauses \cup FileClauses
    BY <1>11 DEF EnterTop, At, Marks
  <2>2. Below(calls')
    BY <1>0, <1>1, <1>4, <2>1, GotoBelow
  <2>3. Begun(calls', clauses')
    BY <2>1 DEF Begun, FileClauses
  <2>4. visited' \subseteq BlockIds /\ clauses' \subseteq FileClauses
    BY <1>2, <1>3, <2>1
  <2>5. visited' \ (visited \cup {Top}) = {}
    BY <2>1
  <2>6. clauses \subseteq clauses' /\ visited \subseteq visited'
    BY <2>1
  <2> QED  BY <1>0, <1>1, <1>5, <1>6, <2>1, <2>2, <2>3, <2>4, <2>5, <2>6, StepDepends
<1>12. CASE EnterBlock
  <2> DEFINE b == Caller.blk
             g == Goto("marked", <<>>)
  <2>1. /\ Caller.pc = "enter" /\ b \notin visited /\ b # Top
        /\ visited' = visited \cup {b} /\ clauses' = clauses \cup {BlockClause(b)}
        /\ Link(b) = Top => calls' = g
        /\ Link(b) # Top => calls' = Append(g, BlockCall(Link(b)))
    BY <1>12 DEF EnterBlock, At, Marks
  <2>2. /\ n \in Nat \ {0} /\ g \in Seq(Frame) /\ g # <<>> /\ Len(g) = n
        /\ n \in DOMAIN g /\ g[n].pc = "marked" /\ g[n].blk = b
        /\ Below(g)
    <3>1. PICK todo \in Seq(Symbols) \cup Seq(Nat) : g = Goto("marked", todo)
      BY <1>4
    <3> HIDE DEF g, b
    <3>2. /\ n \in Nat \ {0} /\ g \in Seq(Frame) /\ Len(g) = n /\ g # <<>>
          /\ n \in DOMAIN g /\ g[n].pc = "marked" /\ g[n].blk = Caller.blk
          /\ Below(g)
      BY <1>0, <1>1, <3>1, GotoBelow
    <3> QED  BY <3>2 DEF b
  <2> HIDE DEF g
  <2>3. /\ Below(calls')
        /\ n \in DOMAIN calls' /\ calls'[n].pc = "marked" /\ calls'[n].blk = b
    <3>1. CASE Link(b) = Top
      BY <2>1, <2>2, <3>1
    <3>2. CASE Link(b) # Top
      <4>1. \A i \in 1 .. n : i \in DOMAIN calls' /\ calls'[i] = g[i]
        BY <2>1, <2>2, <3>2, PushBelow
      <4> QED  BY <2>2, <4>1 DEF Below
    <3> QED  BY <3>1, <3>2
  <2>4. Begun(calls', clauses')
    BY <2>3 DEF Begun
  <2>5. Linked(calls', visited', b)
    <3>1. CASE Link(b) # Top
      <4>1. calls' # <<>> /\ calls'[Len(calls')] = BlockCall(Link(b))
        BY <2>1, <2>2, <3>1, PushBelow
      <4> QED  BY <4>1 DEF Linked, Entering, BlockCall
    <3> QED  BY <3>1 DEF Linked
  <2>6. \A s \in Symbols : Owes(calls', b, s)
    BY <2>3 DEF Owes, OwesIn
  <2>7. visited' \subseteq BlockIds /\ clauses' \subseteq FileClauses
    <3>1. b \in DOMAIN blocks
      BY <1>0, <1>2, <2>1 DEF BlockIds, TreeInv, Top
    <3>2. BlockClause(b) \in FileClauses
      BY <3>1 DEF FileClauses
    <3> QED  BY <1>2, <1>3, <2>1, <3>2
  <2>8. \A c \in visited' \ (visited \cup {Top}) :
          Linked(calls', visited', c) /\ \A s \in Symbols : Owes(calls', c, s)
    BY <2>1, <2>5, <2>6
  <2>9. clauses \subseteq clauses' /\ visited \subseteq visited' /\ Caller.blk \in visited'
    BY <2>1
  <2> QED  BY <1>0, <1>1, <1>5, <1>6, <2>1, <2>3, <2>4, <2>7, <2>8, <2>9, StepDepends
<1>13. CASE StartDefines
  <2>1. /\ Caller.pc = "marked" /\ calls' = Goto("defines", SymbolOrder)
        /\ visited' = visited /\ clauses' = clauses \cup {B00}
    BY <1>13 DEF StartDefines, At
  <2>2. /\ Below(calls')
        /\ n \in DOMAIN calls'
        /\ calls'[n].pc = "defines" /\ calls'[n].blk = Caller.blk /\ calls'[n].todo = SymbolOrder
    BY <1>0, <1>1, <1>4, <2>1, GotoBelow
  <2>3. Begun(calls', clauses')
    BY <2>1 DEF Begun
  <2>4. ASSUME NEW b, NEW s \in Symbols, OwesIn(Caller, b, s) PROVE Owes(calls', b, s)
    <3>1. Caller.blk = b
      BY <2>4 DEF OwesIn
    <3>2. \E k \in DOMAIN SymbolOrder : SymbolOrder[k] = s
      BY DEF Symbols
    <3>3. OwesIn(calls'[n], b, s)
      BY <2>2, <3>1, <3>2 DEF OwesIn
    <3> QED  BY <2>2, <3>3 DEF Owes
  <2>5. clauses' \subseteq FileClauses
    BY <1>3, <2>1 DEF FileClauses
  <2>6. clauses \subseteq clauses'
    BY <2>1
  <2> QED  BY <1>0, <1>1, <1>3, <1>5, <2>1, <2>2, <2>3, <2>4, <2>5, <2>6, StepDepends
<1>14. CASE At("defines") /\ CallDefine
  <2> DEFINE todo == Caller.todo
  <2>1. PICK i \in DOMAIN todo :
          LET s == todo[i] IN
          /\ UsesDefine(Caller.blk, s)
          /\ \A j \in 1 .. i - 1 : ~UsesDefine(Caller.blk, todo[j])
          /\ clauses' = clauses \cup DefineClauses(s)
          /\ calls' = Append(Goto("defines", Behind(i)),
                             [pc |-> "define", blk |-> Top, todo |-> DefinedIn(s)])
          /\ visited' = visited
    BY <1>14 DEF CallDefine
  <2> DEFINE s0 == todo[i]
             g == Goto("defines", Behind(i))
             f == [pc |-> "define", blk |-> Top, todo |-> DefinedIn(s0)]
  <2>2. Caller.pc = "defines" /\ todo \in Seq(Symbols) /\ Caller.blk \in visited
    BY <1>2, <1>14 DEF At
  <2>3. s0 \in Symbols /\ i \in Nat \ {0} /\ i <= Len(todo) /\ DOMAIN todo = 1 .. Len(todo)
        /\ Len(todo) \in Nat
    BY <2>1, <2>2
  <2>4. Behind(i) \in Seq(Symbols) /\ \A k \in i + 1 .. Len(todo) :
          k - i \in DOMAIN Behind(i) /\ Behind(i)[k - i] = todo[k]
    <3>1. Behind(i) = SubSeq(todo, i + 1, Len(todo))
      BY DEF Behind
    <3>2. i \in 1 .. Len(todo)
      BY <2>3
    <3> HIDE DEF todo
    <3> QED  BY <2>2, <3>1, <3>2, BehindIs
  <2>5. /\ n \in Nat \ {0} /\ g \in Seq(Frame) /\ g # <<>> /\ Len(g) = n
        /\ n \in DOMAIN g /\ g[n].pc = "defines" /\ g[n].blk = Caller.blk /\ g[n].todo = Behind(i)
        /\ Below(g)
    BY <1>0, <1>1, <2>4, GotoBelow
  <2> HIDE DEF g, f
  <2>6. /\ \A j \in 1 .. n : j \in DOMAIN calls' /\ calls'[j] = g[j]
        /\ n + 1 \in DOMAIN calls' /\ calls'[n + 1] = f
    <3>1. calls' = Append(g, f)
      BY <2>1 DEF g, f
    <3> QED  BY <2>5, <3>1, PushBelow
  <2>7. /\ Below(calls')
        /\ n \in DOMAIN calls' /\ calls'[n] = g[n]
    <3>1. n \in 1 .. n /\ \A j \in 1 .. n - 1 : j \in 1 .. n
      BY <2>5
    <3> QED  BY <2>5, <2>6, <3>1 DEF Below
  <2>8. Followed(calls', visited', clauses', s0)
    <3>1. DefineClauses(s0) \subseteq clauses'
      BY <2>1
    <3>2. ASSUME NEW m \in DOMAIN defs[s0] PROVE Reached(calls', visited', defs[s0][m].in)
      <4>1. f.pc = "define" /\ m \in DOMAIN f.todo /\ f.todo[m] = defs[s0][m].in
        BY <3>2 DEF f, DefinedIn
      <4>2. AwaitsIn(calls'[n + 1], defs[s0][m].in)
        BY <2>6, <4>1 DEF AwaitsIn
      <4> QED  BY <2>6, <4>2 DEF Reached
    <3> QED  BY <3>1, <3>2 DEF Followed
  <2>9. ASSUME NEW b, NEW s \in Symbols, UsesDefine(b, s), OwesIn(Caller, b, s)
        PROVE  Followed(calls', visited', clauses', s) \/ Owes(calls', b, s)
    <3>1. PICK k \in DOMAIN todo : todo[k] = s /\ b = Caller.blk
      BY <2>2, <2>9 DEF OwesIn
    <3>2. CASE k < i
      <4>1. k \in 1 .. i - 1
        BY <2>3, <3>2
      <4> QED  BY <2>1, <2>9, <3>1, <4>1
    <3>3. CASE k = i
      BY <2>8, <3>1, <3>3
    <3>4. CASE k > i
      <4>1. k \in i + 1 .. Len(todo)
        BY <2>3, <3>4
      <4>2. OwesIn(calls'[n], b, s)
        BY <2>4, <2>5, <2>7, <3>1, <4>1 DEF OwesIn
      <4> QED  BY <2>7, <4>2 DEF Owes
    <3> QED  BY <2>3, <3>2, <3>3, <3>4
  <2>10. clauses' \subseteq FileClauses /\ clauses \subseteq clauses' /\ visited' = visited
    <3>1. DefineClauses(s0) \subseteq FileClauses
      BY <2>3 DEF FileClauses
    <3> QED  BY <1>3, <2>1, <3>1
  <2>11. visited # {}
    BY <2>2
  <2> QED  BY <1>0, <1>1, <1>3, <1>5, <2>2, <2>7, <2>9, <2>10, <2>11, StepDepends
<1>15. CASE At("defines") /\ DefinesDone
  <2>1. /\ Caller.pc = "defines" /\ calls' = Goto("leave", <<>>) /\ Caller.blk \in visited
        /\ visited' = visited /\ clauses' = clauses
        /\ \A i \in DOMAIN Caller.todo : ~UsesDefine(Caller.blk, Caller.todo[i])
    BY <1>2, <1>15 DEF DefinesDone, At
  <2>2. Below(calls')
    BY <1>0, <1>1, <1>4, <2>1, GotoBelow
  <2>3. ASSUME NEW b, NEW s, UsesDefine(b, s) PROVE ~OwesIn(Caller, b, s)
    BY <2>1, <2>3 DEF OwesIn
  <2> QED  BY <1>0, <1>1, <1>3, <1>5, <2>1, <2>2, <2>3, StepDepends
<1>16. CASE FollowDefine
  <2> DEFINE d == Head(Caller.todo)
             g == Goto("define", Behind(1))
  <2>1. /\ Caller.pc = "define" /\ Caller.todo # <<>>
        /\ visited' = visited /\ clauses' = clauses
        /\ d = Top \/ d \in visited => calls' = g
        /\ ~(d = Top \/ d \in visited) => calls' = Append(g, BlockCall(d))
    BY <1>16 DEF FollowDefine, At
  <2>2. Caller.todo \in Seq(Nat)
    BY <1>2, <2>1
  <2>3. /\ Behind(1) \in Seq(Nat)
        /\ \A k \in DOMAIN Caller.todo :
             \/ Caller.todo[k] = d
             \/ \E j \in DOMAIN Behind(1) : Behind(1)[j] = Caller.todo[k]
    <3>1. Behind(1) \in Seq(Nat)
      BY <2>1, <2>2 DEF Behind
    <3>2. ASSUME NEW k \in DOMAIN Caller.todo, k # 1
          PROVE  k - 1 \in DOMAIN Behind(1) /\ Behind(1)[k - 1] = Caller.todo[k]
      BY SMTT(30), <2>2, <3>2 DEF Behind
    <3>3. Caller.todo[1] = d
      BY <2>1, <2>2
    <3> QED  BY <3>1, <3>2, <3>3
  <2>4. /\ n \in Nat \ {0} /\ g \in Seq(Frame) /\ g # <<>> /\ Len(g) = n
        /\ n \in DOMAIN g /\ g[n].pc = "define" /\ g[n].todo = Behind(1)
        /\ Below(g)
    BY <1>0, <1>1, <2>3, GotoBelow
  <2> HIDE DEF g, d
  <2>5. /\ Below(calls')
        /\ n \in DOMAIN calls' /\ calls'[n] = g[n]
        /\ Reached(calls', visited', d)
    <3>1. CASE d = Top \/ d \in visited
      BY <2>1, <2>4, <3>1 DEF Reached
    <3>2. CASE ~(d = Top \/ d \in visited)
      <4>1. /\ calls' # <<>> /\ calls'[Len(calls')] = BlockCall(d)
            /\ \A i \in 1 .. n : i \in DOMAIN calls' /\ calls'[i] = g[i]
        BY <2>1, <2>4, <3>2, PushBelow
      <4>2. n \in 1 .. n /\ \A j \in 1 .. n - 1 : j \in 1 .. n
        BY <2>4
      <4>3. Entering(calls', d)
        BY <4>1 DEF Entering, BlockCall
      <4> QED  BY <2>4, <4>1, <4>2, <4>3 DEF Reached, Below
    <3> QED  BY <3>1, <3>2
  <2>6. ASSUME NEW x, AwaitsIn(Caller, x) PROVE Reached(calls', visited', x)
    <3>1. PICK k \in DOMAIN Caller.todo : Caller.todo[k] = x
      BY <2>6 DEF AwaitsIn
    <3>2. CASE x = d
      BY <2>5, <3>2
    <3>3. CASE x # d
      <4>1. \E j \in DOMAIN Behind(1) : Behind(1)[j] = x
        BY <2>3, <3>1, <3>3
      <4>2. AwaitsIn(calls'[n], x)
        BY <2>4, <2>5, <4>1 DEF AwaitsIn
      <4> QED  BY <2>5, <4>2 DEF Reached
    <3> QED  BY <3>2, <3>3
  <2> QED  BY <1>0, <1>1, <1>3, <1>6, <1>9, <2>1, <2>5, <2>6, StepDepends
<1>17. CASE DefineReturns
  <2>1. /\ Caller.pc = "define" /\ Caller.todo = <<>> /\ visited' = visited /\ clauses' = clauses
        /\ calls' = SubSeq(calls, 1, n - 1)
    BY <1>17 DEF DefineReturns, At
  <2>2. Below(calls')
    BY <1>0, <1>1, <2>1, PopBelow
  <2>3. ASSUME NEW d PROVE ~AwaitsIn(Caller, d)
    BY <2>1 DEF AwaitsIn
  <2> QED  BY <1>0, <1>1, <1>3, <1>6, <1>9, <2>1, <2>2, <2>3, StepDepends
<1>18. CASE Leave
  <2>1. /\ Caller.pc = "leave" /\ Caller.blk \in visited /\ calls' = SubSeq(calls, 1, n - 1)
        /\ n = 1 => clauses' = {} /\ visited' = {}
        /\ n # 1 => clauses' = clauses /\ visited' = visited
    BY <1>2, <1>18 DEF Leave, At
  <2>2. CASE n = 1
    BY <2>1, <2>2 DEF Depends
  <2>3. CASE n # 1
    <3>1. Below(calls')
      BY <1>0, <1>1, <2>1, PopBelow
    <3> QED  BY <1>0, <1>1, <1>3, <1>5, <1>6, <2>1, <2>3, <3>1, StepDepends
  <2> QED  BY <2>2, <2>3
<1> QED  BY <1>10, <1>11, <1>12, <1>13, <1>14, <1>15, <1>16, <1>17, <1>18 DEF Collect

\* When the top-level call is about to leave, the visited blocks are closed, and every
\* model of what was collected satisfies their conjuncts.
LEMMA AnswerClosed ==
    ASSUME IInv, FileInv, DependsInv, At("leave"), Len(calls) = 1, Caller.blk # Top
    PROVE  /\ Closed(blocks, defs, visited \ {Top})
           /\ Caller.blk \in visited \ {Top}
           /\ \A m \in Models(clauses) : Satisfies(blocks, defs, visited \ {Top}, m)
<1> DEFINE C == visited \ {Top}
<1>1. Shaped(blocks, defs)
  BY DEF FileInv, ShapeInv
<1>2. DOMAIN calls = {1} /\ Caller = calls[1] /\ Caller.pc = "leave"
  BY DEF IInv, CallsInv, Caller, At
<1>3. Caller.blk \in C
  BY <1>2 DEF IInv, CallsInv
<1>4. C \subseteq 1 .. Len(blocks)
  BY <1>1, ShapedBackwards DEF DependsInv, Depends, BlockIds, Top
<1>5. \A b, s : ~Owes(calls, b, s)
  BY <1>2 DEF Owes, OwesIn
<1>6. \A d : Reached(calls, visited, d) => d \in C \cup {0}
  BY <1>2 DEF Reached, AwaitsIn, Entering, Top
<1>7. ASSUME NEW b \in C PROVE LinkOf(blocks, b) \in C \cup {0}
  <2>1. Linked(calls, visited, b)
    BY DEF DependsInv, Depends
  <2>2. Link(b) \in C \cup {0}
    BY <1>2, <2>1 DEF Linked, Entering, Top
  <2> QED  BY <2>2 DEF LinkOf, Link, IsIf, Top
<1>8. ASSUME NEW b \in C, NEW l \in blocks[b].exp, NEW n \in 1 .. l.ver
      PROVE  /\ l.sym \in Symbols /\ n \in DOMAIN defs[l.sym]
             /\ defs[l.sym][n].in \in C \cup {0}
             /\ <<"define", l.sym, n>> \in clauses
  <2>1. b \in 1 .. Len(blocks) /\ Earlier(blocks, defs, b)
    BY <1>1, <1>4 DEF Shaped
  <2>2. l.sym \in Symbols /\ l.ver \in Nat /\ l.ver <= Len(defs[l.sym])
    BY <1>1, <2>1, ShapedBlock
  <2>3. /\ Len(defs[l.sym]) \in Nat /\ DOMAIN defs[l.sym] = 1 .. Len(defs[l.sym])
        /\ defs[l.sym] \in Seq(DefineRecord)
    BY <1>1, <2>2, ShapedDefine
  <2>4. n \in DOMAIN defs[l.sym] /\ defs[l.sym] # <<>>
    BY <2>2, <2>3
  <2>5. UsesDefine(b, l.sym)
    BY <2>1, <2>4 DEF UsesDefine, Earlier
  <2>6. Followed(calls, visited, clauses, l.sym)
    BY <1>5, <2>2, <2>5 DEF DependsInv, Depends
  <2>7. Reached(calls, visited, defs[l.sym][n].in) /\ DefineClauses(l.sym) \subseteq clauses
    BY <2>4, <2>6 DEF Followed
  <2>8. <<"define", l.sym, n>> \in DefineClauses(l.sym)
    BY <2>3, <2>4 DEF DefineClauses
  <2> QED  BY <1>6, <2>2, <2>4, <2>7, <2>8
<1>9. Closed(blocks, defs, C)
  BY <1>4, <1>7, <1>8 DEF Closed
<1>10. ASSUME NEW m \in Models(clauses) PROVE Satisfies(blocks, defs, C, m)
  <2>1. m \in Assignments(blocks, defs)
    BY DEF Models, Assignments, BlockIds, Versions, VersionsOf
  <2>2. \A c \in clauses : Holds(c, m)
    BY DEF Models
  <2>3. m.on[0]
    <3>1. Begun(calls, clauses)
      BY <1>3 DEF DependsInv, Depends
    <3>2. B00 \in clauses
      BY <1>2, <3>1 DEF Begun
    <3> QED  BY <2>2, <3>2 DEF Holds, B00, Top
  <2>4. ASSUME NEW b \in C PROVE m.on[b] <=> Enabled(blocks, b, m)
    <3>1. BlockClause(b) \in clauses
      BY DEF IInv, CollectedInv
    <3>2. Holds(BlockClause(b), m) <=> BlockHolds(b, m)
      BY DEF Holds, BlockClause
    <3>3. BlockHolds(b, m)
      BY <2>2, <3>1, <3>2
    <3> QED  BY <3>3, PredsAre DEF BlockHolds, Enabled, Top
  <2>5. ASSUME NEW b \in C, NEW l \in blocks[b].exp, NEW n \in 1 .. l.ver
        PROVE  m.val[<<l.sym, n>>] = Made(defs, l.sym, n, m)
    <3>1. Holds(<<"define", l.sym, n>>, m)
      BY <1>8, <2>2
    <3>2. Holds(<<"define", l.sym, n>>, m) <=> DefineHolds(l.sym, n, m)
      BY DEF Holds
    <3> QED  BY <3>1, <3>2 DEF DefineHolds, Made
  <2> QED  BY <2>1, <2>3, <2>4, <2>5 DEF Satisfies
<1> QED  BY <1>3, <1>9, <1>10

LEMMA AnswerExact == IInv /\ FileInv /\ DependsInv => FirstAnswerExact
<1> SUFFICES ASSUME IInv, FileInv, DependsInv, At("leave"), Len(calls) = 1, Caller.blk # Top
             PROVE  DecidesLikeFile(Caller.blk, clauses)
  BY DEF FirstAnswerExact
<1> DEFINE C == visited \ {Top}
           b == Caller.blk
           p == blocks[b].parent
<1>1. Closed(blocks, defs, C) /\ b \in C
      /\ \A m \in Models(clauses) : Satisfies(blocks, defs, C, m)
  BY AnswerClosed
<1>2. Shaped(blocks, defs) /\ C \subseteq 1 .. Len(blocks)
  BY <1>1 DEF FileInv, ShapeInv, Closed
<1> HIDE DEF C, b, p
<1>3. p \in C \cup {0}
  BY <1>1, <1>2, ClosedChain DEF p
<1>4. ASSUME NEW m \in Models(FileClauses) PROVE m \in Models(clauses)
  BY DEF Models, DependsInv, Depends
<1>5. ASSUME NEW m \in Models(clauses)
      PROVE  \E m2 \in Models(FileClauses) : m2.on[b] = m.on[b] /\ m2.on[p] = m.on[p]
  <2> DEFINE c == [s \in Symbols |-> m.val[<<s, 0>>]]
  <2>1. Satisfies(blocks, defs, C, m)
    BY <1>1
  <2>2. c \in [Symbols -> BOOLEAN]
    <3>1. m.val \in [VersionsOf(defs) -> BOOLEAN]
      BY <2>1 DEF Satisfies, Assignments
    <3>2. \A s \in Symbols : <<s, 0>> \in VersionsOf(defs)
      <4>1. ASSUME NEW s \in Symbols PROVE 0 \in 0 .. Len(defs[s])
        BY <1>2, ShapedDefine
      <4> QED  BY <4>1, VersionIn
    <3> QED  BY <3>1, <3>2
  <2>3. PICK m2 : IsModel(blocks, defs, m2) /\ Extends(m2, c)
    BY <2>2 DEF FileInv, MirrorInv, RunsAs
  <2>4. m2 \in Models(FileClauses)
    BY <2>3, ModelsAre DEF IInv
  <2>5. Satisfies(blocks, defs, C, m2)
    BY <1>2, <2>3, ModelSatisfies
  <2>6. \A s \in Symbols : m2.val[<<s, 0>>] = m.val[<<s, 0>>]
    BY <2>3 DEF Extends
  <2>7. ASSUME NEW x \in C PROVE m2.on[x] = m.on[x]
    BY <1>1, <1>2, <2>1, <2>5, <2>6, Determined
  <2>8. m2.on[0] = m.on[0]
    <3>1. 0 \in 0 .. Len(blocks)
      BY <1>2, ShapedBackwards
    <3>2. m.on \in [0 .. Len(blocks) -> BOOLEAN] /\ m2.on \in [0 .. Len(blocks) -> BOOLEAN]
      BY <2>1, <2>5 DEF Satisfies, Assignments
    <3> QED  BY <2>1, <2>5, <3>1, <3>2 DEF Satisfies
  <2> QED  BY <1>1, <1>3, <2>4, <2>7, <2>8
<1>6. Selectable(b, clauses) <=> Selectable(b, FileClauses)
  BY <1>4, <1>5 DEF Selectable
<1>7. Deselectable(b, clauses) <=> Deselectable(b, FileClauses)
  BY <1>4, <1>5 DEF Deselectable, p
<1> QED  BY <1>6, <1>7 DEF DecidesLikeFile, b

\* For every file, and whatever was asked before: the conjuncts collected for a block
\* decide it as those of the whole file do. The recursion through the chain, the defines
\* and the blocks that make them leaves nothing out.
THEOREM FirstAnswer == Spec => []FirstAnswerExact
<1>1. Init => DependsInv
  BY DEF Init, DependsInv, Depends
<1>2. IInv /\ StackInv /\ DependsInv /\ [Next]_vars => DependsInv'
  BY OutsideDepends, CollectDepends DEF Next
<1> QED
  BY <1>1, <1>2, AnswerExact, Invariance, StackInvariance, FileInvariance, PTL DEF Spec
=============================================================================
