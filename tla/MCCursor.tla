------------------------------ MODULE MCCursor ------------------------------
(* Connections and Cursor for TLC: a prepared tree is committed, its first    *)
(* key apart, then transactions make MaxOps further calls. Connections come   *)
(* and go between transactions.                                               *)
EXTENDS Connections, TLC

CONSTANTS Preloads,   \* the prepared sequences of keys
          MaxOps      \* bound: further calls

VARIABLES script, ops

MCVars == <<connVars, script, ops>>

MCInit == ConnInit /\ script \in Preloads /\ ops = 0

Begun == \E p \in PageIds : shared[p] # NoNode /\ shared[p].keys # <<>>

Prepare ==
  /\ cur_tx /\ ~installing /\ up = NoCall /\ script # <<>>
  /\ root # ERROR_PAGE => Begun
  /\ Add(Head(script), CHOOSE rec \in Records : TRUE)
  /\ PagesAllocated
  /\ RootsFollow
  /\ script' = Tail(script)
  /\ UNCHANGED <<cur_tx, installing, committed, firstNew, ops>>

Free ==
  /\ up = NoCall => script = <<>> /\ ops < MaxOps
  /\ InTransaction \/ WithoutTransaction
  /\ RootsFollow
  /\ ops' = IF up = NoCall THEN ops + 1 ELSE ops
  /\ UNCHANGED script

Border ==
  /\ \/ TransactionStep /\ (Commit => script = <<>> \/ ~Begun)
        /\ UNCHANGED <<me, roots, headRoot, astray>>
     \/ \E c \in Conns : Connect(c) \/ Turn(c)
  /\ UNCHANGED <<script, ops>>

MCNext == Prepare \/ Free \/ Border

MCSpec == MCInit /\ [][MCNext]_MCVars

\* Connections that write under an old root are the subject of KeysOnce.
NobodyAstray == ~astray

\* Which connection is which does not matter.
Symmetry == Permutations(Conns)

\* All but the ghost `last`.
View == <<node, root, pageCnt, up, shared, cur_tx, installing, committed, firstNew,
          me, roots, headRoot, astray, script, ops>>

MCKeys == 1 .. 10
MCBounds == {0, 4, 11}
MCPreloads == {<<>>, <<2, 4, 6>>, [i \in 1 .. 9 |-> i]}
=============================================================================
