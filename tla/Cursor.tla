------------------------------- MODULE Cursor -------------------------------
(***************************************************************************)
(* cursor::query (table/cursor.cpp) over an index with an open transaction.*)
(* The tree of BPlusTree is what bplus_tree::read_op shows: the private    *)
(* copies of the transaction where there are some, else the shared pages.  *)
(* query() descends through it, but then reads the leaves from the shared  *)
(* pages, where the last committed tree is, and the fresh header of every  *)
(* page that the transaction has allocated. A commit replaces the shared   *)
(* pages one by one, in any order.                                         *)
(***************************************************************************)
EXTENDS BPlusScan

VARIABLES
  shared,     \* io_manager: page id -> node record
  cur_tx,     \* a transaction is open
  installing, \* fs::commit is replacing the shared pages
  committed,  \* ghost: the table before that transaction, a record for each key
  firstNew    \* ghost: the first page id that it can have allocated

cursorVars == <<vars, shared, cur_tx, installing, committed, firstNew>>

CursorInit ==
  /\ Init
  /\ shared = node
  /\ cur_tx = FALSE
  /\ installing = FALSE
  /\ committed = Content
  /\ firstNew = pageCnt

\* start_transaction; nothing is private yet.
StartTransaction ==
  /\ ~cur_tx /\ up = NoCall
  /\ cur_tx' = TRUE
  /\ UNCHANGED <<vars, shared, installing, committed, firstNew>>

\* Variant: changes go straight to the shared pages.
PagesAllocatedShared == shared' = node'

\* alloc() leaves a page with a fresh header in the shared cache, of which
\* the first access makes the private copy that is filled.
PagesAllocated ==
  \E stale \in StaleNext :
    shared' = [p \in PageIds |->
                 IF node[p] = NoNode /\ node'[p] # NoNode
                 THEN NewNode(node'[p].leaf, node'[p].rootBit, stale)
                 ELSE shared[p]]

\* Any call of add or remove, and every step of insert_parent.
TreeCall ==
  \/ \E key \in Keys : LazyRemove(key) \/ \E rec \in Records : Add(key, rec)
  \/ InsertParent

InTransaction ==
  /\ cur_tx /\ ~installing
  /\ TreeCall
  /\ PagesAllocated
  /\ UNCHANGED <<cur_tx, installing, committed, firstNew>>

\* The same without a transaction, for xBegin is not called for a table that
\* was just created: write_op gives the shared pages themselves, and what is
\* written counts as committed at once. Bound: no other transaction is open.
WithoutTransaction ==
  /\ ~cur_tx
  /\ TreeCall
  /\ shared' = node'
  /\ committed' = Content'
  /\ firstNew' = pageCnt'
  /\ UNCHANGED <<cur_tx, installing>>

\* fs::commit, from the COMMITTED record on: the private pages replace the
\* shared ones in the order of an unordered_map, and the transaction is over.
Commit ==
  /\ cur_tx /\ up = NoCall /\ ~installing
  /\ installing' = TRUE
  /\ UNCHANGED <<vars, shared, cur_tx, committed, firstNew>>

InstallPage(p) ==
  /\ installing
  /\ shared[p] # node[p]
  /\ shared' = [shared EXCEPT ![p] = node[p]]
  /\ UNCHANGED <<vars, cur_tx, installing, committed, firstNew>>

EndCommit ==
  /\ installing
  /\ shared = node
  /\ cur_tx' = FALSE
  /\ installing' = FALSE
  /\ committed' = Content
  /\ firstNew' = pageCnt
  /\ UNCHANGED <<vars, shared>>

CursorNext ==
  \/ StartTransaction \/ InTransaction \/ WithoutTransaction
  \/ Commit \/ (\E p \in PageIds : InstallPage(p)) \/ EndCommit

CursorSpec == CursorInit /\ [][CursorNext]_cursorVars
-----------------------------------------------------------------------------
\* One iteration of the loop of query(). A removed record is passed over.
Advanced(t, ub) ==
  LET leaf == shared[t.leaf]
  IN  IF t.pos > Len(leaf.keys)
      THEN IF leaf.next = ERROR_PAGE THEN [t EXCEPT !.done = TRUE]
           ELSE [t EXCEPT !.leaf = leaf.next, !.pos = 1]
      ELSE IF leaf.keys[t.pos] > ub THEN [t EXCEPT !.done = TRUE]
      ELSE IF leaf.ch[t.pos] = ERROR_PAGE THEN [t EXCEPT !.pos = @ + 1]
      ELSE [t EXCEPT !.pos = @ + 1, !.records = Append(@, leaf.ch[t.pos])]

\* Variant: the scan starts at the first key that is greater.
ScanAfter(leaf_id, lb, ub) ==
  LET at[i \in 0 .. MaxSteps] ==
        IF i = 0 THEN [leaf |-> leaf_id, pos |-> find_first_gt(shared[leaf_id], lb),
                       records |-> <<>>, done |-> FALSE]
        ELSE LET t == at[i - 1] IN IF t.done THEN t ELSE Advanced(t, ub)
  IN  at[MaxSteps].records

Scan(leaf_id, lb, ub) ==
  LET at[i \in 0 .. MaxSteps] ==
        IF i = 0 THEN [leaf |-> leaf_id, pos |-> find_first_ge(shared[leaf_id], lb),
                       records |-> <<>>, done |-> FALSE]
        ELSE LET t == at[i - 1] IN IF t.done THEN t ELSE Advanced(t, ub)
  IN  IF at[MaxSteps].done THEN at[MaxSteps].records ELSE Undefined

query(lb, ub) ==
  IF root = ERROR_PAGE THEN <<>> ELSE Scan(down_to_leaf(lb), lb, ub)
-----------------------------------------------------------------------------
Unlimited == Cardinality(Keys)

\* The leaves that the shared pages had before the transaction.
SharedLeaves == {p \in 1 .. firstNew - 1 : shared[p].leaf}

\* Where it starts in a leaf that is as old as the last commit and comes to
\* an end, a scan returns exactly the committed rows of its interval: nothing
\* of its own transaction, whatever that has divided, removed and revived.
\* Where it starts in a leaf that the transaction has made, nothing is said;
\* SeesOneTable of Connections fails there.
ScanIsCommitted ==
  up = NoCall /\ root # ERROR_PAGE /\ ~installing =>
    \A lb, ub \in Bounds :
      /\ down_to_leaf(lb) < firstNew
      /\ ComesToEnd(shared, SharedLeaves, lb, ub)
      => query(lb, ub) = Answer(committed, lb, ub, Unlimited)
=============================================================================
