----------------------------- MODULE Connections -----------------------------
(***************************************************************************)
(* Several connections of one process to one table. SQLite gives each its  *)
(* own table object (vtab_connect, vtab_disconnect), and with it a         *)
(* bplus_tree whose `root` is a copy, read from the head page by the       *)
(* constructor and changed by its own divisions only. io_manager and the   *)
(* head page are shared (fs/binder.h, fs/header_factory.cpp), and vtab_    *)
(* begin lets one transaction in at a time. The `root` of BPlusTree is     *)
(* that of the connection whose turn it is. Connections open and close     *)
(* between transactions here; TxLog has what a connect does in one. The    *)
(* others scan at any time, also between two pages of a commit; one scan   *)
(* is one step.                                                            *)
(***************************************************************************)
EXTENDS Cursor

CONSTANT Conns

VARIABLES
  me,        \* the connection whose turn it is
  roots,     \* each connection's copy of the root
  headRoot,  \* head_page::root
  astray     \* ghost: some connection wrote while its root was an old one

connVars == <<cursorVars, me, roots, headRoot, astray>>

\* Everybody connects to an empty table.
ConnInit ==
  /\ CursorInit
  /\ me \in Conns
  /\ roots = [c \in Conns |-> ERROR_PAGE]
  /\ headRoot = ERROR_PAGE
  /\ astray = FALSE

\* Disconnect and connect, which need not follow each other at once: the old
\* table object is deleted, the new one's tree reads the head page.
Connect(c) ==
  /\ ~cur_tx /\ up = NoCall
  /\ c # me
  /\ roots' = [roots EXCEPT ![c] = headRoot]
  /\ UNCHANGED <<cursorVars, me, headRoot, astray>>

\* The next to write is connection c.
Turn(c) ==
  /\ ~cur_tx /\ up = NoCall
  /\ c # me
  /\ me' = c
  /\ root' = roots[c]
  /\ UNCHANGED <<node, pageCnt, up, last, shared, cur_tx, installing, committed,
                 firstNew, roots, headRoot, astray>>

\* A step of a call; head.set_root(root = ...) wherever root changes.
RootsFollow ==
  /\ roots' = [roots EXCEPT ![me] = root']
  /\ headRoot' = IF root' # root THEN root' ELSE headRoot
  /\ astray' = (astray \/ root # headRoot)
  /\ UNCHANGED me

TransactionStep ==
  \/ StartTransaction \/ Commit \/ EndCommit
  \/ \E p \in PageIds : InstallPage(p)

ConnTransaction ==
  \/ TransactionStep /\ UNCHANGED <<me, roots, headRoot, astray>>
  \/ (InTransaction \/ WithoutTransaction) /\ RootsFollow

ConnNext ==
  \/ ConnTransaction
  \/ \E c \in Conns : Connect(c) \/ Turn(c)

ConnSpec == ConnInit /\ [][ConnNext]_connVars
-----------------------------------------------------------------------------
\* Variant: the descent sees the private pages of the running transaction.
SharedLeafPrivate(r, key) ==
  LET cur[step \in 0 .. MaxPage] ==
        IF step = 0 THEN r
        ELSE LET p == cur[step - 1]
             IN  IF node[p].leaf THEN p
                 ELSE node[p].ch[find_first_gt(node[p], key)]
  IN  cur[MaxPage]

\* down_to_leaf and query() of a connection without a transaction: all pages
\* are the shared ones, whatever another connection's transaction is at.
SharedLeaf(r, key) ==
  LET cur[step \in 0 .. MaxPage] ==
        IF step = 0 THEN r
        ELSE LET p == cur[step - 1]
             IN  IF shared[p].leaf THEN p
                 ELSE shared[p].ch[find_first_gt(shared[p], key)]
  IN  cur[MaxPage]

queryOf(c, lb, ub) ==
  IF roots[c] = ERROR_PAGE THEN <<>> ELSE Scan(SharedLeaf(roots[c], lb), lb, ub)
-----------------------------------------------------------------------------
\* The tables between the last commit and the one that is being installed: of
\* every row, the old version or the new one.
Shown ==
  LET changed == {k \in Keys : installing /\ committed[k] # Content[k]}
  IN  {[k \in Keys |-> IF k \in new THEN Content[k] ELSE committed[k]] :
         new \in SUBSET changed}

\* The scan returns the rows of the interval in one of these tables, and
\* nothing else than perhaps the rows right before it; SQLite, which is not
\* told to omit its own check (vtab_best_index), drops those.
Covers(c, lb, ub) ==
  LET rows == queryOf(c, lb, ub)
  IN  \E table \in Shown, from \in {lb} \cup {k \in Keys : k < lb} :
        rows = Answer(table, from, ub, Unlimited)

\* Whoever reads without a transaction of its own, and not amidst a call that
\* writes the shared pages themselves.
Reading == {c \in Conns : IF c = me THEN ~cur_tx /\ up = NoCall ELSE cur_tx \/ up = NoCall}

\* What ScanIsCommitted says of a scan before, in and after a transaction holds
\* of every connection that has seen all divisions of the root, as long as
\* nobody has written under an old one.
FreshScanIsCommitted == ~astray /\ root = headRoot => ScanIsCommitted

\* The comment in bplus_tree.h (line 11): reading and writing alike, one sees
\* the private state of the transaction; line 13, of the last commit. One
\* table in any case, for a connection that has seen all divisions.
SeesOneTable ==
  ~astray /\ root = headRoot /\ up = NoCall /\ ~installing =>
    \A lb, ub \in Bounds :
      query(lb, ub) \in {Answer(table, lb, ub, Unlimited) : table \in {Content, committed}}

\* The commit in progress has divided a page.
Divides == installing /\ pageCnt # firstNew

\* A connection whose root is an old one, however many divisions ago, misses
\* no committed row of any interval that comes to an end, also in the middle
\* of another connection's transaction, and sees each row as it was or as it
\* will be while one that divides no page is installed: the old root is the
\* leftmost page of its level, rows only ever move to the right of where it
\* leads, and the scan walks there along the leaves.
OldRootsSuffice ==
  ~astray /\ ~Divides =>
    \A c \in Reading : roots[c] # ERROR_PAGE =>
      \A lb, ub \in Bounds :
        ComesToEnd(shared, SharedLeaves, lb, ub) => Covers(c, lb, ub)

\* The comment in io_manager.h (line 33): the cache that the connections share
\* is meant to be a read-committed one. Then a scan would find at least the
\* rows of its interval that the commit in progress leaves as they are.
UntouchedRowsStay ==
  ~astray =>
    \A c \in Reading : roots[c] # ERROR_PAGE =>
      \A lb, ub \in Bounds :
        ComesToEnd(shared, {p \in 1 .. pageCnt - 1 : shared[p].leaf}, lb, ub) =>
        Cardinality({k \in Live(committed, lb, ub) : Content[k] = committed[k]})
          <= Len(queryOf(c, lb, ub))

\* The README's (line 7 and 8) index over a table that is one for everybody:
\* the same also of connections that connected when the table was empty.
EveryoneReads ==
  ~astray /\ ~Divides =>
    \A c \in Reading : \A lb, ub \in Bounds : Covers(c, lb, ub)

\* head_page holds the root "for updating the root" (bplus_tree.h, line 34):
\* whoever writes, there is one tree, in which no key is entered twice.
KeysOnce ==
  up = NoCall =>
    \A k \in Keys :
      Cardinality({p \in Leaves : k \in ToSet(node[p].keys)}) <= 1
=============================================================================
