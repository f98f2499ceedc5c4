------------------------------ MODULE BPlusTree ------------------------------
(***************************************************************************)
(* The primary index of a table (fs/bplus_tree.h): add, the lazy remove,   *)
(* and insert_parent, which carries a division towards the root one level  *)
(* per call. Between two calls the tree is in a state no reader expects;   *)
(* `up` holds the arguments of the pending call.                           *)
(*                                                                         *)
(* A page is its node record; the cache, the file and the private copies   *)
(* of a transaction are the business of BufferPool and TxLog. head.root    *)
(* always equals root and is not kept twice. A removed key stays in its    *)
(* leaf with ERROR_PAGE in place of the record.                            *)
(***************************************************************************)
EXTENDS BPlusNode, FiniteSets

CONSTANTS Keys, Records,
          MaxPage,     \* bound: pages of the index
          StaleNext,   \* what uninitialised memory may hold as `next`
          NoNode,      \* the page is not allocated
          NoCall       \* no insert_parent is pending

PageIds == 1 .. MaxPage

\* What a page may hold, and the arguments of insert_parent.
Nodes ==
  [leaf : BOOLEAN, rootBit : BOOLEAN, keys : Seq(Keys),
   ch : Seq(Records \cup PageIds \cup {ERROR_PAGE}),
   parent : PageIds \cup {ERROR_PAGE}, next : StaleNext \cup PageIds]

Calls == [l : PageIds, key : Keys, r : PageIds]

ASSUME TreeAssumption ==
  /\ Keys \subseteq Int
  /\ ERROR_PAGE \notin Records
  /\ MaxPage \in Nat
  /\ StaleNext \subseteq Nat /\ StaleNext # {}
  /\ NoNode \notin Nodes
  /\ NoCall \notin Calls

VARIABLES
  node,     \* page id -> node record, NoNode if not allocated
  root,     \* bplus_tree::root; ERROR_PAGE in an empty table
  pageCnt,  \* next page id
  up,       \* arguments of the pending insert_parent: [l, key, r]
  last      \* ghost: the last call, as <<key, its new record or ERROR_PAGE>>

vars == <<node, root, pageCnt, up, last>>

Allocated == {p \in PageIds : node[p] # NoNode}
Leaves == {p \in Allocated : node[p].leaf}
Internals == Allocated \ Leaves

Init ==
  /\ node = [p \in PageIds |-> NoNode]
  /\ root = ERROR_PAGE
  /\ pageCnt = 1
  /\ up = NoCall
  /\ last = NoCall

\* down_to_leaf(key): from the root to the child right of the last key that
\* is not greater, until a leaf is met; MaxPage steps always suffice.
down_to_leaf(key) ==
  LET cur[step \in 0 .. MaxPage] ==
        IF step = 0 THEN root
        ELSE LET p == cur[step - 1]
             IN  IF node[p].leaf THEN p
                 ELSE node[p].ch[find_first_gt(node[p], key)]
  IN  cur[MaxPage]
-----------------------------------------------------------------------------
\* add(key, rec), by what the leaf says of the key.

\* The first add of a table makes the root: a leaf whose `next` nobody sets.
AddToEmpty(key, rec) ==
  /\ root = ERROR_PAGE
  /\ pageCnt \in PageIds
  /\ \E stale \in StaleNext :
       node' = [node EXCEPT ![pageCnt] =
                  insert_notfull(NewNode(TRUE, TRUE, stale), key, rec)]
  /\ root' = pageCnt
  /\ pageCnt' = pageCnt + 1
  /\ UNCHANGED up

\* The key is in the leaf: a removed key is revived, a present one is kept
\* and the new record is dropped without a word.
AddToKey(key, rec) ==
  /\ root # ERROR_PAGE
  /\ LET leaf == down_to_leaf(key)
         pos == find_key(node[leaf], key)
     IN  /\ pos <= Len(node[leaf].keys)
         /\ node' = IF node[leaf].ch[pos] = ERROR_PAGE
                    THEN [node EXCEPT ![leaf].ch[pos] = rec] ELSE node
  /\ UNCHANGED <<root, pageCnt, up>>

AddToLeaf(key, rec) ==
  /\ root # ERROR_PAGE
  /\ LET leaf == down_to_leaf(key)
     IN  /\ find_key(node[leaf], key) > Len(node[leaf].keys)
         /\ ~is_full(node[leaf])
         /\ node' = [node EXCEPT ![leaf] = insert_notfull(@, key, rec)]
  /\ UNCHANGED <<root, pageCnt, up>>

\* A full leaf is divided, and the parent is to learn of it.
AddToFull(key, rec) ==
  /\ root # ERROR_PAGE
  /\ pageCnt \in PageIds
  /\ LET leaf == down_to_leaf(key)
         halves == LeafHalves(node[leaf], pageCnt, key, rec)
     IN  /\ find_key(node[leaf], key) > Len(node[leaf].keys)
         /\ is_full(node[leaf])
         /\ node' = [node EXCEPT ![leaf] = halves.left, ![pageCnt] = halves.right]
         /\ up' = [l |-> leaf, key |-> halves.key, r |-> pageCnt]
  /\ pageCnt' = pageCnt + 1
  /\ UNCHANGED root

Add(key, rec) ==
  /\ up = NoCall
  /\ last' = <<key, rec>>
  /\ \/ AddToEmpty(key, rec) \/ AddToKey(key, rec)
     \/ AddToLeaf(key, rec) \/ AddToFull(key, rec)

\* remove(key): the record position is overwritten, nothing else moves. A
\* key that is not there, or removed before, leaves the page as it is.
Found(key) ==
  /\ root # ERROR_PAGE
  /\ LET n == node[down_to_leaf(key)] IN find_key(n, key) <= Len(n.keys)

Without(key) ==
  LET leaf == down_to_leaf(key)
  IN  [node EXCEPT ![leaf].ch[find_key(node[leaf], key)] = ERROR_PAGE]

LazyRemove(key) ==
  /\ up = NoCall
  /\ last' = <<key, ERROR_PAGE>>
  /\ node' = IF Found(key) THEN Without(key) ELSE node
  /\ UNCHANGED <<root, pageCnt, up>>
-----------------------------------------------------------------------------
\* insert_parent(up.l, up.key, up.r).

\* The root was divided: a new root over both halves.
ParentIsNew ==
  /\ up.l = root
  /\ pageCnt \in PageIds
  /\ \E stale \in StaleNext :
       node' = [node EXCEPT
         ![pageCnt] = [NewNode(FALSE, TRUE, stale) EXCEPT
                         !.keys = <<up.key>>, !.ch = <<up.l, up.r>>],
         ![up.l].parent = pageCnt, ![up.l].rootBit = ~@,
         ![up.r].parent = pageCnt]
  /\ root' = pageCnt
  /\ pageCnt' = pageCnt + 1
  /\ up' = NoCall

Parent == node[up.l].parent

ParentHasRoom ==
  /\ up.l # root
  /\ ~is_full(node[Parent])
  /\ node' = [node EXCEPT
       ![Parent] = InsertedRightOf(@, up.l, up.key, up.r),
       ![up.r].parent = Parent]
  /\ up' = NoCall
  /\ UNCHANGED <<root, pageCnt>>

\* A full parent is divided in turn; the children of the new half are told
\* their new parent, and the call is repeated one level higher.
ParentIsFull ==
  /\ up.l # root
  /\ is_full(node[Parent])
  /\ pageCnt \in PageIds
  /\ \E stale \in StaleNext :
       LET halves == InternalHalves(node[Parent], up.l, up.key, up.r, stale)
           divided == [node EXCEPT ![Parent] = halves.left,
                                   ![pageCnt] = halves.right]
       IN  /\ node' = [p \in PageIds |->
                         IF p \in ToSet(halves.right.ch)
                         THEN [divided[p] EXCEPT !.parent = pageCnt]
                         ELSE divided[p]]
           /\ up' = [l |-> Parent, key |-> halves.key, r |-> pageCnt]
  /\ pageCnt' = pageCnt + 1
  /\ UNCHANGED root

\* Variant: without the case of a divided root.
InsertParentBelow ==
  up # NoCall /\ (ParentHasRoom \/ ParentIsFull) /\ UNCHANGED last

InsertParent ==
  up # NoCall /\ (ParentIsNew \/ ParentHasRoom \/ ParentIsFull) /\ UNCHANGED last

Next ==
  \/ \E key \in Keys : LazyRemove(key) \/ \E rec \in Records : Add(key, rec)
  \/ InsertParent

Spec == Init /\ [][Next]_vars

\* insert_parent calls itself until it is done; nothing can stop the thread.
FairSpec == Spec /\ WF_vars(InsertParent)
-----------------------------------------------------------------------------
\* Every variable has its type.
TypeOK ==
  /\ \A p \in PageIds : IF p < pageCnt THEN node[p] \in Nodes ELSE node[p] = NoNode
  /\ root \in PageIds \cup {ERROR_PAGE}
  /\ pageCnt \in 1 .. MaxPage + 1
  /\ up \in Calls \cup {NoCall}
  /\ last \in (Keys \X (Records \cup {ERROR_PAGE})) \cup {NoCall}

ChildrenOf(p) == IF p \in Internals THEN ToSet(node[p].ch) ELSE {}
Pending == IF up = NoCall THEN {} ELSE {up.r}

\* The pages form one tree, also between two calls of insert_parent: apart
\* from the root and the half that is still to be inserted, every page is a
\* child of exactly one page, at one position, and its parent field names
\* that page; the pending half already names the parent of its sibling. The
\* climb trusts these fields after pages moved to a new parent.
OneTree ==
  /\ \A p \in Internals :
       /\ IsInjective(node[p].ch)
       /\ \A c \in ChildrenOf(p) : c \in Allocated /\ node[c].parent = p
  /\ \A c \in Allocated :
       c \in {root} \cup Pending <=> \A p \in Internals : c \notin ChildrenOf(p)
  /\ \A c \in Pending :
       c # root /\ node[c].parent = node[up.l].parent

\* Pages are never overfull, so no child is written over the `next` of a
\* leaf or behind the page, and never below the half that a division leaves;
\* a page has one child more than keys, a leaf one record per key. Only the
\* root has the ROOT bit, which insert_parent toggles.
PagesAreFilled ==
  \A p \in Allocated :
    LET n == node[p] IN
    /\ Len(n.keys) <= Order - 1
    /\ Len(n.ch) = IF n.leaf THEN Len(n.keys) ELSE Len(n.keys) + 1
    /\ Len(n.keys) >= IF p = root THEN 1
                      ELSE IF n.leaf THEN split_point ELSE split_point - 1
    /\ n.rootBit <=> p = root

\* The pages by their distance from the root.
Levels ==
  LET level[d \in 0 .. MaxPage] ==
        IF d = 0 THEN {root} \ {ERROR_PAGE}
        ELSE UNION {ChildrenOf(p) : p \in level[d - 1]}
  IN  level

\* Every key is in the leaf to which the descent for it leads, keys ascend in
\* every page, and all leaves are equally deep.
Searchable ==
  up = NoCall =>
    /\ \A p \in Allocated :
         \A i \in 1 .. Len(node[p].keys) - 1 : node[p].keys[i] < node[p].keys[i + 1]
    /\ \A p \in Leaves : \A k \in ToSet(node[p].keys) : down_to_leaf(k) = p
    /\ LET level == Levels
       IN  \A d \in 0 .. MaxPage :
             level[d] \subseteq Leaves \/ level[d] \cap Leaves = {}

\* The records of the table: the live entries of all leaves.
RecordsUnder(k) ==
  {rec \in Records :
     \E p \in Leaves : \E i \in 1 .. Len(node[p].keys) :
       node[p].keys[i] = k /\ node[p].ch[i] = rec}

Content ==
  [k \in Keys |-> IF RecordsUnder(k) = {} THEN ERROR_PAGE
                  ELSE CHOOSE rec \in RecordsUnder(k) : TRUE]

\* The tree is a key table: every call of add and remove does to the live
\* entries exactly what it should, to no key but its own, wherever pages are
\* divided, and no call of insert_parent changes them.
Table == INSTANCE KeyTable
           WITH content <- Content, Missing <- ERROR_PAGE, NoLast <- NoCall
ImplementsKeyTable == Table!Spec

\* A division ends: however many levels are full, insert_parent comes to an
\* end at the latest with a new root.
DivisionEnds == up # NoCall ~> up = NoCall

\* A leaf stays a leaf, no key ever leaves the index, and a key that leaves
\* its page is found in the next leaf of the chain: whoever keeps a position
\* in a leaf finds all later keys by walking on.
KeysMoveRight ==
  [][\A p \in Leaves :
       /\ node'[p].leaf
       /\ \A k \in ToSet(node[p].keys) \ ToSet(node'[p].keys) :
            \E q \in Allocated' : q = node'[p].next /\ k \in ToSet(node'[q].keys)]_vars
=============================================================================
