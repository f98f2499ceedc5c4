------------------------------ MODULE BPlusNode ------------------------------
(***************************************************************************)
(* One page of the B+ tree (page/bplus_page.h) and the two ways of dividing*)
(* it (split in fs/bplus_tree.h over page/mem_node.h). Positions count from*)
(* 1, and "not found" is one more than the number of keys, as in the code. *)
(***************************************************************************)
EXTENDS Integers, SequencesExt

CONSTANT Order   \* children per page: 511 for 8-byte keys in an 8K page

ASSUME OrderAssumption == Order \in Nat /\ Order >= 4

split_point == Order \div 2

ERROR_PAGE == 0

\* What alloc<index_page>(magic) leaves in a page: header fields reset; the
\* body, and with it the `next` of a leaf, is what the memory held before.
NewNode(leaf, isRoot, stale) ==
  [leaf |-> leaf, rootBit |-> isRoot, keys |-> <<>>, ch |-> <<>>,
   parent |-> ERROR_PAGE, next |-> stale]

is_fullLate(n) == Len(n.keys) >= Order   \* Variant: off by one.
is_full(n) == Len(n.keys) >= Order - 1

FirstWhere(s, Test(_)) ==
  LET hit == SelectInSeq(s, Test) IN IF hit = 0 THEN Len(s) + 1 ELSE hit

find_first_ge(n, key) == FirstWhere(n.keys, LAMBDA x : x >= key)
find_first_gt(n, key) == FirstWhere(n.keys, LAMBDA x : x > key)
find_ch(n, c) == FirstWhere(n.ch, LAMBDA x : x = c)

\* Variant: without the comparison of the key that was found.
find_keyNear(n, key) == find_first_ge(n, key)

find_key(n, key) ==
  LET pos == find_first_ge(n, key)
  IN  IF pos <= Len(n.keys) /\ n.keys[pos] = key THEN pos ELSE Len(n.keys) + 1

\* Variant: the arguments are swapped.
insert_notfullSwapped(n, key, rec) ==
  LET pos == find_first_gt(n, key)
  IN  [n EXCEPT !.keys = InsertAt(@, pos, rec), !.ch = InsertAt(@, pos, key)]

\* insert_notfull of a leaf: key and record at the same position.
insert_notfull(n, key, rec) ==
  LET pos == find_first_gt(n, key)
  IN  [n EXCEPT !.keys = InsertAt(@, pos, key), !.ch = InsertAt(@, pos, rec)]

\* insert_key(pos, key); insert_ch(pos + 1, r) of an internal page, where pos
\* is the position of the child l that was divided.
InsertedRightOf(n, l, key, r) ==
  LET pos == find_ch(n, l)
  IN  [n EXCEPT !.keys = InsertAt(@, pos, key), !.ch = InsertAt(@, pos + 1, r)]

\* The halves of a division: the old page, the new page, and the key that
\* separates them for the parent.

\* A leaf of Order entries is cut at split_point.
LeafCut(temp, l_next, r_next) ==
  LET r == [NewNode(TRUE, FALSE, r_next) EXCEPT
              !.keys = SubSeq(temp.keys, split_point + 1, Order),
              !.ch = SubSeq(temp.ch, split_point + 1, Order),
              !.parent = temp.parent]
  IN  [left |-> [temp EXCEPT !.keys = SubSeq(@, 1, split_point),
                             !.ch = SubSeq(@, 1, split_point),
                             !.next = l_next],
       right |-> r, key |-> r.keys[1]]

\* Variant: the new leaf is linked in front of the old one.
LeafHalvesReversed(full, new_id, key, rec) ==
  LeafCut(insert_notfull(full, key, rec), full.next, new_id)

\* split of a full leaf: the temporary copy has Order entries. The new leaf
\* enters the chain behind the old one and is a sibling of it.
LeafHalves(full, new_id, key, rec) ==
  LeafCut(insert_notfull(full, key, rec), new_id, full.next)

\* An internal page of Order keys is cut around the key at split_point, the
\* right half having the children from `first` on.
InternalCut(temp, first, stale) ==
  [left |-> [temp EXCEPT !.keys = SubSeq(@, 1, split_point - 1),
                         !.ch = SubSeq(@, 1, split_point)],
   right |-> [NewNode(FALSE, FALSE, stale) EXCEPT
                !.keys = SubSeq(temp.keys, split_point + 1, Order),
                !.ch = SubSeq(temp.ch, first, Order + 1),
                !.parent = temp.parent],
   key |-> temp.keys[split_point]]

\* Variant: off by one, a child comes into both halves.
InternalHalvesOverlap(full, l_ch, key, r_ch, stale) ==
  InternalCut(InsertedRightOf(full, l_ch, key, r_ch), split_point, stale)

\* split of a full internal page: the middle key goes up and stays in
\* neither half.
InternalHalves(full, l_ch, key, r_ch, stale) ==
  InternalCut(InsertedRightOf(full, l_ch, key, r_ch), split_point + 1, stale)
=============================================================================
