------------------------------ MODULE BPlusScan ------------------------------
(***************************************************************************)
(* The queries of the primary index: find_range and traverse of            *)
(* fs/bplus_tree.h, as functions of the tree that BPlusTree maintains. A   *)
(* scan descends once and then follows `next` from leaf to leaf.           *)
(***************************************************************************)
EXTENDS BPlusTree, FiniteSetsExt

CONSTANTS Bounds,     \* the lb and ub that are asked for
          Needs,      \* the limits on the number of records asked for
          Undefined   \* the scan follows something that is not a leaf

ASSUME ScanAssumption ==
  IsFiniteSet(Keys) /\ Bounds \subseteq Int /\ Needs \subseteq Nat

\* One iteration of the loop of traverse.
Traversed(t, ub) ==
  LET leaf == node[t.leaf]
  IN  IF t.pos > Len(leaf.keys)
      THEN IF leaf.next = ERROR_PAGE THEN [t EXCEPT !.done = TRUE]
           ELSE [t EXCEPT !.leaf = leaf.next, !.pos = 1]
      ELSE IF leaf.keys[t.pos] > ub THEN [t EXCEPT !.done = TRUE]
      ELSE IF leaf.ch[t.pos] = ERROR_PAGE THEN [t EXCEPT !.pos = @ + 1]
      ELSE [t EXCEPT !.pos = @ + 1, !.records = Append(@, leaf.ch[t.pos]),
                     !.need = @ - 1, !.done = t.need = 1]

\* A loop over a sound chain ends within MaxSteps iterations.
MaxSteps == MaxPage * (Order + 1) + 1

traverse(leaf_id, pos, ub, need) ==
  LET at[i \in 0 .. MaxSteps] ==
        IF i = 0 THEN [leaf |-> leaf_id, pos |-> pos, need |-> need,
                       records |-> <<>>, done |-> need = 0]
        ELSE LET t == at[i - 1]
             IN  IF t.done \/ t.leaf \notin Leaves THEN t ELSE Traversed(t, ub)
  IN  IF at[MaxSteps].done THEN at[MaxSteps].records ELSE Undefined

find_range(lb, ub, need) ==
  IF root = ERROR_PAGE THEN <<>>
  ELSE LET leaf_id == down_to_leaf(lb)
       IN  traverse(leaf_id, find_first_ge(node[leaf_id], lb), ub, need)
-----------------------------------------------------------------------------
\* The answer by definition: the records of the live keys of the interval, in
\* the order of the keys, cut off at `need`.
Live(content, lb, ub) ==
  {k \in Keys : lb <= k /\ k <= ub /\ content[k] # ERROR_PAGE}

Rank(live, k) == Cardinality({j \in live : j <= k})

Answer(content, lb, ub, need) ==
  LET live == Live(content, lb, ub)
  IN  [i \in 1 .. Min({need, Cardinality(live)}) |->
         content[CHOOSE k \in live : Rank(live, k) = i]]

\* A scan of an interval in the nodes N of these leaves ends by itself: the
\* chain has an end, or there is a key behind the interval.
ComesToEnd(N, leaves, lb, ub) ==
  \E p \in leaves : \/ N[p].next = ERROR_PAGE
                    \/ \E k \in ToSet(N[p].keys) : lb <= k /\ ub < k

\* A range query that comes to an end returns exactly the live records of its
\* interval, in key order, whatever was divided, removed lazily or revived
\* before; empty intervals, bounds between and beyond the keys, and an empty
\* table included. Where it comes to none, there is no key behind ub and the
\* `next` of the last leaf was never written (free_manager.h, 46).
ScanCorrect ==
  LET content == Content
      leaves == Leaves
  IN  up = NoCall =>
        \A lb, ub \in Bounds : root = ERROR_PAGE \/ ComesToEnd(node, leaves, lb, ub) =>
          \A need \in Needs : find_range(lb, ub, need) = Answer(content, lb, ub, need)

\* The comment in free_manager.h (line 18): a few bytes, the header, are all
\* that has to be copied for a new page, instead of 8K. Then every query
\* would have its answer.
CopyingHeaderSuffices ==
  up = NoCall =>
    \A lb, ub \in Bounds, need \in Needs :
      find_range(lb, ub, need) = Answer(Content, lb, ub, need)
=============================================================================
