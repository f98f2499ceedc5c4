----------------------------- MODULE MCBPlusTree -----------------------------
(* BPlusTree for TLC: a prepared sequence of adds builds a tree, to which    *)
(* MaxOps further calls of add and remove are made.                          *)
EXTENDS BPlusScan

CONSTANTS Preloads,   \* the prepared sequences of keys
          MaxOps      \* bound: further calls

VARIABLES script, ops

MCInit == Init /\ script \in Preloads /\ ops = 0

Prepare ==
  /\ script # <<>>
  /\ Add(Head(script), CHOOSE rec \in Records : TRUE)
  /\ script' = Tail(script)
  /\ UNCHANGED ops

Free ==
  /\ script = <<>> /\ ops < MaxOps
  /\ \E key \in Keys : LazyRemove(key) \/ \E rec \in Records : Add(key, rec)
  /\ ops' = ops + 1
  /\ UNCHANGED script

MCNext == Prepare \/ Free \/ (InsertParent /\ UNCHANGED <<script, ops>>)

MCSpec == MCInit /\ [][MCNext]_<<vars, script, ops>>
MCFairSpec == MCSpec /\ WF_vars(InsertParent)

\* Nobody reads the `next` of an internal page.
View ==
  <<[p \in PageIds |-> IF p \in Internals THEN [node[p] EXCEPT !.next = ERROR_PAGE]
                      ELSE node[p]], root, pageCnt, up, last, script, ops>>

\* The even numbers up to 2n, upwards, downwards and from the middle.
Upwards(n) == [i \in 1 .. n |-> 2 * i]
Downwards(n) == [i \in 1 .. n |-> 2 * (n + 1 - i)]
Inwards(n) == [i \in 1 .. n |-> IF i % 2 = 1 THEN i + 1 ELSE 2 * (n + 1) - i]

MCKeys == 0 .. 19
MCBounds == {-1, 2, 3, 7, 10, 13, 20}   \* at, between and beyond keys
MCPreloads == {<<>>, Upwards(9), Downwards(9), Inwards(9)}

\* Enough to divide pages on three levels at once.
DeepKeys == 0 .. 63
DeepPreloads == {Upwards(30), Inwards(28)}
=============================================================================
