------------------------------ MODULE KeySearch ------------------------------
(***************************************************************************)
(* The binary searches of a tree page, find_first_ge and find_first_gt of  *)
(* page/bplus_page.h, loop iteration by loop iteration. BPlusNode uses     *)
(* their results by definition ("the first position whose key ..."); here  *)
(* is the loop that has to find it, with the code's positions from 0.      *)
(***************************************************************************)
EXTENDS Integers

CONSTANTS Keys,    \* what a key may be
          MaxCnt   \* key_cnt of a full page

ASSUME SearchAssumption == Keys \subseteq Int /\ MaxCnt \in Nat

VARIABLES
  cnt,     \* key_cnt of the page
  keys,    \* its keys, ascending
  key,     \* the key that is looked for
  strict,  \* TRUE: find_first_gt, FALSE: find_first_ge
  lo, hi,  \* the loop's variables
  result   \* the position returned; -1 while the loop runs

page == <<cnt, keys, key, strict>>
vars == <<page, lo, hi, result>>

Positions(n) == 0 .. n - 1
Ascending(f, n) == \A i, j \in Positions(n) : i < j => f[i] < f[j]

Hits(k) == IF strict THEN k > key ELSE k >= key

\* Where hi starts; the variant is off by one.
lastPosLate == cnt
lastPos == IF cnt = 0 THEN 0 ELSE cnt - 1

\* The call: an empty page is answered at once with cnt, which is 0, before
\* the hi that wrapped around (here 0) is used.
Init ==
  /\ cnt \in 0 .. MaxCnt
  /\ keys \in [Positions(cnt) -> Keys]
  /\ Ascending(keys, cnt)
  /\ key \in Keys
  /\ strict \in BOOLEAN
  /\ lo = 0
  /\ hi = lastPos
  /\ result = IF cnt = 0 THEN 0 ELSE -1

mid == lo + (hi - lo) \div 2

\* Variant: the lower half keeps its middle.
HalveNear ==
  /\ result = -1 /\ lo < hi
  /\ IF Hits(keys[mid]) THEN hi' = mid /\ UNCHANGED lo
                        ELSE lo' = mid /\ UNCHANGED hi
  /\ UNCHANGED <<page, result>>

Halve ==
  /\ result = -1 /\ lo < hi
  /\ IF Hits(keys[mid]) THEN hi' = mid /\ UNCHANGED lo
                        ELSE lo' = mid + 1 /\ UNCHANGED hi
  /\ UNCHANGED <<page, result>>

\* Variant: without the last comparison.
ReturnUnchecked ==
  /\ result = -1 /\ lo >= hi
  /\ result' = lo
  /\ UNCHANGED <<page, lo, hi>>

Return ==
  /\ result = -1 /\ lo >= hi
  /\ result' = IF Hits(keys[lo]) THEN lo ELSE cnt
  /\ UNCHANGED <<page, lo, hi>>

Next == Halve \/ Return

Spec == Init /\ [][Next]_vars

\* The loop runs in the calling thread and waits for nothing.
FairSpec == Spec /\ WF_vars(Next)
-----------------------------------------------------------------------------
\* Every variable has its type; while the loop runs, every position it looks
\* at is one of the page's keys.
TypeOK ==
  /\ cnt \in 0 .. MaxCnt
  /\ keys \in [Positions(cnt) -> Keys]
  /\ key \in Keys
  /\ strict \in BOOLEAN
  /\ lo \in Nat /\ hi \in Nat
  /\ result \in -1 .. cnt
  /\ result = -1 => lo \in Positions(cnt) /\ hi \in Positions(cnt) /\ mid \in Positions(cnt)

\* The search returns the first position whose key is >= (>) the one looked
\* for, and cnt exactly when there is none: no page length, no missing key
\* and no key at an end makes it return a neighbour.
FindsFirst ==
  result # -1 =>
    /\ \A i \in Positions(result) : ~Hits(keys[i])
    /\ result < cnt => Hits(keys[result])

\* It returns: no interval is left unchanged by an iteration.
Returns == <>(result # -1)
=============================================================================
