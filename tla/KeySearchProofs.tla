--------------------------- MODULE KeySearchProofs ---------------------------
(***************************************************************************)
(* That the binary searches of a tree page are right for pages of every    *)
(* size: they read keys of the page only and return the first hit.         *)
(***************************************************************************)
EXTENDS KeySearch, TLAPS

\* The loop invariant: nothing below lo is a hit, and hi is a hit unless it
\* is still the last position.
Narrowed ==
  result = -1 =>
    /\ lo <= hi
    /\ \A i \in Positions(lo) : ~Hits(keys[i])
    /\ hi = cnt - 1 \/ Hits(keys[hi])

IInv ==
  /\ TypeOK
  /\ Ascending(keys, cnt)
  /\ Narrowed
  /\ FindsFirst

\* The middle of an interval is in it, and is not its end.
LEMMA MidInside ==
  ASSUME NEW a \in Nat, NEW b \in Nat, a <= b
  PROVE  /\ a + (b - a) \div 2 \in a .. b
         /\ a < b => a + (b - a) \div 2 < b
  OBVIOUS

LEMMA InitIInv == Init => IInv
<1> SUFFICES ASSUME Init PROVE IInv
  OBVIOUS
<1> USE SearchAssumption
<1>1. CASE cnt = 0
  BY <1>1 DEF Init, lastPos, IInv, TypeOK, Narrowed, FindsFirst, Positions
<1>2. CASE cnt # 0
  <2>1. lo = 0 /\ hi = cnt - 1 /\ result = -1 /\ cnt \in Nat \ {0}
    BY <1>2 DEF Init, lastPos
  <2>2. mid \in lo .. hi
    BY <2>1, MidInside DEF mid
  <2>3. TypeOK
    BY <2>1, <2>2 DEF Init, lastPos, TypeOK, Positions
  <2>. QED
    BY <2>1, <2>3 DEF Init, lastPos, IInv, Narrowed, FindsFirst, Positions
<1>. QED
  BY <1>1, <1>2

\* Keys ascend, so a hit makes everything behind it a hit, and a miss
\* everything before it a miss.
LEMMA HitsUpwards ==
  ASSUME TypeOK, Ascending(keys, cnt),
         NEW i \in Positions(cnt), NEW j \in Positions(cnt), i <= j, Hits(keys[i])
  PROVE  Hits(keys[j])
<1>1. keys[i] \in Int /\ keys[j] \in Int /\ key \in Int
  BY SearchAssumption DEF TypeOK
<1>2. i = j \/ keys[i] < keys[j]
  BY DEF Positions, Ascending, TypeOK
<1>. QED
  BY <1>1, <1>2 DEF Hits

LEMMA HalveIInv ==
  ASSUME IInv, Halve
  PROVE  IInv'
<1>1. /\ cnt' = cnt /\ keys' = keys /\ key' = key /\ strict' = strict
      /\ result' = -1 /\ result = -1
  BY DEF Halve, page
<1>2. /\ cnt \in Nat /\ lo \in Positions(cnt) /\ hi \in Positions(cnt)
      /\ lo < hi /\ mid \in Positions(cnt)
  BY <1>1 DEF IInv, TypeOK, Halve
<1>3. mid \in lo .. hi /\ mid < hi /\ lo \in Nat /\ hi \in Nat /\ mid \in Nat
  BY <1>2, MidInside DEF mid, Positions
<1>4. /\ lo' \in Positions(cnt) /\ hi' \in Positions(cnt) /\ lo' <= hi'
  BY <1>2, <1>3 DEF Halve, Positions
<1>5. mid' \in Positions(cnt)
  <2>1. lo' \in Nat /\ hi' \in Nat
    BY <1>2, <1>4 DEF Positions
  <2>2. mid' \in lo' .. hi'
    BY <1>4, <2>1, MidInside DEF mid
  <2>. QED
    BY <1>2, <1>4, <2>1, <2>2 DEF Positions
<1>6. TypeOK'
  BY <1>1, <1>2, <1>4, <1>5 DEF IInv, TypeOK, Positions
<1>7. \A k : Hits(k)' <=> Hits(k)
  BY <1>1 DEF Hits
<1>8. Narrowed'
  <2>1. CASE Hits(keys[mid])
    <3>1. lo' = lo /\ hi' = mid
      BY <2>1 DEF Halve
    <3>. QED
      BY <1>1, <1>4, <1>7, <2>1, <3>1 DEF IInv, Narrowed
  <2>2. CASE ~Hits(keys[mid])
    <3>1. lo' = mid + 1 /\ hi' = hi
      BY <2>2 DEF Halve
    <3>2. ASSUME NEW i \in Positions(mid + 1) PROVE ~Hits(keys[i])
      <4>1. i \in Positions(cnt) /\ i <= mid
        BY <1>2, <1>3, <3>2 DEF Positions
      <4>. QED
        BY <1>2, <2>2, <4>1, HitsUpwards DEF IInv
    <3>. QED
      BY <1>1, <1>4, <1>7, <3>1, <3>2 DEF IInv, Narrowed
  <2>. QED
    BY <2>1, <2>2
<1>9. Ascending(keys, cnt)' /\ FindsFirst'
  BY <1>1 DEF IInv, Ascending, Positions, FindsFirst
<1>. QED
  BY <1>6, <1>8, <1>9 DEF IInv

LEMMA ReturnIInv ==
  ASSUME IInv, Return
  PROVE  IInv'
<1>1. /\ cnt' = cnt /\ keys' = keys /\ key' = key /\ strict' = strict
      /\ lo' = lo /\ hi' = hi /\ result = -1
  BY DEF Return, page
<1>2. /\ cnt \in Nat /\ lo \in Positions(cnt) /\ lo = hi
  BY <1>1 DEF IInv, TypeOK, Return, Narrowed, Positions
<1>3. result' = IF Hits(keys[lo]) THEN lo ELSE cnt
  BY DEF Return
<1>4. result' # -1 /\ result' \in 0 .. cnt
  BY <1>2, <1>3 DEF Positions
<1>5. TypeOK'
  BY <1>1, <1>4 DEF IInv, TypeOK
<1>6. \A k : Hits(k)' <=> Hits(k)
  BY <1>1 DEF Hits
<1>7. FindsFirst'
  <2>1. CASE Hits(keys[lo])
    BY <1>1, <1>3, <1>6, <2>1 DEF IInv, Narrowed, FindsFirst
  <2>2. CASE ~Hits(keys[lo])
    <3>1. result' = cnt /\ lo = cnt - 1
      BY <1>1, <1>2, <1>3, <2>2 DEF IInv, Narrowed
    <3>2. ASSUME NEW i \in Positions(cnt) PROVE ~Hits(keys[i])
      <4>1. i = lo \/ i \in Positions(lo)
        BY <1>2, <3>1 DEF Positions
      <4>. QED
        BY <1>1, <2>2, <4>1 DEF IInv, Narrowed
    <3>. QED
      BY <1>1, <1>2, <1>6, <3>1, <3>2 DEF FindsFirst
  <2>. QED
    BY <2>1, <2>2
<1>8. Ascending(keys, cnt)' /\ Narrowed'
  BY <1>1, <1>4 DEF IInv, Ascending, Positions, Narrowed
<1>. QED
  BY <1>5, <1>7, <1>8 DEF IInv

LEMMA IInvHolds == Spec => []IInv
<1>1. IInv /\ [Next]_vars => IInv'
  <2> SUFFICES ASSUME IInv, [Next]_vars PROVE IInv'
    OBVIOUS
  <2>1. CASE Halve
    BY <2>1, HalveIInv
  <2>2. CASE Return
    BY <2>2, ReturnIInv
  <2>3. CASE UNCHANGED vars
    BY <2>3 DEF vars, page, IInv, TypeOK, Ascending, Narrowed, FindsFirst,
                Hits, Positions, mid
  <2>. QED
    BY <2>1, <2>2, <2>3 DEF Next
<1>. QED
  BY <1>1, InitIInv, PTL DEF Spec

\* Type correctness: on a page of any size the loop of find_first_ge and
\* find_first_gt reads no position that is not one of the page's keys.
THEOREM SearchTypeCorrect == Spec => []TypeOK
  BY IInvHolds, PTL DEF IInv

\* Both searches of bplus_page return the first position whose key is >= (>)
\* the one looked for, or key_cnt, on ascending pages of any size.
THEOREM SearchFindsFirst == Spec => []FindsFirst
  BY IInvHolds, PTL DEF IInv
=============================================================================
