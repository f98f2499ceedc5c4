--------------------------- MODULE BPlusTreeProofs ---------------------------
(***************************************************************************)
(* Proofs about the B+ tree for every order, every set of keys and any     *)
(* number of pages and divisions.                                          *)
(*                                                                         *)
(* Argument. On each level of the tree every integer has one owner, the    *)
(* page a descent for it passes there: at[d][k] on the level d above the   *)
(* leaves. A page's keys are among those it owns. A division gives the     *)
(* upper part of a page's keys to a new page; until the parent knows of    *)
(* it, the owner is the child the descent finds, corrected by the pending  *)
(* call. What insert_parent then does to the parent makes the correction   *)
(* superfluous.                                                            *)
(***************************************************************************)
EXTENDS BPlusTree, SequenceTheorems, WellFoundedInduction, TLAPS

Sorted(s) == \A i, j \in 1 .. Len(s) : i < j => s[i] < s[j]

\* Key k belongs between the keys i - 1 and i of s.
Gap(s, k, i) ==
  /\ i \in 1 .. Len(s) + 1
  /\ \A j \in 1 .. i - 1 : s[j] <= k
  /\ \A j \in i .. Len(s) : k < s[j]

\* t is s with e put at position i.
Widened(t, s, i, e) ==
  /\ Len(t) = Len(s) + 1
  /\ \A j \in 1 .. i - 1 : t[j] = s[j]
  /\ t[i] = e
  /\ \A j \in i + 1 .. Len(s) + 1 : t[j] = s[j - 1]

\* t is the part of s behind position a, or the first of that part.
Part(t, s, a) ==
  Len(t) + a <= Len(s) /\ \A j \in 1 .. Len(t) : t[j] = s[j + a]

Distinct(s) == \A i, j \in 1 .. Len(s) : s[i] = s[j] => i = j
-----------------------------------------------------------------------------
\* Sequences, and the searches in a page.

LEMMA LessOrEqual ==
  ASSUME NEW a \in Int, NEW b \in Int, a < b
  PROVE  a <= b
  OBVIOUS

LEMMA OrderFacts ==
  /\ Order \in Nat /\ Order >= 4
  /\ split_point \in Nat /\ 2 <= split_point /\ split_point <= Order - 2
  /\ split_point <= Order - split_point
  BY OrderAssumption DEF split_point

\* Induction in a form that takes no operator: a set of numbers has a least.
LEMMA LeastExists ==
  ASSUME NEW T \in SUBSET Nat, T # {}
  PROVE  \E x \in T : \A y \in T : x <= y
<1>1. PICK x \in T : \A y \in T : ~(<<y, x>> \in OpToRel(<, Nat))
  BY WFMin, NatLessThanWellFounded
<1>2. \A y \in T : ~(y < x)
  BY <1>1 DEF OpToRel
<1>. QED
  BY <1>2

LEMMA LeastChosen ==
  ASSUME NEW T \in SUBSET Nat, T # {}
  PROVE  LET least == CHOOSE x \in T : \A y \in T : x <= y
         IN  least \in T /\ \A y \in T : least <= y
<1>1. \E x \in T : \A y \in T : x <= y
  BY LeastExists
<1>. QED
  BY <1>1

LEMMA Cut ==
  ASSUME NEW T, NEW s \in Seq(T), NEW a \in Nat, NEW b \in Nat,
         1 <= a, a <= b + 1, b <= Len(s)
  PROVE  /\ SubSeq(s, a, b) \in Seq(T)
         /\ Len(SubSeq(s, a, b)) = b - a + 1
         /\ \A j \in 1 .. b - a + 1 : SubSeq(s, a, b)[j] = s[a + j - 1]
  OBVIOUS

LEMMA Inserted ==
  ASSUME NEW T, NEW s \in Seq(T), NEW i \in 1 .. Len(s) + 1, NEW e \in T
  PROVE  InsertAt(s, i, e) \in Seq(T) /\ Widened(InsertAt(s, i, e), s, i, e)
<1>l. PICK l : l = SubSeq(s, 1, i - 1)
  OBVIOUS
<1>r. PICK r : r = SubSeq(s, i, Len(s))
  OBVIOUS
<1>1. l \in Seq(T) /\ Len(l) = i - 1 /\ \A j \in 1 .. i - 1 : l[j] = s[j]
  BY <1>l
<1>2. r \in Seq(T) /\ Len(r) = Len(s) - i + 1 /\ \A j \in 1 .. Len(s) - i + 1 : r[j] = s[i + j - 1]
  BY <1>r
<1>m. PICK m : m = l \o <<e>>
  OBVIOUS
<1>3. m \in Seq(T) /\ Len(m) = i /\ \A j \in 1 .. i : m[j] = IF j < i THEN s[j] ELSE e
  BY <1>m, <1>1
<1>t. PICK t : t = m \o r
  OBVIOUS
<1>4. t \in Seq(T) /\ Len(t) = Len(m) + Len(r)
  <2>1. m \in Seq(T) /\ r \in Seq(T)
    BY <1>2, <1>3
  <2>. QED
    BY <1>t, <2>1
<1>5. \A j \in 1 .. Len(s) + 1 : t[j] = IF j <= i THEN m[j] ELSE r[j - i]
  BY <1>t, <1>2, <1>3
<1>6. Widened(t, s, i, e)
  <2>1. ASSUME NEW j \in 1 .. i - 1 PROVE t[j] = s[j]
    <3>1. j \in 1 .. Len(s) + 1 /\ j \in 1 .. i /\ j <= i /\ j < i
      OBVIOUS
    <3>. QED
      BY <1>3, <1>5, <3>1
  <2>2. t[i] = e
    <3>1. i \in 1 .. i
      OBVIOUS
    <3>. QED
      BY <1>3, <1>5, <3>1
  <2>3. ASSUME NEW j \in i + 1 .. Len(s) + 1 PROVE t[j] = s[j - 1]
    <3>1. /\ j \in 1 .. Len(s) + 1 /\ ~(j <= i)
          /\ j - i \in 1 .. Len(s) - i + 1 /\ i + (j - i) - 1 = j - 1
      OBVIOUS
    <3>2. t[j] = r[j - i] /\ r[j - i] = s[i + (j - i) - 1]
      BY <1>2, <1>5, <3>1
    <3>. QED
      BY <3>1, <3>2
  <2>. QED
    BY <1>2, <1>3, <1>4, <2>1, <2>2, <2>3 DEF Widened
<1>7. InsertAt(s, i, e) = t
  BY <1>l, <1>r, <1>m, <1>t DEF InsertAt
<1>. QED
  BY <1>4, <1>6, <1>7

LEMMA GapFound ==
  ASSUME NEW n, n.keys \in Seq(Int), Sorted(n.keys), NEW k \in Int
  PROVE  Gap(n.keys, k, find_first_gt(n, k))
<1>s. PICK s \in Seq(Int) : s = n.keys
  OBVIOUS
<1> DEFINE I == {i \in 1 .. Len(s) : s[i] > k}
<1>1. find_first_gt(n, k) =
        LET hit == IF I # {} THEN CHOOSE x \in I : \A y \in I : x <= y ELSE 0
        IN  IF hit = 0 THEN Len(s) + 1 ELSE hit
  BY <1>s DEF find_first_gt, FirstWhere, SelectInSeq, Min
<1>2. CASE I # {}
  <2>1. I \in SUBSET Nat
    BY SMT
  <2>2. PICK x : x = CHOOSE m \in I : \A y \in I : m <= y
    OBVIOUS
  <2>3. x \in I /\ \A y \in I : x <= y
    BY <1>2, <2>1, <2>2, LeastChosen
  <2>5. x \in 1 .. Len(s) /\ s[x] > k /\ \A j \in 1 .. Len(s) : s[j] > k => x <= j
    BY <2>3
  <2>6. x # 0
    BY <2>5
  <2>4. find_first_gt(n, k) = x
    <3> HIDE DEF I
    <3>. QED
      BY <1>1, <1>2, <2>2, <2>6
  <2>7. ASSUME NEW j \in 1 .. x - 1 PROVE s[j] <= k
    <3>1. j \in 1 .. Len(s) /\ ~(x <= j) /\ s[j] \in Int
      BY <2>5
    <3>. QED
      BY <2>5, <3>1
  <2>8. ASSUME NEW j \in x .. Len(s) PROVE k < s[j]
    <3>1. j \in 1 .. Len(s) /\ s[j] \in Int /\ s[x] \in Int /\ (j = x \/ x < j)
      BY <2>5
    <3>2. x < j => s[x] < s[j]
      BY <1>s, <2>5, <3>1 DEF Sorted
    <3>. QED
      BY <2>5, <3>1, <3>2
  <2>. QED
    BY <1>s, <2>4, <2>5, <2>7, <2>8 DEF Gap
<1>3. CASE I = {}
  <2>1. find_first_gt(n, k) = Len(s) + 1
    BY <1>1, <1>3
  <2>2. \A j \in 1 .. Len(s) : s[j] <= k
    BY <1>3
  <2>. QED
    BY <1>s, <2>1, <2>2 DEF Gap
<1>. QED
  BY <1>2, <1>3

LEMMA GapUnique ==
  ASSUME NEW s \in Seq(Int), NEW k \in Int, NEW i, NEW j, Gap(s, k, i), Gap(s, k, j)
  PROVE  i = j
  BY DEF Gap

LEMMA GapExists ==
  ASSUME NEW s \in Seq(Int), Sorted(s), NEW k \in Int
  PROVE  \E i \in 1 .. Len(s) + 1 : Gap(s, k, i)
<1>1. PICK n : n = [keys |-> s]
  OBVIOUS
<1>2. Gap(n.keys, k, find_first_gt(n, k))
  BY <1>1, GapFound
<1>. QED
  BY <1>1, <1>2 DEF Gap

\* The position from which on the keys are not less than k.
LEMMA PlaceFound ==
  ASSUME NEW n, n.keys \in Seq(Int), Sorted(n.keys), NEW k \in Int
  PROVE  /\ find_first_ge(n, k) \in 1 .. Len(n.keys) + 1
         /\ \A j \in 1 .. find_first_ge(n, k) - 1 : n.keys[j] < k
         /\ \A j \in find_first_ge(n, k) .. Len(n.keys) : k <= n.keys[j]
<1>s. PICK s \in Seq(Int) : s = n.keys
  OBVIOUS
<1> DEFINE I == {i \in 1 .. Len(s) : s[i] >= k}
<1>p. PICK pos : pos = find_first_ge(n, k)
  OBVIOUS
<1>1. pos = LET hit == IF I # {} THEN CHOOSE x \in I : \A y \in I : x <= y ELSE 0
            IN  IF hit = 0 THEN Len(s) + 1 ELSE hit
  BY <1>p, <1>s DEF find_first_ge, FirstWhere, SelectInSeq, Min
<1>2. /\ pos \in 1 .. Len(s) + 1
      /\ \A j \in 1 .. pos - 1 : s[j] < k
      /\ \A j \in pos .. Len(s) : k <= s[j]
  <2>1. CASE I # {}
    <3>1. I \in SUBSET Nat
      BY SMT
    <3>2. PICK x : x = CHOOSE m \in I : \A y \in I : m <= y
      OBVIOUS
    <3>3. x \in I /\ \A y \in I : x <= y
      BY <2>1, <3>1, <3>2, LeastChosen
    <3>5. x \in 1 .. Len(s) /\ s[x] >= k /\ \A j \in 1 .. Len(s) : s[j] >= k => x <= j
      BY <3>3
    <3>6. x # 0
      BY <3>5
    <3>4. pos = x
      <4> HIDE DEF I
      <4>. QED
        BY <1>1, <2>1, <3>2, <3>6
    <3>7. ASSUME NEW j \in 1 .. x - 1 PROVE s[j] < k
      <4>1. j \in 1 .. Len(s) /\ ~(x <= j) /\ s[j] \in Int
        BY <3>5
      <4>. QED
        BY <3>5, <4>1
    <3>8. ASSUME NEW j \in x .. Len(s) PROVE k <= s[j]
      <4>1. j \in 1 .. Len(s) /\ s[j] \in Int /\ s[x] \in Int /\ (j = x \/ x < j)
        BY <3>5
      <4>2. x < j => s[x] < s[j]
        BY <1>s, <3>5, <4>1 DEF Sorted
      <4>. QED
        BY <3>5, <4>1, <4>2
    <3>. QED
      BY <3>4, <3>5, <3>7, <3>8
  <2>2. CASE I = {}
    <3>1. pos = Len(s) + 1
      BY <1>1, <2>2
    <3>2. \A j \in 1 .. Len(s) : s[j] < k
      BY <2>2
    <3>. QED
      BY <3>1, <3>2
  <2>. QED
    BY <2>1, <2>2
<1>. QED
  BY <1>p, <1>s, <1>2

LEMMA KeyFound ==
  ASSUME NEW n, n.keys \in Seq(Int), Sorted(n.keys), NEW k \in Int
  PROVE  /\ find_key(n, k) \in 1 .. Len(n.keys) + 1
         /\ find_key(n, k) <= Len(n.keys) => n.keys[find_key(n, k)] = k
         /\ find_key(n, k) > Len(n.keys) => \A j \in 1 .. Len(n.keys) : n.keys[j] # k
<1>s. PICK s \in Seq(Int) : s = n.keys
  OBVIOUS
<1>p. PICK pos : pos = find_first_ge(n, k)
  OBVIOUS
<1>2. /\ pos \in 1 .. Len(s) + 1
      /\ \A j \in 1 .. pos - 1 : s[j] < k
      /\ \A j \in pos .. Len(s) : k <= s[j]
  BY <1>p, <1>s, PlaceFound
<1>3. find_key(n, k) = IF pos <= Len(s) /\ s[pos] = k THEN pos ELSE Len(s) + 1
  BY <1>p, <1>s DEF find_key
<1>4. CASE pos <= Len(s) /\ s[pos] = k
  BY <1>s, <1>2, <1>3, <1>4
<1>5. CASE ~(pos <= Len(s) /\ s[pos] = k)
  <2>1. ASSUME NEW j \in 1 .. Len(s) PROVE s[j] # k
    <3>1. CASE j < pos
      BY <1>2, <3>1
    <3>2. CASE j > pos
      <4>1. s[pos] >= k /\ s[pos] < s[j]
        BY <1>2, <1>s, <3>2 DEF Sorted
      <4>. QED
        BY <4>1, <1>2, <3>2
    <3>. QED
      BY <1>2, <1>5, <3>1, <3>2
  <2>. QED
    BY <1>s, <1>3, <1>5, <2>1
<1>. QED
  BY <1>4, <1>5

LEMMA ChildFound ==
  ASSUME NEW T, NEW n, n.ch \in Seq(T), NEW c, \E j \in 1 .. Len(n.ch) : n.ch[j] = c
  PROVE  find_ch(n, c) \in 1 .. Len(n.ch) /\ n.ch[find_ch(n, c)] = c
<1>s. PICK s \in Seq(T) : s = n.ch
  OBVIOUS
<1> DEFINE I == {i \in 1 .. Len(s) : s[i] = c}
<1>1. find_ch(n, c) =
        LET hit == IF I # {} THEN CHOOSE x \in I : \A y \in I : x <= y ELSE 0
        IN  IF hit = 0 THEN Len(s) + 1 ELSE hit
  BY <1>s DEF find_ch, FirstWhere, SelectInSeq, Min
<1>2. I # {} /\ I \in SUBSET Nat
  BY <1>s
<1>3. PICK x : x = CHOOSE m \in I : \A y \in I : m <= y
  OBVIOUS
<1>4. x \in I
  BY <1>2, <1>3, LeastChosen
<1>5. find_ch(n, c) = x
  <2>1. x \in Nat /\ x # 0
    BY <1>4
  <2> HIDE DEF I
  <2>. QED
    BY <1>1, <1>2, <1>3, <2>1
<1>. QED
  BY <1>s, <1>4, <1>5
-----------------------------------------------------------------------------
\* A key comes into a page.

Entries == Records \cup PageIds \cup {ERROR_PAGE}

LEMMA NodeFields ==
  ASSUME NEW n
  PROVE  n \in Nodes <=>
           /\ n = [leaf |-> n.leaf, rootBit |-> n.rootBit, keys |-> n.keys,
                   ch |-> n.ch, parent |-> n.parent, next |-> n.next]
           /\ n.leaf \in BOOLEAN /\ n.rootBit \in BOOLEAN
           /\ n.keys \in Seq(Keys) /\ n.ch \in Seq(Entries)
           /\ n.parent \in PageIds \cup {ERROR_PAGE}
           /\ n.next \in StaleNext \cup PageIds
  BY DEF Nodes, Entries

\* A page is given other keys and other children or records.
Refit(n, t, d) == [n EXCEPT !.keys = t, !.ch = d]

\* The header of page m is that of n.
SameHeader(m, n) ==
  m.leaf = n.leaf /\ m.rootBit = n.rootBit /\ m.parent = n.parent /\ m.next = n.next

LEMMA Refitted ==
  ASSUME NEW n \in Nodes, NEW t \in Seq(Keys), NEW d \in Seq(Entries)
  PROVE  /\ Refit(n, t, d) \in Nodes
         /\ SameHeader(Refit(n, t, d), n)
         /\ Refit(n, t, d).keys = t
         /\ Refit(n, t, d).ch = d
<1>1. /\ n = [leaf |-> n.leaf, rootBit |-> n.rootBit, keys |-> n.keys,
              ch |-> n.ch, parent |-> n.parent, next |-> n.next]
      /\ n.leaf \in BOOLEAN /\ n.rootBit \in BOOLEAN
      /\ n.parent \in PageIds \cup {ERROR_PAGE} /\ n.next \in StaleNext \cup PageIds
  BY NodeFields
<1>2. PICK m : m = [n EXCEPT !.keys = t, !.ch = d]
  OBVIOUS
<1>3. m = [leaf |-> n.leaf, rootBit |-> n.rootBit, keys |-> t,
           ch |-> d, parent |-> n.parent, next |-> n.next]
  BY <1>1, <1>2
<1>4. m \in Nodes
  BY <1>1, <1>3 DEF Nodes, Entries
<1>5. SameHeader(m, n) /\ m.keys = t /\ m.ch = d
  BY <1>3 DEF SameHeader
<1>6. Refit(n, t, d) = m
  BY <1>2 DEF Refit
<1>. QED
  BY <1>4, <1>5, <1>6

LEMMA KeysAreInts ==
  ASSUME NEW s \in Seq(Keys)
  PROVE  s \in Seq(Int) /\ \A j \in 1 .. Len(s) : s[j] \in Keys /\ s[j] \in Int
<1>0. Keys \subseteq Int
  BY TreeAssumption
<1>1. ASSUME NEW j \in 1 .. Len(s) PROVE s[j] \in Keys /\ s[j] \in Int
  <2>1. s[j] \in Keys
    OBVIOUS
  <2>. QED
    BY <1>0, <2>1
<1>2. s \in [1 .. Len(s) -> Int] /\ Len(s) \in Nat
  BY <1>1
<1>. QED
  BY <1>1, <1>2

\* What an insertion of a key and a child or record does to a page.
Grown(n, pos, k, i, e) ==
  [n EXCEPT !.keys = InsertAt(@, pos, k), !.ch = InsertAt(@, i, e)]

LEMMA NodeInserted ==
  ASSUME NEW n \in Nodes, NEW pos \in 1 .. Len(n.keys) + 1, NEW k \in Keys,
         NEW i \in 1 .. Len(n.ch) + 1, NEW e \in Entries
  PROVE  /\ Grown(n, pos, k, i, e) \in Nodes
         /\ SameHeader(Grown(n, pos, k, i, e), n)
         /\ Widened(Grown(n, pos, k, i, e).keys, n.keys, pos, k)
         /\ Widened(Grown(n, pos, k, i, e).ch, n.ch, i, e)
<1>1. PICK s \in Seq(Keys), c \in Seq(Entries) : s = n.keys /\ c = n.ch
  BY NodeFields
<1>2. PICK t, d : t = InsertAt(s, pos, k) /\ d = InsertAt(c, i, e)
  OBVIOUS
<1>3. t \in Seq(Keys) /\ Widened(t, s, pos, k)
  <2>1. pos \in 1 .. Len(s) + 1
    BY <1>1
  <2>. QED
    BY <1>2, <2>1, Inserted
<1>4. d \in Seq(Entries) /\ Widened(d, c, i, e)
  <2>1. i \in 1 .. Len(c) + 1
    BY <1>1
  <2>. QED
    BY <1>2, <2>1, Inserted
<1>5. Grown(n, pos, k, i, e) = Refit(n, t, d)
  BY <1>1, <1>2 DEF Grown, Refit
<1>. QED
  BY <1>1, <1>3, <1>4, <1>5, Refitted

\* Where a key comes into an ascending sequence, the gaps below it stay, the
\* gaps above it move up, and its own is divided.
LEMMA GapInserted ==
  ASSUME NEW s \in Seq(Int), Sorted(s), NEW k \in Int, NEW pos \in Nat, Gap(s, k, pos),
         pos > 1 => s[pos - 1] < k,
         NEW t \in Seq(Int), Widened(t, s, pos, k)
  PROVE  /\ Sorted(t)
         /\ \A x \in Int : \A i : Gap(s, x, i) =>
              Gap(t, x, IF i < pos \/ (i = pos /\ x < k) THEN i ELSE i + 1)
<1>1. /\ pos \in 1 .. Len(s) + 1
      /\ \A j \in 1 .. pos - 1 : s[j] < k
      /\ \A j \in pos .. Len(s) : k < s[j]
      /\ \A j \in 1 .. Len(s) : s[j] \in Int
  <2>0. pos \in 1 .. Len(s) + 1 /\ \A j \in 1 .. Len(s) : s[j] \in Int
    BY DEF Gap
  <2>1. ASSUME NEW j \in 1 .. pos - 1 PROVE s[j] < k
    <3>1. j \in 1 .. Len(s) /\ pos - 1 \in 1 .. Len(s) /\ pos > 1 /\ (j = pos - 1 \/ j < pos - 1)
      BY <2>0
    <3>2. j < pos - 1 => s[j] < s[pos - 1]
      BY <3>1 DEF Sorted
    <3>3. s[j] \in Int /\ s[pos - 1] \in Int
      BY <2>0, <3>1
    <3>. QED
      BY <3>1, <3>2, <3>3
  <2>. QED
    BY <2>0, <2>1 DEF Gap
<1>n. PICK n \in Nat : n = Len(s)
  OBVIOUS
<1>t. /\ \A j \in 1 .. pos - 1 : t[j] = s[j]
      /\ t[pos] = k
      /\ \A j \in pos + 1 .. n + 1 : t[j] = s[j - 1]
      /\ Len(t) = n + 1
  BY <1>n DEF Widened
<1>u. \A i, j \in 1 .. n : i < j => s[i] < s[j]
  BY <1>n DEF Sorted
<1>2. Sorted(t)
  <2> SUFFICES ASSUME NEW i \in 1 .. n + 1, NEW j \in 1 .. n + 1, i < j PROVE t[i] < t[j]
    BY <1>t DEF Sorted
  <2>1. CASE j < pos
    <3>1. i \in 1 .. pos - 1 /\ j \in 1 .. pos - 1 /\ i \in 1 .. n /\ j \in 1 .. n
      BY <1>1, <1>n, <2>1
    <3>. QED
      BY <1>t, <1>u, <3>1
  <2>2. CASE j = pos
    <3>1. i \in 1 .. pos - 1
      BY <2>2
    <3>. QED
      BY <1>1, <1>t, <2>2, <3>1
  <2>3. CASE j > pos /\ i = pos
    <3>1. j \in pos + 1 .. n + 1 /\ j - 1 \in pos .. n
      BY <2>3
    <3>. QED
      BY <1>1, <1>n, <1>t, <2>3, <3>1
  <2>4. CASE j > pos /\ i < pos
    <3>1. j \in pos + 1 .. n + 1 /\ j - 1 \in 1 .. n /\ i \in 1 .. pos - 1 /\ i \in 1 .. n
      BY <1>1, <1>n, <2>4
    <3>2. s[i] < s[j - 1]
      BY <1>u, <2>4, <3>1
    <3>. QED
      BY <1>t, <3>1, <3>2
  <2>5. CASE j > pos /\ i > pos
    <3>1. /\ j \in pos + 1 .. n + 1 /\ j - 1 \in 1 .. n
          /\ i \in pos + 1 .. n + 1 /\ i - 1 \in 1 .. n
      BY <1>1, <1>n, <2>5
    <3>2. s[i - 1] < s[j - 1]
      BY <1>u, <3>1
    <3>. QED
      BY <1>t, <3>1, <3>2
  <2>. QED
    BY <1>1, <2>1, <2>2, <2>3, <2>4, <2>5
<1>3. ASSUME NEW x \in Int, NEW i, Gap(s, x, i), i < pos \/ (i = pos /\ x < k)
      PROVE  Gap(t, x, i)
  <2>1. /\ i \in 1 .. n + 1 /\ i <= pos
        /\ \A j \in 1 .. i - 1 : s[j] <= x
        /\ \A j \in i .. n : x < s[j]
    BY <1>1, <1>3, <1>n DEF Gap
  <2>2. ASSUME NEW j \in 1 .. i - 1 PROVE t[j] <= x
    <3>1. j \in 1 .. pos - 1
      BY <2>1
    <3>. QED
      BY <1>t, <2>1, <3>1
  <2>3. x < k
    <3>1. CASE i = pos
      BY <1>3, <3>1
    <3>2. CASE i < pos
      <4>1. i \in i .. n /\ i \in 1 .. pos - 1 /\ s[i] \in Int
        BY <1>1, <1>n, <2>1, <3>2
      <4>. QED
        BY <1>1, <2>1, <4>1
    <3>. QED
      BY <1>3, <3>1, <3>2
  <2>4. ASSUME NEW j \in i .. n + 1 PROVE x < t[j]
    <3>1. CASE j < pos
      <4>1. j \in 1 .. pos - 1 /\ j \in i .. n
        BY <1>1, <1>n, <2>1, <3>1
      <4>. QED
        BY <1>t, <2>1, <4>1
    <3>2. CASE j = pos
      BY <1>t, <2>3, <3>2
    <3>3. CASE j > pos
      <4>1. j \in pos + 1 .. n + 1 /\ j - 1 \in i .. n
        BY <2>1, <3>3
      <4>. QED
        BY <1>t, <2>1, <4>1
    <3>. QED
      BY <2>1, <3>1, <3>2, <3>3
  <2>5. i \in 1 .. Len(t) + 1
    BY <1>t, <2>1
  <2>. QED
    BY <1>t, <2>2, <2>4, <2>5 DEF Gap
<1>4. ASSUME NEW x \in Int, NEW i, Gap(s, x, i), ~(i < pos \/ (i = pos /\ x < k))
      PROVE  Gap(t, x, i + 1)
  <2>1. /\ i \in 1 .. n + 1 /\ pos <= i
        /\ \A j \in 1 .. i - 1 : s[j] <= x
        /\ \A j \in i .. n : x < s[j]
    BY <1>1, <1>4, <1>n DEF Gap
  <2>2. k <= x
    <3>1. CASE i = pos
      BY <1>4, <3>1
    <3>2. CASE i > pos
      <4>1. pos \in 1 .. i - 1 /\ pos \in pos .. n /\ s[pos] \in Int
        BY <1>1, <1>n, <2>1, <3>2
      <4>. QED
        BY <1>1, <1>n, <2>1, <4>1
    <3>. QED
      BY <2>1, <3>1, <3>2
  <2>3. ASSUME NEW j \in 1 .. i PROVE t[j] <= x
    <3>1. CASE j < pos
      <4>1. j \in 1 .. pos - 1 /\ j \in 1 .. i - 1
        BY <2>1, <3>1
      <4>. QED
        BY <1>t, <2>1, <4>1
    <3>2. CASE j = pos
      BY <1>t, <2>2, <3>2
    <3>3. CASE j > pos
      <4>1. j \in pos + 1 .. n + 1 /\ j - 1 \in 1 .. i - 1
        BY <1>1, <2>1, <3>3
      <4>. QED
        BY <1>t, <2>1, <4>1
    <3>. QED
      BY <2>1, <3>1, <3>2, <3>3
  <2>4. ASSUME NEW j \in i + 1 .. n + 1 PROVE x < t[j]
    <3>1. j \in pos + 1 .. n + 1 /\ j - 1 \in i .. n
      BY <2>1
    <3>. QED
      BY <1>t, <2>1, <3>1
  <2>5. i \in Nat /\ i + 1 \in 1 .. Len(t) + 1 /\ Len(t) = n + 1
    BY <1>t, <2>1
  <2>6. ASSUME NEW j \in 1 .. (i + 1) - 1 PROVE t[j] <= x
    <3>1. j \in 1 .. i
      BY <2>5
    <3>. QED
      BY <2>3, <3>1
  <2>. QED
    BY <2>4, <2>5, <2>6 DEF Gap
<1>. QED
  BY <1>2, <1>3, <1>4

\* insert_notfull of a leaf: the entry comes into its place.
LEMMA EntryInserted ==
  ASSUME NEW n \in Nodes, Sorted(n.keys), Len(n.ch) = Len(n.keys),
         NEW k \in Keys, \A j \in 1 .. Len(n.keys) : n.keys[j] # k,
         NEW rec \in Records
  PROVE  LET m == insert_notfull(n, k, rec)
             pos == find_first_gt(n, k)
         IN  /\ m \in Nodes
             /\ SameHeader(m, n)
             /\ pos \in 1 .. Len(n.keys) + 1
             /\ Widened(m.keys, n.keys, pos, k)
             /\ Widened(m.ch, n.ch, pos, rec)
             /\ Sorted(m.keys)
<1>p. PICK pos : pos = find_first_gt(n, k)
  OBVIOUS
<1>m. PICK m : m = insert_notfull(n, k, rec)
  OBVIOUS
<1>1. n.keys \in Seq(Keys) /\ n.keys \in Seq(Int) /\ n.ch \in Seq(Entries) /\ k \in Int
  BY NodeFields, KeysAreInts, TreeAssumption
<1>2. Gap(n.keys, k, pos)
  BY <1>1, <1>p, GapFound
<1>3. pos \in 1 .. Len(n.keys) + 1 /\ pos \in 1 .. Len(n.ch) + 1 /\ pos \in Nat
  BY <1>1, <1>2 DEF Gap
<1>4. m = Grown(n, pos, k, pos, rec)
  BY <1>m, <1>p DEF insert_notfull, Grown
<1>5. /\ m \in Nodes
      /\ SameHeader(m, n)
      /\ Widened(m.keys, n.keys, pos, k)
      /\ Widened(m.ch, n.ch, pos, rec)
  <2>1. rec \in Entries
    BY DEF Entries
  <2>2. pos \in 1 .. Len(n.keys) + 1 /\ pos \in 1 .. Len(n.ch) + 1
    BY <1>3
  <2>. QED
    BY <1>4, <2>1, <2>2, NodeInserted
<1>9. pos > 1 => n.keys[pos - 1] < k
  <2>1. ASSUME pos > 1 PROVE n.keys[pos - 1] < k
    <3>1. pos - 1 \in 1 .. Len(n.keys) /\ n.keys[pos - 1] \in Int
      BY <1>1, <1>3, <2>1
    <3>2. n.keys[pos - 1] <= k /\ n.keys[pos - 1] # k
      BY <1>2, <1>3, <2>1, <3>1 DEF Gap
    <3>. QED
      BY <1>1, <3>1, <3>2
  <2>. QED
    BY <2>1
<1>10. m.keys \in Seq(Int)
  BY <1>5, NodeFields, KeysAreInts
<1>11. Sorted(m.keys)
  <2>1. PICK s \in Seq(Int), t \in Seq(Int) : s = n.keys /\ t = m.keys
    BY <1>1, <1>10
  <2>. QED
    BY <1>1, <1>2, <1>3, <1>5, <1>9, <2>1, GapInserted
<1>. QED
  BY <1>m, <1>p, <1>3, <1>5, <1>11
-----------------------------------------------------------------------------
\* A page is divided.

LEMMA PartSorted ==
  ASSUME NEW s \in Seq(Int), NEW t \in Seq(Int), NEW a \in Nat, Sorted(s), Part(t, s, a)
  PROVE  Sorted(t)
<1> SUFFICES ASSUME NEW i \in 1 .. Len(t), NEW j \in 1 .. Len(t), i < j PROVE t[i] < t[j]
  BY DEF Sorted
<1>n. PICK n \in Nat, m \in Nat : n = Len(t) /\ m = Len(s)
  BY LenProperties
<1>1. n + a <= m /\ t[i] = s[i + a] /\ t[j] = s[j + a]
  BY <1>n DEF Part
<1>2. i + a \in 1 .. m /\ j + a \in 1 .. m /\ i + a < j + a
  <2>1. i \in 1 .. n /\ j \in 1 .. n /\ n + a <= m
    BY <1>n, <1>1
  <2>. QED
    BY <2>1
<1>3. s[i + a] < s[j + a]
  BY <1>n, <1>2 DEF Sorted
<1>. QED
  BY <1>1, <1>3

\* Left of the separating key the gaps of the left part are those of the whole.
LEMMA GapLeft ==
  ASSUME NEW s \in Seq(Int), NEW t \in Seq(Int), Sorted(s), Part(t, s, 0),
         Len(t) + 1 \in 1 .. Len(s), NEW k \in Int, k < s[Len(t) + 1],
         NEW i, Gap(t, k, i)
  PROVE  Gap(s, k, i)
<1>n. PICK n \in Nat : n = Len(t)
  OBVIOUS
<1>1. /\ i \in 1 .. n + 1 /\ n + 1 \in 1 .. Len(s)
      /\ \A j \in 1 .. i - 1 : t[j] <= k
      /\ \A j \in i .. n : k < t[j]
      /\ \A j \in 1 .. n : t[j] = s[j]
  BY <1>n DEF Gap, Part
<1>2. ASSUME NEW j \in 1 .. i - 1 PROVE s[j] <= k
  <2>1. j \in 1 .. n
    BY <1>1
  <2>. QED
    BY <1>1, <2>1
<1>3. ASSUME NEW j \in i .. Len(s) PROVE k < s[j]
  <2>1. CASE j <= n
    <3>1. j \in 1 .. n /\ j \in i .. n
      BY <1>1, <2>1
    <3>. QED
      BY <1>1, <3>1
  <2>2. CASE j > n
    <3>1. /\ j \in 1 .. Len(s) /\ (j = n + 1 \/ n + 1 < j)
          /\ s[j] \in Int /\ s[n + 1] \in Int
      BY <1>1, <2>2
    <3>2. n + 1 < j => s[n + 1] < s[j]
      BY <1>1, <3>1 DEF Sorted
    <3>3. k < s[n + 1]
      BY <1>n
    <3>. QED
      BY <3>1, <3>2, <3>3
  <2>. QED
    BY <1>1, <2>1, <2>2
<1>4. i \in 1 .. Len(s) + 1
  BY <1>1
<1>. QED
  BY <1>2, <1>3, <1>4 DEF Gap

\* From the separating key on, they are those of the right part.
LEMMA GapRight ==
  ASSUME NEW s \in Seq(Int), NEW t \in Seq(Int), NEW a \in 1 .. Len(s), Sorted(s),
         Part(t, s, a), Len(t) = Len(s) - a, NEW k \in Int, s[a] <= k,
         NEW i, Gap(t, k, i)
  PROVE  Gap(s, k, i + a)
<1>n. PICK n \in Nat : n = Len(t)
  BY LenProperties
<1>1. /\ i \in 1 .. n + 1 /\ Len(s) = n + a
      /\ \A j \in 1 .. i - 1 : t[j] <= k
      /\ \A j \in i .. n : k < t[j]
      /\ \A j \in 1 .. n : t[j] = s[j + a]
  BY <1>n DEF Gap, Part
<1>2. ASSUME NEW j \in 1 .. i + a - 1 PROVE s[j] <= k
  <2>1. CASE j <= a
    <3>1. j \in 1 .. Len(s) /\ (j = a \/ j < a) /\ s[j] \in Int /\ s[a] \in Int
      BY <1>1, <2>1
    <3>2. j < a => s[j] < s[a]
      BY <3>1 DEF Sorted
    <3>. QED
      BY <3>1, <3>2
  <2>2. CASE j > a
    <3>1. j - a \in 1 .. i - 1 /\ j - a \in 1 .. n /\ (j - a) + a = j
      BY <1>1, <2>2
    <3>2. t[j - a] = s[(j - a) + a] /\ t[j - a] <= k
      BY <1>1, <3>1
    <3>. QED
      BY <3>1, <3>2
  <2>. QED
    BY <1>1, <2>1, <2>2
<1>3. ASSUME NEW j \in i + a .. Len(s) PROVE k < s[j]
  <2>1. j - a \in i .. n /\ j - a \in 1 .. n /\ (j - a) + a = j
    BY <1>1
  <2>2. t[j - a] = s[(j - a) + a] /\ k < t[j - a]
    BY <1>1, <2>1
  <2>. QED
    BY <2>1, <2>2
<1>4. i + a \in 1 .. Len(s) + 1
  BY <1>1
<1>5. PICK m \in Nat : m = i + a
  BY <1>1
<1>. QED
  BY <1>2, <1>3, <1>4, <1>5 DEF Gap

LEMMA InSet ==
  ASSUME NEW T, NEW s \in Seq(T), NEW x
  PROVE  x \in ToSet(s) <=> \E j \in 1 .. Len(s) : s[j] = x
  BY LenProperties DEF ToSet

LEMMA WidenedSet ==
  ASSUME NEW T, NEW s \in Seq(T), NEW t \in Seq(T), NEW i \in 1 .. Len(s) + 1, NEW e,
         Widened(t, s, i, e)
  PROVE  /\ ToSet(t) = ToSet(s) \cup {e}
         /\ Distinct(s) /\ e \notin ToSet(s) => Distinct(t)
<1>n. PICK n \in Nat : n = Len(s)
  OBVIOUS
<1>1. /\ Len(t) = n + 1 /\ i \in 1 .. n + 1
      /\ \A x : x \in ToSet(s) <=> \E j \in 1 .. n : s[j] = x
      /\ \A x : x \in ToSet(t) <=> \E j \in 1 .. n + 1 : t[j] = x
  BY <1>n, InSet DEF Widened
<1>2. /\ \A j \in 1 .. i - 1 : t[j] = s[j]
      /\ t[i] = e
      /\ \A j \in i + 1 .. n + 1 : t[j] = s[j - 1]
  BY <1>n DEF Widened
<1>3. ASSUME NEW j \in 1 .. n PROVE s[j] \in ToSet(t)
  <2>1. CASE j < i
    <3>1. j \in 1 .. i - 1 /\ j \in 1 .. n + 1
      BY <2>1, <1>1
    <3>. QED
      BY <1>1, <1>2, <3>1
  <2>2. CASE j >= i
    <3>1. j + 1 \in i + 1 .. n + 1 /\ j + 1 \in 1 .. n + 1 /\ (j + 1) - 1 = j
      BY <1>1, <2>2
    <3>2. t[j + 1] = s[(j + 1) - 1]
      BY <1>2, <3>1
    <3>. QED
      BY <1>1, <3>1, <3>2
  <2>. QED
    BY <1>1, <2>1, <2>2
<1>4. ASSUME NEW j \in 1 .. n + 1 PROVE t[j] \in ToSet(s) \cup {e}
  <2>1. CASE j < i
    <3>1. j \in 1 .. i - 1 /\ j \in 1 .. n
      BY <1>1, <2>1
    <3>. QED
      BY <1>1, <1>2, <3>1
  <2>2. CASE j > i
    <3>1. j \in i + 1 .. n + 1 /\ j - 1 \in 1 .. n
      BY <1>1, <2>2
    <3>. QED
      BY <1>1, <1>2, <3>1
  <2>. QED
    BY <1>1, <1>2, <2>1, <2>2
<1>5. ToSet(t) = ToSet(s) \cup {e}
  <2>1. e \in ToSet(t)
    BY <1>1, <1>2
  <2>2. ToSet(s) \subseteq ToSet(t)
    BY <1>1, <1>3
  <2>3. ToSet(t) \subseteq ToSet(s) \cup {e}
    BY <1>1, <1>4
  <2>. QED
    BY <2>1, <2>2, <2>3
<1>6. ASSUME Distinct(s), e \notin ToSet(s) PROVE Distinct(t)
  <2> DEFINE from(j) == IF j < i THEN j ELSE j - 1
  <2>1. ASSUME NEW j \in 1 .. n + 1
        PROVE  (j = i /\ t[j] = e) \/ (j # i /\ from(j) \in 1 .. n /\ t[j] = s[from(j)])
    <3>1. CASE j < i
      BY <1>1, <1>2, <3>1
    <3>2. CASE j > i
      <4>1. j \in i + 1 .. n + 1 /\ j - 1 \in 1 .. n
        BY <1>1, <3>2
      <4>. QED
        BY <1>1, <1>2, <3>2, <4>1
    <3>. QED
      BY <1>1, <1>2, <3>1, <3>2
  <2>2. ASSUME NEW j \in 1 .. n + 1, NEW k \in 1 .. n + 1, t[j] = t[k] PROVE j = k
    <3>1. CASE j = i \/ k = i
      <4>1. \A m \in 1 .. n : s[m] # e
        BY <1>1, <1>6
      <4>. QED
        BY <1>2, <2>1, <2>2, <3>1, <4>1
    <3>2. CASE j # i /\ k # i
      <4>1. from(j) \in 1 .. n /\ from(k) \in 1 .. n /\ s[from(j)] = s[from(k)]
        BY <2>1, <2>2, <3>2
      <4>2. from(j) = from(k)
        BY <1>6, <1>n, <4>1 DEF Distinct
      <4>. QED
        BY <1>1, <3>2, <4>2
    <3>. QED
      BY <3>1, <3>2
  <2>. QED
    BY <1>1, <2>2 DEF Distinct
<1>. QED
  BY <1>5, <1>6

\* The two parts share out what the whole has.
LEMMA PartsShare ==
  ASSUME NEW T, NEW s \in Seq(T), NEW l \in Seq(T), NEW r \in Seq(T), NEW a \in Nat,
         Part(l, s, 0), Len(l) = a, Part(r, s, a), Len(s) = a + Len(r), Distinct(s)
  PROVE  /\ ToSet(l) \cup ToSet(r) = ToSet(s)
         /\ ToSet(l) \cap ToSet(r) = {}
         /\ Distinct(l) /\ Distinct(r)
<1>n. PICK n \in Nat : n = Len(r)
  BY LenProperties
<1>1. /\ \A x : x \in ToSet(s) <=> \E j \in 1 .. a + n : s[j] = x
      /\ \A x : x \in ToSet(l) <=> \E j \in 1 .. a : l[j] = x
      /\ \A x : x \in ToSet(r) <=> \E j \in 1 .. n : r[j] = x
  BY <1>n, InSet
<1>2. /\ \A j \in 1 .. a : l[j] = s[j]
      /\ \A j \in 1 .. n : r[j] = s[j + a]
  <2>1. ASSUME NEW j \in 1 .. a PROVE l[j] = s[j]
    <3>1. l[j] = s[j + 0] /\ j + 0 = j
      BY DEF Part
    <3>. QED
      BY <3>1
  <2>. QED
    BY <1>n, <2>1 DEF Part
<1>3. \A i, j \in 1 .. a + n : s[i] = s[j] => i = j
  BY <1>n DEF Distinct
<1>4. ASSUME NEW j \in 1 .. a PROVE j \in 1 .. a + n /\ l[j] \in ToSet(s)
  BY <1>1, <1>2
<1>5. ASSUME NEW j \in 1 .. n PROVE j + a \in 1 .. a + n /\ r[j] \in ToSet(s)
  <2>1. j + a \in 1 .. a + n
    OBVIOUS
  <2>2. r[j] = s[j + a]
    BY <1>2
  <2>. QED
    BY <1>1, <2>1, <2>2
<1>6. ASSUME NEW j \in 1 .. a + n PROVE s[j] \in ToSet(l) \cup ToSet(r)
  <2>1. CASE j <= a
    <3>1. j \in 1 .. a
      BY <2>1
    <3>. QED
      BY <1>1, <1>2, <3>1
  <2>2. CASE j > a
    <3>1. j - a \in 1 .. n /\ (j - a) + a = j
      BY <2>2
    <3>2. r[j - a] = s[(j - a) + a]
      BY <1>2, <3>1
    <3>. QED
      BY <1>1, <3>1, <3>2
  <2>. QED
    BY <2>1, <2>2
<1>7. ToSet(l) \cup ToSet(r) = ToSet(s)
  <2>1. ToSet(l) \subseteq ToSet(s)
    BY <1>1, <1>4
  <2>2. ToSet(r) \subseteq ToSet(s)
    BY <1>1, <1>5
  <2>3. ToSet(s) \subseteq ToSet(l) \cup ToSet(r)
    BY <1>1, <1>6
  <2>. QED
    BY <2>1, <2>2, <2>3
<1>8. ASSUME NEW x \in 1 .. a, NEW y \in 1 .. n PROVE l[x] # r[y]
  <2>1. x \in 1 .. a + n /\ y + a \in 1 .. a + n /\ x # y + a
    OBVIOUS
  <2>. QED
    BY <1>2, <1>3, <2>1
<1>9. ToSet(l) \cap ToSet(r) = {}
  BY <1>1, <1>8
<1>10. Distinct(l)
  BY <1>2, <1>3, <1>4 DEF Distinct
<1>11. Distinct(r)
  <2>1. ASSUME NEW x \in 1 .. n, NEW y \in 1 .. n, r[x] = r[y] PROVE x = y
    <3>1. r[x] = s[x + a] /\ r[y] = s[y + a]
      BY <1>2
    <3>2. x + a \in 1 .. a + n /\ y + a \in 1 .. a + n
      OBVIOUS
    <3>3. x + a = y + a
      BY <1>3, <2>1, <3>1, <3>2
    <3>. QED
      BY <3>3
  <2>. QED
    BY <1>n, <2>1 DEF Distinct
<1>. QED
  BY <1>7, <1>9, <1>10, <1>11

LEMMA WidenedIn ==
  ASSUME NEW T, NEW s \in Seq(T), NEW t, NEW i \in 1 .. Len(s) + 1, NEW e,
         Widened(t, s, i, e), NEW S, e \in S, \A j \in 1 .. Len(s) : s[j] \in S
  PROVE  \A j \in 1 .. Len(t) : t[j] \in S
<1>1. PICK len \in Nat : len = Len(s)
  BY LenProperties
<1>2. /\ Len(t) = len + 1
      /\ \A j \in 1 .. i - 1 : t[j] = s[j]
      /\ t[i] = e
      /\ \A j \in i + 1 .. len + 1 : t[j] = s[j - 1]
  BY <1>1 DEF Widened
<1>3. ASSUME NEW j \in 1 .. len + 1 PROVE t[j] \in S
  <2>1. CASE j < i
    <3>1. j \in 1 .. i - 1 /\ j \in 1 .. len
      BY <1>1, <2>1
    <3>. QED
      BY <1>1, <1>2, <3>1
  <2>2. CASE j > i
    <3>1. j \in i + 1 .. len + 1 /\ j - 1 \in 1 .. len
      BY <1>1, <2>2
    <3>. QED
      BY <1>1, <1>2, <3>1
  <2>. QED
    BY <1>1, <1>2, <2>1, <2>2
<1>. QED
  BY <1>2, <1>3

LEMMA PartIn ==
  ASSUME NEW T, NEW s \in Seq(T), NEW t \in Seq(T), NEW a \in Nat, Part(t, s, a),
         NEW S, \A j \in 1 .. Len(s) : s[j] \in S
  PROVE  \A j \in 1 .. Len(t) : t[j] \in S
<1>1. PICK m \in Nat, n \in Nat : m = Len(s) /\ n = Len(t)
  BY LenProperties
<1>2. ASSUME NEW j \in 1 .. n PROVE t[j] \in S
  <2>1. n + a <= m /\ t[j] = s[j + a]
    BY <1>1 DEF Part
  <2>2. j + a \in 1 .. m
    BY <2>1
  <2>. QED
    BY <1>1, <2>1, <2>2
<1>. QED
  BY <1>1, <1>2

LEMMA CutPart ==
  ASSUME NEW T, NEW s \in Seq(T), NEW a \in Nat, NEW b \in Nat, a < b, b <= Len(s)
  PROVE  /\ SubSeq(s, a + 1, b) \in Seq(T)
         /\ Len(SubSeq(s, a + 1, b)) = b - a
         /\ Part(SubSeq(s, a + 1, b), s, a)
<1>1. PICK t : t = SubSeq(s, a + 1, b)
  OBVIOUS
<1>2. PICK c \in Nat : c = a + 1
  OBVIOUS
<1>3. /\ t \in Seq(T) /\ Len(t) = b - c + 1
      /\ \A j \in 1 .. b - c + 1 : t[j] = s[c + j - 1]
  BY <1>1, <1>2, Cut
<1>4. Len(t) = b - a
  BY <1>2, <1>3
<1>5. ASSUME NEW j \in 1 .. Len(t) PROVE t[j] = s[j + a]
  <2>1. c + j - 1 = j + a
    BY <1>2
  <2>. QED
    BY <1>3, <2>1
<1>6. Part(t, s, a)
  BY <1>4, <1>5 DEF Part
<1>. QED
  BY <1>1, <1>3, <1>4, <1>6

\* The old page and the new one after the division of a leaf, where temp is
\* the copy that has the additional entry.
LeftLeaf(m, full, temp, id) ==
  /\ m \in Nodes /\ m.leaf
  /\ m.rootBit = full.rootBit /\ m.parent = full.parent /\ m.next = id
  /\ Len(m.keys) = split_point /\ Part(m.keys, temp.keys, 0)
  /\ Len(m.ch) = split_point /\ Part(m.ch, temp.ch, 0)

RightLeaf(m, full, temp) ==
  /\ m \in Nodes /\ m.leaf
  /\ ~m.rootBit /\ m.parent = full.parent /\ m.next = full.next
  /\ Len(m.keys) = Order - split_point /\ Part(m.keys, temp.keys, split_point)
  /\ Len(m.ch) = Order - split_point /\ Part(m.ch, temp.ch, split_point)

LEMMA LeafDivided ==
  ASSUME NEW full \in Nodes, full.leaf, Sorted(full.keys),
         Len(full.keys) = Order - 1, Len(full.ch) = Order - 1,
         NEW k \in Keys, \A j \in 1 .. Len(full.keys) : full.keys[j] # k,
         NEW rec \in Records, NEW id \in PageIds
  PROVE  LET temp == insert_notfull(full, k, rec)
             h == LeafHalves(full, id, k, rec)
         IN  /\ LeftLeaf(h.left, full, temp, id)
             /\ RightLeaf(h.right, full, temp)
             /\ h.key = temp.keys[split_point + 1] /\ h.key \in Keys
<1>t. PICK temp : temp = insert_notfull(full, k, rec)
  OBVIOUS
<1>h. PICK h : h = LeafHalves(full, id, k, rec)
  OBVIOUS
<1>l. PICK l : l = h.left
  OBVIOUS
<1>r. PICK r : r = h.right
  OBVIOUS
<1>0. /\ split_point \in Nat /\ Order \in Nat /\ 0 < split_point /\ split_point < Order
      /\ 0 \in Nat /\ 0 + 1 = 1
  BY OrderFacts
<1>1. /\ temp \in Nodes /\ SameHeader(temp, full)
      /\ Len(temp.keys) = Order /\ Len(temp.ch) = Order
  <2>1. Len(full.ch) = Len(full.keys)
    OBVIOUS
  <2>2. PICK pos : /\ temp \in Nodes /\ SameHeader(temp, full)
                   /\ Widened(temp.keys, full.keys, pos, k)
                   /\ Widened(temp.ch, full.ch, pos, rec)
    BY <1>t, <2>1, EntryInserted
  <2>3. Len(temp.keys) = Len(full.keys) + 1 /\ Len(temp.ch) = Len(full.ch) + 1
    BY <2>2 DEF Widened
  <2>. QED
    BY <1>0, <2>2, <2>3
<1>2. /\ temp.keys \in Seq(Keys) /\ temp.ch \in Seq(Entries)
      /\ temp.leaf = full.leaf /\ temp.rootBit = full.rootBit
      /\ temp.parent = full.parent /\ temp.next = full.next
      /\ temp = [leaf |-> temp.leaf, rootBit |-> temp.rootBit, keys |-> temp.keys,
                 ch |-> temp.ch, parent |-> temp.parent, next |-> temp.next]
      /\ full.rootBit \in BOOLEAN /\ full.parent \in PageIds \cup {ERROR_PAGE}
      /\ full.next \in StaleNext \cup PageIds
  BY <1>1, NodeFields DEF SameHeader
<1>k. PICK lk, lc, rk, rc :
        /\ lk = SubSeq(temp.keys, 1, split_point) /\ lc = SubSeq(temp.ch, 1, split_point)
        /\ rk = SubSeq(temp.keys, split_point + 1, Order)
        /\ rc = SubSeq(temp.ch, split_point + 1, Order)
  OBVIOUS
<1>3. /\ lk \in Seq(Keys) /\ Len(lk) = split_point /\ Part(lk, temp.keys, 0)
      /\ rk \in Seq(Keys) /\ Len(rk) = Order - split_point /\ Part(rk, temp.keys, split_point)
  <2>1. PICK s \in Seq(Keys) : s = temp.keys /\ Len(s) = Order
    BY <1>1, <1>2
  <2>2. /\ SubSeq(s, 0 + 1, split_point) \in Seq(Keys)
        /\ Len(SubSeq(s, 0 + 1, split_point)) = split_point - 0
        /\ Part(SubSeq(s, 0 + 1, split_point), s, 0)
    BY <1>0, <2>1, CutPart
  <2>3. /\ SubSeq(s, split_point + 1, Order) \in Seq(Keys)
        /\ Len(SubSeq(s, split_point + 1, Order)) = Order - split_point
        /\ Part(SubSeq(s, split_point + 1, Order), s, split_point)
    BY <1>0, <2>1, CutPart
  <2>4. split_point - 0 = split_point
    BY <1>0
  <2>. QED
    BY <1>0, <1>k, <2>1, <2>2, <2>3, <2>4
<1>4. /\ lc \in Seq(Entries) /\ Len(lc) = split_point /\ Part(lc, temp.ch, 0)
      /\ rc \in Seq(Entries) /\ Len(rc) = Order - split_point /\ Part(rc, temp.ch, split_point)
  <2>1. PICK s \in Seq(Entries) : s = temp.ch /\ Len(s) = Order
    BY <1>1, <1>2
  <2>2. /\ SubSeq(s, 0 + 1, split_point) \in Seq(Entries)
        /\ Len(SubSeq(s, 0 + 1, split_point)) = split_point - 0
        /\ Part(SubSeq(s, 0 + 1, split_point), s, 0)
    BY <1>0, <2>1, CutPart
  <2>3. /\ SubSeq(s, split_point + 1, Order) \in Seq(Entries)
        /\ Len(SubSeq(s, split_point + 1, Order)) = Order - split_point
        /\ Part(SubSeq(s, split_point + 1, Order), s, split_point)
    BY <1>0, <2>1, CutPart
  <2>4. split_point - 0 = split_point
    BY <1>0
  <2>. QED
    BY <1>0, <1>k, <2>1, <2>2, <2>3, <2>4
<1>5. l = [leaf |-> temp.leaf, rootBit |-> temp.rootBit, keys |-> lk, ch |-> lc,
           parent |-> temp.parent, next |-> id]
  <2>1. l = [temp EXCEPT !.keys = lk, !.ch = lc, !.next = id]
    BY <1>h, <1>k, <1>l, <1>t DEF LeafHalves, LeafCut
  <2>. QED
    BY <1>2, <2>1
<1>6. r = [leaf |-> TRUE, rootBit |-> FALSE, keys |-> rk, ch |-> rc,
           parent |-> temp.parent, next |-> full.next]
  <2>1. PICK e : e = NewNode(TRUE, FALSE, full.next)
    OBVIOUS
  <2>2. e = [leaf |-> TRUE, rootBit |-> FALSE, keys |-> <<>>, ch |-> <<>>,
             parent |-> ERROR_PAGE, next |-> full.next]
    BY <2>1 DEF NewNode
  <2>3. r = [e EXCEPT !.keys = rk, !.ch = rc, !.parent = temp.parent]
    BY <1>h, <1>k, <1>r, <1>t, <2>1 DEF LeafHalves, LeafCut
  <2>. QED
    BY <2>2, <2>3
<1>7. l \in Nodes /\ r \in Nodes
  BY <1>2, <1>3, <1>4, <1>5, <1>6 DEF Nodes, Entries
<1>8. h.key = temp.keys[split_point + 1] /\ h.key \in Keys
  <2>1. h.key = r.keys[1]
    BY <1>h, <1>r DEF LeafHalves, LeafCut
  <2>2. r.keys = rk /\ 1 \in 1 .. Len(rk)
    BY <1>0, <1>3, <1>6
  <2>3. rk[1] = temp.keys[1 + split_point] /\ rk[1] \in Keys
    BY <1>3, <2>2 DEF Part
  <2>4. 1 + split_point = split_point + 1
    BY <1>0
  <2>. QED
    BY <2>1, <2>2, <2>3, <2>4
<1>9. /\ l.leaf /\ l.rootBit = full.rootBit /\ l.parent = full.parent /\ l.next = id
      /\ l.keys = lk /\ l.ch = lc
  BY <1>2, <1>5
<1>10. /\ r.leaf /\ r.rootBit = FALSE /\ r.parent = full.parent /\ r.next = full.next
       /\ r.keys = rk /\ r.ch = rc
  BY <1>2, <1>6
<1>11. LeftLeaf(l, full, temp, id)
  BY <1>3, <1>4, <1>7, <1>9 DEF LeftLeaf
<1>12. RightLeaf(r, full, temp)
  BY <1>3, <1>4, <1>7, <1>10 DEF RightLeaf
<1>. QED
  BY <1>h, <1>l, <1>r, <1>t, <1>8, <1>11, <1>12

\* The second half of a divided child comes into the parent n, to the right
\* of the first.
\* Page m is page n with the key at position pos and the new child r right of it.
ChildPut(m, n, pos, key, r) ==
  /\ m \in Nodes
  /\ SameHeader(m, n)
  /\ Widened(m.keys, n.keys, pos, key)
  /\ Widened(m.ch, n.ch, pos + 1, r)
  /\ Sorted(m.keys)
  /\ Distinct(m.ch)
  /\ ToSet(m.ch) = ToSet(n.ch) \cup {r}
  /\ \A x \in Int : \A i2 : Gap(m.keys, x, i2) =>
       \E i : /\ Gap(n.keys, x, i)
              /\ i = pos /\ x >= key => m.ch[i2] = r
              /\ ~(i = pos /\ x >= key) => m.ch[i2] = n.ch[i]

LEMMA ChildInserted ==
  ASSUME NEW n \in Nodes, Sorted(n.keys), Len(n.ch) = Len(n.keys) + 1, Distinct(n.ch),
         NEW pos, NEW l, pos \in 1 .. Len(n.ch), n.ch[pos] = l,
         NEW key \in Keys, Gap(n.keys, key, pos), pos > 1 => n.keys[pos - 1] < key,
         NEW r \in PageIds, r \notin ToSet(n.ch)
  PROVE  ChildPut(InsertedRightOf(n, l, key, r), n, pos, key, r)
<1>m. PICK m : m = InsertedRightOf(n, l, key, r)
  OBVIOUS
<1>1. /\ n.keys \in Seq(Keys) /\ n.keys \in Seq(Int) /\ n.ch \in Seq(Entries)
      /\ key \in Int /\ r \in Entries
  BY NodeFields, KeysAreInts, TreeAssumption DEF Entries
<1>k. PICK ks \in Seq(Int), cs \in Seq(Entries), len \in Nat :
        ks = n.keys /\ cs = n.ch /\ Len(ks) = len /\ Len(cs) = len + 1
  BY <1>1, LenProperties
<1>2. pos \in 1 .. len + 1
  BY <1>k
<1>3. find_ch(n, l) = pos
  <2>1. find_ch(n, l) \in 1 .. Len(n.ch) /\ n.ch[find_ch(n, l)] = l
    BY <1>1, ChildFound
  <2>. QED
    BY <2>1 DEF Distinct
<1>4. m = Grown(n, pos, key, pos + 1, r)
  BY <1>3, <1>m DEF InsertedRightOf, Grown
<1>5. m \in Nodes /\ SameHeader(m, n) /\ Widened(m.keys, ks, pos, key)
      /\ Widened(m.ch, cs, pos + 1, r)
  <2>1. pos \in 1 .. Len(n.keys) + 1 /\ pos + 1 \in 1 .. Len(n.ch) + 1
    BY <1>2, <1>k
  <2>. QED
    BY <1>1, <1>4, <1>k, <2>1, NodeInserted
<1>t. PICK t \in Seq(Int), d \in Seq(Entries) : t = m.keys /\ d = m.ch
  BY <1>5, NodeFields, KeysAreInts
<1>6. /\ Sorted(t)
      /\ \A x \in Int : \A i : Gap(ks, x, i) =>
           Gap(t, x, IF i < pos \/ (i = pos /\ x < key) THEN i ELSE i + 1)
  <2>1. pos \in Nat /\ Sorted(ks) /\ Gap(ks, key, pos) /\ (pos > 1 => ks[pos - 1] < key)
        /\ Widened(t, ks, pos, key)
    BY <1>2, <1>5, <1>k, <1>t
  <2>. QED
    BY <1>1, <2>1, GapInserted
<1>7. Distinct(m.ch) /\ ToSet(m.ch) = ToSet(n.ch) \cup {r}
  <2>1. pos + 1 \in 1 .. Len(cs) + 1 /\ Widened(d, cs, pos + 1, r)
    BY <1>2, <1>5, <1>k, <1>t
  <2>2. ToSet(d) = ToSet(cs) \cup {r} /\ (Distinct(cs) /\ r \notin ToSet(cs) => Distinct(d))
    BY <2>1, WidenedSet
  <2>. QED
    BY <1>k, <1>t, <2>2
<1>8. /\ \A j \in 1 .. pos : d[j] = cs[j]
      /\ d[pos + 1] = r
      /\ \A j \in pos + 2 .. len + 2 : d[j] = cs[j - 1]
  <2>1. /\ \A j \in 1 .. (pos + 1) - 1 : d[j] = cs[j]
        /\ d[pos + 1] = r
        /\ \A j \in (pos + 1) + 1 .. Len(cs) + 1 : d[j] = cs[j - 1]
    BY <1>5, <1>k, <1>t DEF Widened
  <2>2. pos \in Nat
    BY <1>2, <1>k
  <2>4. Len(cs) + 1 = len + 2
    <3>1. Len(cs) = len + 1 /\ len \in Nat
      BY <1>k
    <3>. QED
      BY <3>1
  <2>3. (pos + 1) - 1 = pos /\ (pos + 1) + 1 = pos + 2
    BY <2>2
  <2>. QED
    BY <2>1, <2>2, <2>3, <2>4
<1>9. ASSUME NEW x \in Int, NEW i2, Gap(t, x, i2)
      PROVE  \E i : /\ Gap(ks, x, i)
                    /\ i = pos /\ x >= key => d[i2] = r
                    /\ ~(i = pos /\ x >= key) => d[i2] = cs[i]
  <2>1. PICK i \in 1 .. len + 1 : Gap(ks, x, i)
    BY <1>k, GapExists
  <2>2. CASE i < pos \/ (i = pos /\ x < key)
    <3>1. Gap(t, x, i)
      BY <1>6, <2>1, <2>2
    <3>2. i2 = i
      BY <1>9, <3>1, GapUnique
    <3>3. i \in 1 .. pos /\ ~(i = pos /\ x >= key)
      BY <1>1, <1>2, <2>1, <2>2
    <3>. QED
      BY <1>8, <2>1, <3>2, <3>3
  <2>3. CASE ~(i < pos \/ (i = pos /\ x < key))
    <3>1. Gap(t, x, i + 1)
      BY <1>6, <2>1, <2>3
    <3>2. i2 = i + 1
      BY <1>9, <3>1, GapUnique
    <3>3. CASE i = pos
      <4>1. x >= key
        BY <1>1, <2>3, <3>3
      <4>. QED
        BY <1>8, <2>1, <3>2, <3>3, <4>1
    <3>4. CASE i # pos
      <4>1. i + 1 \in pos + 2 .. len + 2 /\ (i + 1) - 1 = i
        <5>1. i \in 1 .. len + 1 /\ pos \in Nat /\ ~(i < pos) /\ i # pos
          BY <1>2, <2>1, <2>3, <3>4
        <5>. QED
          BY <1>k, <5>1
      <4>2. d[i + 1] = cs[(i + 1) - 1]
        BY <1>8, <4>1
      <4>. QED
        BY <2>1, <3>2, <3>4, <4>1, <4>2
    <3>. QED
      BY <3>3, <3>4
  <2>. QED
    BY <2>2, <2>3
<1>10. ChildPut(m, n, pos, key, r)
  BY <1>k, <1>t, <1>5, <1>6, <1>7, <1>9 DEF ChildPut
<1>. QED
  BY <1>m, <1>10

LeftInternal(m, full, temp) ==
  /\ m \in Nodes /\ ~m.leaf
  /\ m.rootBit = full.rootBit /\ m.parent = full.parent
  /\ Len(m.keys) = split_point - 1 /\ Part(m.keys, temp.keys, 0)
  /\ Len(m.ch) = split_point /\ Part(m.ch, temp.ch, 0)

RightInternal(m, full, temp) ==
  /\ m \in Nodes /\ ~m.leaf
  /\ ~m.rootBit /\ m.parent = full.parent
  /\ Len(m.keys) = Order - split_point /\ Part(m.keys, temp.keys, split_point)
  /\ Len(m.ch) = Order + 1 - split_point /\ Part(m.ch, temp.ch, split_point)

LEMMA InternalDivided ==
  ASSUME NEW full \in Nodes, ~full.leaf,
         NEW l, NEW key, NEW r, NEW stale \in StaleNext,
         NEW temp \in Nodes, temp = InsertedRightOf(full, l, key, r),
         Len(temp.keys) = Order, Len(temp.ch) = Order + 1, SameHeader(temp, full)
  PROVE  LET h == InternalHalves(full, l, key, r, stale)
         IN  /\ LeftInternal(h.left, full, temp)
             /\ RightInternal(h.right, full, temp)
             /\ h.key = temp.keys[split_point] /\ h.key \in Keys
<1>h. PICK h : h = InternalHalves(full, l, key, r, stale)
  OBVIOUS
<1>l. PICK lh : lh = h.left
  OBVIOUS
<1>r. PICK rh : rh = h.right
  OBVIOUS
<1>0. /\ split_point \in Nat /\ Order \in Nat /\ 1 < split_point /\ split_point < Order
      /\ split_point - 1 \in Nat /\ Order + 1 \in Nat /\ split_point < Order + 1
      /\ 0 \in Nat /\ 0 + 1 = 1 /\ 0 < split_point - 1 /\ 0 < split_point
  BY OrderFacts
<1>2. /\ temp.keys \in Seq(Keys) /\ temp.ch \in Seq(Entries)
      /\ temp.leaf = full.leaf /\ temp.rootBit = full.rootBit
      /\ temp.parent = full.parent /\ temp.next = full.next
      /\ temp = [leaf |-> temp.leaf, rootBit |-> temp.rootBit, keys |-> temp.keys,
                 ch |-> temp.ch, parent |-> temp.parent, next |-> temp.next]
      /\ full.rootBit \in BOOLEAN /\ full.parent \in PageIds \cup {ERROR_PAGE}
      /\ full.next \in StaleNext \cup PageIds /\ full.leaf = FALSE
  BY NodeFields DEF SameHeader
<1>k. PICK lk, lc, rk, rc :
        /\ lk = SubSeq(temp.keys, 1, split_point - 1) /\ lc = SubSeq(temp.ch, 1, split_point)
        /\ rk = SubSeq(temp.keys, split_point + 1, Order)
        /\ rc = SubSeq(temp.ch, split_point + 1, Order + 1)
  OBVIOUS
<1>3. /\ lk \in Seq(Keys) /\ Len(lk) = split_point - 1 /\ Part(lk, temp.keys, 0)
      /\ rk \in Seq(Keys) /\ Len(rk) = Order - split_point /\ Part(rk, temp.keys, split_point)
  <2>1. PICK s \in Seq(Keys) : s = temp.keys /\ Len(s) = Order
    BY <1>2
  <2>5. PICK a \in Nat : a = split_point - 1 /\ 0 < a /\ a <= Len(s) /\ a - 0 = a
    BY <1>0, <2>1
  <2>2. /\ SubSeq(s, 0 + 1, a) \in Seq(Keys)
        /\ Len(SubSeq(s, 0 + 1, a)) = a - 0
        /\ Part(SubSeq(s, 0 + 1, a), s, 0)
    BY <1>0, <2>1, <2>5, CutPart
  <2>3. /\ SubSeq(s, split_point + 1, Order) \in Seq(Keys)
        /\ Len(SubSeq(s, split_point + 1, Order)) = Order - split_point
        /\ Part(SubSeq(s, split_point + 1, Order), s, split_point)
    BY <1>0, <2>1, CutPart
  <2>. QED
    BY <1>0, <1>k, <2>1, <2>2, <2>3, <2>5
<1>4. /\ lc \in Seq(Entries) /\ Len(lc) = split_point /\ Part(lc, temp.ch, 0)
      /\ rc \in Seq(Entries) /\ Len(rc) = Order + 1 - split_point /\ Part(rc, temp.ch, split_point)
  <2>1. PICK s \in Seq(Entries) : s = temp.ch /\ Len(s) = Order + 1
    BY <1>2
  <2>2. /\ SubSeq(s, 0 + 1, split_point) \in Seq(Entries)
        /\ Len(SubSeq(s, 0 + 1, split_point)) = split_point - 0
        /\ Part(SubSeq(s, 0 + 1, split_point), s, 0)
    BY <1>0, <2>1, CutPart
  <2>5. PICK b \in Nat : b = Order + 1
    BY <1>0
  <2>3. /\ SubSeq(s, split_point + 1, b) \in Seq(Entries)
        /\ Len(SubSeq(s, split_point + 1, b)) = b - split_point
        /\ Part(SubSeq(s, split_point + 1, b), s, split_point)
    BY <1>0, <2>1, <2>5, CutPart
  <2>4. split_point - 0 = split_point
    BY <1>0
  <2>. QED
    BY <1>0, <1>k, <2>1, <2>2, <2>3, <2>4, <2>5
<1>5. lh = [leaf |-> FALSE, rootBit |-> temp.rootBit, keys |-> lk, ch |-> lc,
            parent |-> temp.parent, next |-> temp.next]
  <2>1. lh = [temp EXCEPT !.keys = lk, !.ch = lc]
    BY <1>h, <1>k, <1>l DEF InternalHalves, InternalCut
  <2>. QED
    BY <1>2, <2>1
<1>6. rh = [leaf |-> FALSE, rootBit |-> FALSE, keys |-> rk, ch |-> rc,
            parent |-> temp.parent, next |-> stale]
  <2>1. PICK e : e = NewNode(FALSE, FALSE, stale)
    OBVIOUS
  <2>2. e = [leaf |-> FALSE, rootBit |-> FALSE, keys |-> <<>>, ch |-> <<>>,
             parent |-> ERROR_PAGE, next |-> stale]
    BY <2>1 DEF NewNode
  <2>3. rh = [e EXCEPT !.keys = rk, !.ch = rc, !.parent = temp.parent]
    BY <1>h, <1>k, <1>r, <2>1 DEF InternalHalves, InternalCut
  <2>. QED
    BY <2>2, <2>3
<1>7. lh \in Nodes /\ rh \in Nodes
  BY <1>2, <1>3, <1>4, <1>5, <1>6 DEF Nodes, Entries
<1>8. h.key = temp.keys[split_point] /\ h.key \in Keys
  <2>1. h.key = temp.keys[split_point]
    BY <1>h DEF InternalHalves, InternalCut
  <2>2. split_point \in 1 .. Len(temp.keys)
    BY <1>0
  <2>. QED
    BY <1>2, <2>1, <2>2
<1>9. /\ lh.leaf = FALSE /\ lh.rootBit = full.rootBit /\ lh.parent = full.parent
      /\ lh.keys = lk /\ lh.ch = lc
  BY <1>2, <1>5
<1>10. /\ rh.leaf = FALSE /\ rh.rootBit = FALSE /\ rh.parent = full.parent
       /\ rh.keys = rk /\ rh.ch = rc
  BY <1>2, <1>6
<1>11. LeftInternal(lh, full, temp)
  BY <1>3, <1>4, <1>7, <1>9 DEF LeftInternal
<1>12. RightInternal(rh, full, temp)
  BY <1>3, <1>4, <1>7, <1>10 DEF RightInternal
<1>. QED
  BY <1>h, <1>l, <1>r, <1>8, <1>11, <1>12
-----------------------------------------------------------------------------
\* The inductive invariant.

Pages == 1 .. pageCnt - 1

\* What a page holds; the pending half of a divided root is already short.
HalfFull(n) == Len(n.keys) >= IF n.leaf THEN split_point ELSE split_point - 1

NodeOK(n, isRoot) ==
  /\ n \in Nodes
  /\ Sorted(n.keys)
  /\ 1 <= Len(n.keys) /\ Len(n.keys) <= Order - 1
  /\ isRoot \/ HalfFull(n)
  /\ n.rootBit <=> isRoot
  /\ n.leaf => /\ Len(n.ch) = Len(n.keys)
               /\ \A i \in 1 .. Len(n.ch) : n.ch[i] \in Records \cup {ERROR_PAGE}
  /\ ~n.leaf => Len(n.ch) = Len(n.keys) + 1 /\ Distinct(n.ch)

Typed ==
  /\ pageCnt \in 1 .. MaxPage + 1
  /\ node \in [PageIds -> Nodes \cup {NoNode}]
  /\ \A p \in PageIds : IF p < pageCnt THEN NodeOK(node[p], p = root) ELSE node[p] = NoNode
  /\ up \in Calls \cup {NoCall}
  /\ last \in (Keys \X (Records \cup {ERROR_PAGE})) \cup {NoCall}

Rooted ==
  IF root = ERROR_PAGE THEN pageCnt = 1 /\ up = NoCall
  ELSE root \in Pages /\ node[root].parent = ERROR_PAGE

\* A child names its parent, and whoever is neither the root nor pending is
\* a child of the page it names.
Linked ==
  \A p \in Pages : ~node[p].leaf =>
    \A c \in ToSet(node[p].ch) : c \in Pages /\ node[c].parent = p

Named ==
  \A c \in Pages : c # root /\ ~(up # NoCall /\ c = up.r) =>
    /\ node[c].parent \in Pages
    /\ ~node[node[c].parent].leaf
    /\ c \in ToSet(node[node[c].parent].ch)

Waiting ==
  up # NoCall =>
    /\ up.l \in Pages /\ up.r \in Pages /\ up.l # up.r /\ up.r # root
    /\ HalfFull(node[up.l])
    /\ node[up.r].parent = node[up.l].parent
    /\ \A p \in Pages : ~node[p].leaf => up.r \notin ToSet(node[p].ch)

\* ht[p] is the height of page p above the leaves, h that of the root.
Heights(ht, h) ==
  /\ ht \in [PageIds -> Nat] /\ h \in Nat
  /\ root # ERROR_PAGE => ht[root] = h /\ h + 2 <= pageCnt
  /\ \A p \in Pages : (node[p].leaf <=> ht[p] = 0) /\ ht[p] <= h
  /\ \A p \in Pages : ~node[p].leaf => \A c \in ToSet(node[p].ch) : ht[c] + 1 = ht[p]
  /\ up # NoCall => ht[up.l] = ht[up.r]

\* q is the page meant where a descent for k finds the child c.
Leads(c, k, q) ==
  IF up # NoCall /\ c = up.l /\ k >= up.key THEN q = up.r ELSE q = c

\* The leaves own intervals, and `next` leads from each to the next. What
\* the last one has in its place nobody set.
Chained(own) ==
  /\ \A x \in Int : own[x + 1] # own[x] => node[own[x]].next = own[x + 1]
  /\ \A x, y, z \in Int : x < y /\ y < z /\ own[x] = own[z] => own[y] = own[x]
  /\ \A x \in Int : (\A y \in Int : x <= y => own[y] = own[x]) =>
                      node[own[x]].next \in StaleNext

\* at[d][k] is the owner of k on the level d above the leaves.
Owners(at, ht, h) ==
  /\ at \in [Nat -> [Int -> PageIds]]
  /\ \A d \in 0 .. h : \A k \in Int : at[d][k] \in Pages /\ ht[at[d][k]] = d
  /\ \A k \in Int : Leads(root, k, at[h][k])
  /\ \A d \in 1 .. h : \A k \in Int : \A i :
       Gap(node[at[d][k]].keys, k, i) => Leads(node[at[d][k]].ch[i], k, at[d - 1][k])
  /\ \A p \in Pages : \A i \in 1 .. Len(node[p].keys) : at[ht[p]][node[p].keys[i]] = p
  /\ up # NoCall => at[ht[up.r]][up.key] = up.r
  /\ Chained(at[0])

Shape == Typed /\ Rooted /\ Linked /\ Named /\ Waiting

Inv ==
  /\ Shape
  /\ \E at, ht, h : Heights(ht, h) /\ (root # ERROR_PAGE => Owners(at, ht, h))

\* What a step does to the owners at of h levels: on each level a page that is
\* new may take over from others, but never from the first one.
Inherits(at, h, at2, h2) ==
  /\ h <= h2
  /\ \A d \in 0 .. h : \A x \in Int : at2[d][x] = at[d][x] \/ at2[d][x] = pageCnt
  /\ \A d \in 0 .. h : \E b \in Int : \A x \in Int : x < b => at2[d][x] = at[d][x]

FollowsFrom(at, h) ==
  \E at2, ht2, h2 :
    Heights(ht2, h2)' /\ Owners(at2, ht2, h2)' /\ Inherits(at, h, at2, h2)

Follows ==
  root # ERROR_PAGE =>
    \A at, ht, h : Heights(ht, h) /\ Owners(at, ht, h) => FollowsFrom(at, h)

LEMMA Inherited ==
  ASSUME NEW at, NEW h \in Nat, NEW at2, NEW h2 \in Nat, h <= h2, NEW b \in Int,
         \A d \in 0 .. h : \A x \in Int :
           at2[d][x] = at[d][x] \/ (at2[d][x] = pageCnt /\ ~(x < b))
  PROVE  Inherits(at, h, at2, h2)
<1>1. \A d \in 0 .. h : \A x \in Int : at2[d][x] = at[d][x] \/ at2[d][x] = pageCnt
  OBVIOUS
<1>2. ASSUME NEW d \in 0 .. h
      PROVE  \E c \in Int : \A x \in Int : x < c => at2[d][x] = at[d][x]
  OBVIOUS
<1>. QED
  BY <1>1, <1>2 DEF Inherits

LEMMA FollowsSame ==
  ASSUME NEW at, NEW ht, NEW h, Heights(ht, h), Owners(at, ht, h),
         Heights(ht, h)', Owners(at, ht, h)'
  PROVE  FollowsFrom(at, h)
<1>1. h \in Nat
  BY DEF Heights
<1>2. Inherits(at, h, at, h)
  <2>1. \A d \in 0 .. h : \A x \in Int : at[d][x] = at[d][x] \/ at[d][x] = pageCnt
    OBVIOUS
  <2>2. ASSUME NEW d \in 0 .. h
        PROVE  \E b \in Int : \A x \in Int : x < b => at[d][x] = at[d][x]
    <3>1. 0 \in Int
      OBVIOUS
    <3>. QED
      BY <3>1
  <2>. QED
    BY <1>1, <2>1, <2>2 DEF Inherits
<1>. QED
  BY <1>2 DEF FollowsFrom

LEMMA PagesKnown ==
  ASSUME Typed
  PROVE  /\ Pages \subseteq PageIds /\ pageCnt \in Nat /\ ERROR_PAGE \notin Pages
         /\ ERROR_PAGE \notin PageIds
         /\ \A p \in Pages : NodeOK(node[p], p = root) /\ node[p] \in Nodes
         /\ \A p \in PageIds : p \in Pages <=> p < pageCnt
         /\ pageCnt \in PageIds => pageCnt \notin Pages
         /\ Allocated = Pages
<1>1. MaxPage \in Nat
  BY TreeAssumption
<1>2. /\ Pages \subseteq PageIds /\ pageCnt \in Nat /\ ERROR_PAGE \notin Pages
      /\ ERROR_PAGE \notin PageIds
      /\ \A p \in PageIds : p \in Pages <=> p < pageCnt
      /\ pageCnt \in PageIds => pageCnt \notin Pages
  BY <1>1 DEF Typed, Pages, PageIds, ERROR_PAGE
<1>3. \A p \in Pages : NodeOK(node[p], p = root)
  BY <1>2 DEF Typed
<1>4. \A p \in Pages : node[p] \in Nodes
  BY <1>3 DEF NodeOK
<1>5. \A p \in PageIds : p \notin Pages => node[p] = NoNode
  BY <1>2 DEF Typed
<1>6. NoNode \notin Nodes
  BY TreeAssumption
<1>7. Allocated = Pages
  BY <1>2, <1>4, <1>5, <1>6 DEF Allocated
<1>. QED
  BY <1>2, <1>3, <1>4, <1>7

\* The descent ends in the owner of the key.
LEMMA Descent ==
  ASSUME Shape, NEW at, NEW ht, NEW h, Heights(ht, h), Owners(at, ht, h),
         root # ERROR_PAGE, up = NoCall, NEW k \in Int
  PROVE  down_to_leaf(k) = at[0][k]
<1> DEFINE path == [s \in 0 .. MaxPage |-> IF s <= h THEN at[h - s][k] ELSE at[0][k]]
           step(cur, s) ==
             IF s = 0 THEN root
             ELSE LET p == cur[s - 1]
                  IN  IF node[p].leaf THEN p ELSE node[p].ch[find_first_gt(node[p], k)]
           way == CHOOSE cur : cur = [s \in 0 .. MaxPage |-> step(cur, s)]
<1>0. /\ MaxPage \in Nat /\ h \in Nat /\ h <= MaxPage
      /\ \A p \in Pages : node[p] \in Nodes /\ Sorted(node[p].keys)
      /\ Pages \subseteq PageIds
  <2>1. MaxPage \in Nat
    BY TreeAssumption
  <2>2. h \in Nat /\ h + 2 <= pageCnt /\ pageCnt \in 1 .. MaxPage + 1
    BY DEF Heights, Shape, Typed
  <2>. QED
    BY <2>1, <2>2, PagesKnown DEF Shape, NodeOK
<1>1. ASSUME NEW d \in 0 .. h
      PROVE  at[d][k] \in Pages /\ (node[at[d][k]].leaf <=> d = 0)
  <2>1. at[d][k] \in Pages /\ ht[at[d][k]] = d
    BY DEF Owners
  <2>. QED
    BY <2>1 DEF Heights
<1>2. at[h][k] = root
  BY DEF Owners, Leads
<1>3. ASSUME NEW d \in 1 .. h
      PROVE  at[d - 1][k] = node[at[d][k]].ch[find_first_gt(node[at[d][k]], k)]
  <2>1. PICK n : n = node[at[d][k]]
    OBVIOUS
  <2>2. d \in 0 .. h
    BY <1>0
  <2>3. n \in Nodes /\ Sorted(n.keys)
    BY <1>0, <1>1, <2>1, <2>2
  <2>4. n.keys \in Seq(Int)
    BY <2>3, NodeFields, KeysAreInts
  <2>5. Gap(n.keys, k, find_first_gt(n, k))
    BY <2>3, <2>4, GapFound
  <2>6. Leads(n.ch[find_first_gt(n, k)], k, at[d - 1][k])
    BY <2>1, <2>5 DEF Owners
  <2>. QED
    BY <2>1, <2>6 DEF Leads
<1>4. path[0] = root
  BY <1>0, <1>2
<1>5. ASSUME NEW s \in 1 .. MaxPage
      PROVE  path[s] = IF node[path[s - 1]].leaf THEN path[s - 1]
                       ELSE node[path[s - 1]].ch[find_first_gt(node[path[s - 1]], k)]
  <2>1. CASE s <= h
    <3>1. h - (s - 1) \in 1 .. h /\ h - (s - 1) \in 0 .. h /\ (h - (s - 1)) - 1 = h - s
          /\ h - (s - 1) # 0 /\ s - 1 <= h /\ s - 1 \in 0 .. MaxPage /\ s \in 0 .. MaxPage
      BY <1>0, <2>1
    <3>2. path[s] = at[h - s][k] /\ path[s - 1] = at[h - (s - 1)][k]
      BY <2>1, <3>1
    <3>3. ~node[path[s - 1]].leaf
      BY <1>1, <3>1, <3>2
    <3>4. at[(h - (s - 1)) - 1][k] =
            node[path[s - 1]].ch[find_first_gt(node[path[s - 1]], k)]
      <4> HIDE DEF path
      <4>. QED
        BY <1>3, <3>1, <3>2
    <3> HIDE DEF path
    <3>. QED
      BY <3>1, <3>2, <3>3, <3>4
  <2>2. CASE s > h
    <3>1. s - 1 \in 0 .. MaxPage /\ s \in 0 .. MaxPage /\ ~(s <= h)
          /\ (s - 1 <= h => h - (s - 1) = 0)
      BY <1>0, <2>2
    <3>2. path[s] = at[0][k] /\ path[s - 1] = at[0][k]
      BY <3>1
    <3>3. node[at[0][k]].leaf
      BY <1>0, <1>1
    <3> HIDE DEF path
    <3>. QED
      BY <3>2, <3>3
  <2>3. s <= h \/ s > h
    BY <1>0
  <2> HIDE DEF path
  <2>. QED
    BY <2>1, <2>2, <2>3
<1>6. path = [s \in 0 .. MaxPage |-> step(path, s)]
  <2>1. ASSUME NEW s \in 0 .. MaxPage PROVE path[s] = step(path, s)
    <3> HIDE DEF path
    <3>1. CASE s = 0
      BY <1>4, <3>1
    <3>2. CASE s # 0
      <4>1. s \in 1 .. MaxPage
        BY <1>0, <3>2
      <4>. QED
        BY <1>5, <3>2, <4>1
    <3>. QED
      BY <3>1, <3>2
  <2>2. path = [s \in 0 .. MaxPage |-> path[s]]
    OBVIOUS
  <2> HIDE DEF path, step
  <2>. QED
    BY <2>1, <2>2
<1>7. way = [s \in 0 .. MaxPage |-> step(way, s)]
  <2> HIDE DEF path, step
  <2>. QED
    BY <1>6
<1>8. down_to_leaf(k) = way[MaxPage]
  BY DEF down_to_leaf
<1>9. \A s \in 0 .. MaxPage : way[s] = path[s]
  <2> DEFINE Bad == {s \in 0 .. MaxPage : way[s] # path[s]}
  <2> SUFFICES ASSUME Bad # {} PROVE FALSE
    OBVIOUS
  <2>1. Bad \in SUBSET Nat
    BY <1>0
  <2>2. PICK s \in Bad : \A t \in Bad : s <= t
    <3> HIDE DEF Bad
    <3>. QED
      BY <2>1, LeastExists
  <2>3. s \in 0 .. MaxPage /\ way[s] # path[s]
    BY <2>2
  <2>4. way[s] = step(way, s) /\ path[s] = step(path, s)
    <3> HIDE DEF path, step, way
    <3>. QED
      BY <1>6, <1>7, <2>3
  <2>5. CASE s = 0
    <3> HIDE DEF path, way
    <3>. QED
      BY <2>3, <2>4, <2>5
  <2>6. CASE s # 0
    <3>1. s - 1 \in 0 .. MaxPage /\ ~(s <= s - 1)
      <4>1. s \in 0 .. MaxPage /\ MaxPage \in Nat
        BY <1>0, <2>3
      <4>. QED
        BY <2>6, <4>1
    <3>2. way[s - 1] = path[s - 1]
      <4> HIDE DEF path, way
      <4>. QED
        BY <2>2, <3>1
    <3> HIDE DEF path, way
    <3>. QED
      BY <2>3, <2>4, <2>6, <3>2
  <2>. QED
    BY <2>5, <2>6
<1>10. way[MaxPage] = at[0][k]
  <2>1. MaxPage \in 0 .. MaxPage /\ (MaxPage <= h => h - MaxPage = 0)
    BY <1>0
  <2>2. path[MaxPage] = at[0][k]
    BY <2>1
  <2> HIDE DEF path, way
  <2>. QED
    BY <1>9, <2>1, <2>2
<1> HIDE DEF way
<1>. QED
  BY <1>8, <1>10

\* The leaf id takes over what L owned from sep on.
DividedAt(own, own2, L, id, sep) ==
  \A x \in Int : /\ own[x] # id
                 /\ own2[x] = IF own[x] = L /\ x >= sep THEN id ELSE own[x]

\* The chain of the leaves where none of them changes its successor, and where
\* the leaf L is divided at sep.
LEMMA ChainKept ==
  ASSUME NEW own, Chained(own), \A x \in Int : node'[own[x]].next = node[own[x]].next
  PROVE  Chained(own)'
  BY DEF Chained

LEMMA ChainDivided ==
  ASSUME NEW own, NEW own2, NEW L, NEW id, NEW low \in Int, NEW sep \in Int, Chained(own),
         own[low] = L, low < sep, own[sep] = L, DividedAt(own, own2, L, id, sep),
         node'[L].next = id, node'[id].next = node[L].next,
         \A x \in Int : own[x] # L => node'[own[x]].next = node[own[x]].next
  PROVE  Chained(own2)'
<1>1. /\ \A x \in Int : own[x + 1] # own[x] => node[own[x]].next = own[x + 1]
      /\ \A x, y, z \in Int : x < y /\ y < z /\ own[x] = own[z] => own[y] = own[x]
      /\ \A x \in Int : (\A y \in Int : x <= y => own[y] = own[x]) =>
                          node[own[x]].next \in StaleNext
  BY DEF Chained
<1>5. \A x \in Int : /\ own[x] # id
                     /\ own2[x] = IF own[x] = L /\ x >= sep THEN id ELSE own[x]
  BY DEF DividedAt
<1>2. ASSUME NEW x \in Int, own2[x + 1] # own2[x] PROVE node'[own2[x]].next = own2[x + 1]
  <2>0. x + 1 \in Int /\ x < x + 1
    OBVIOUS
  <2>1. CASE own[x] = L /\ x >= sep
    <3>1. own2[x] = id /\ own[x + 1] # L
      BY <1>2, <1>5, <2>0, <2>1
    <3>2. own2[x + 1] = own[x + 1] /\ node[L].next = own[x + 1]
      BY <1>1, <1>5, <2>0, <2>1, <3>1
    <3>. QED
      BY <3>1, <3>2
  <2>2. CASE own[x] = L /\ x < sep
    <3>1. own[x + 1] = L
      <4>1. x + 1 = sep \/ x + 1 < sep
        BY <2>2
      <4>2. CASE x + 1 < sep
        BY <1>1, <2>0, <2>2, <4>2
      <4>. QED
        BY <4>1, <4>2
    <3>2. own2[x] = L /\ own2[x + 1] = id
      BY <1>2, <1>5, <2>0, <2>2, <3>1
    <3>. QED
      BY <3>2
  <2>3. CASE own[x] # L
    <3>1. ~(own[x + 1] = L /\ x + 1 >= sep)
      <4>1. SUFFICES ASSUME own[x + 1] = L, x + 1 >= sep PROVE FALSE
        OBVIOUS
      <4>2. x # low /\ (low < x \/ x < low)
        BY <2>3
      <4>3. low < x
        BY <4>1, <4>2
      <4>. QED
        BY <1>1, <2>0, <2>3, <4>1, <4>3
    <3>2. own2[x] = own[x] /\ own2[x + 1] = own[x + 1]
      BY <1>5, <2>0, <2>3, <3>1
    <3>. QED
      BY <1>1, <1>2, <2>3, <3>2
  <2>4. x >= sep \/ x < sep
    OBVIOUS
  <2>. QED
    BY <2>1, <2>2, <2>3, <2>4
<1>3. ASSUME NEW x \in Int, NEW y \in Int, NEW z \in Int, x < y, y < z, own2[x] = own2[z]
      PROVE  own2[y] = own2[x]
  <2>1. own[x] = own[z] /\ own[x] # id
    BY <1>3, <1>5
  <2>2. own[y] = own[x]
    BY <1>1, <1>3, <2>1
  <2>. QED
    BY <1>3, <1>5, <2>1, <2>2
<1>4. ASSUME NEW x \in Int, \A y \in Int : x <= y => own2[y] = own2[x]
      PROVE  node'[own2[x]].next \in StaleNext
  <2>1. \A y \in Int : x <= y => own[y] = own[x]
    BY <1>4, <1>5
  <2>2. node[own[x]].next \in StaleNext
    BY <1>1, <2>1
  <2>3. own[x] = L => x >= sep
    BY <1>4, <1>5
  <2>. QED
    BY <1>5, <2>2, <2>3
<1>. QED
  BY <1>2, <1>3, <1>4 DEF Chained

LEMMA NothingMoved ==
  ASSUME Inv, UNCHANGED <<node, root, pageCnt, up>>,
         last' \in (Keys \X (Records \cup {ERROR_PAGE})) \cup {NoCall}
  PROVE  Inv' /\ Follows
<1>1. Typed'
  BY DEF Inv, Shape, Typed
<1>2. Rooted' /\ Linked' /\ Named' /\ Waiting'
  BY DEF Inv, Shape, Rooted, Linked, Named, Waiting, Pages
<1>3. PICK at, ht, h : Heights(ht, h) /\ (root # ERROR_PAGE => Owners(at, ht, h))
  BY DEF Inv
<1>4. Heights(ht, h)'
  BY <1>3 DEF Heights, Pages
<1>5. root # ERROR_PAGE => Owners(at, ht, h)'
  BY <1>3 DEF Owners, Leads, Pages, Chained
<1>6. Follows
  <2>1. SUFFICES ASSUME root # ERROR_PAGE, NEW own, NEW hs, NEW top,
                        Heights(hs, top), Owners(own, hs, top)
                 PROVE  FollowsFrom(own, top)
    BY DEF Follows
  <2>2. Heights(hs, top)'
    BY <2>1 DEF Heights, Pages
  <2>3. Owners(own, hs, top)'
    BY <2>1 DEF Owners, Leads, Pages, Chained
  <2>. QED
    BY <2>1, <2>2, <2>3, FollowsSame
<1>. QED
  BY <1>1, <1>2, <1>4, <1>5, <1>6 DEF Inv, Shape

Rewritten(L, m) == [node EXCEPT ![L] = m]

\* Page n has the entry e under key x.
Pair(n, x, e) == \E i \in 1 .. Len(n.keys) : n.keys[i] = x /\ n.ch[i] = e

\* Nothing but removed entries under k.
Absent(k) == \A p \in Pages : node[p].leaf => \A e : Pair(node[p], k, e) => e = ERROR_PAGE

\* A record under k.
Present(k) ==
  \E p \in Pages : node[p].leaf /\ \E e \in Records : Pair(node[p], k, e)

\* A step that leaves e under k: other keys keep their entries, in their leaf
\* or the one that has become the next; k does not lose its place.
Entered(k, e) ==
  /\ \A p \in Pages : node[p].leaf =>
       /\ p \in Pages' /\ node'[p].leaf
       /\ \A x, f : Pair(node[p], x, f) /\ x # k =>
            \/ Pair(node'[p], x, f)
            \/ /\ node'[p].next \in Pages' /\ node'[node'[p].next].leaf
               /\ Pair(node'[node'[p].next], x, f)
       /\ \A f : Pair(node[p], k, f) => \E g : Pair(node'[p], k, g)
  /\ \A q \in Pages' : node'[q].leaf => \A x, f : Pair(node'[q], x, f) /\ x # k =>
       \E p \in Pages : node[p].leaf /\ \E g : Pair(node[p], x, g)
  /\ \E q \in Pages' : node'[q].leaf /\ Pair(node'[q], k, e)

\* A step that leaves the leaves alone.
LeavesKept ==
  /\ \A p \in Pages : node[p].leaf =>
       /\ p \in Pages' /\ node'[p].leaf
       /\ node'[p].keys = node[p].keys /\ node'[p].ch = node[p].ch
  /\ \A p \in Pages' : node'[p].leaf => p \in Pages /\ node[p].leaf

\* What the leaves hold is what the table holds.
Holds(table, leaves, nodes) ==
  /\ table = [x \in Keys |-> table[x]]
  /\ \A p \in leaves : \A x, e : Pair(nodes[p], x, e) => table[x] = e
  /\ \A x \in Keys : (\A p \in leaves : \A e : ~Pair(nodes[p], x, e)) => table[x] = ERROR_PAGE

EntriesKnown ==
  /\ Leaves = {p \in Pages : node[p].leaf}
  /\ \A p \in Leaves : \A x : x \in ToSet(node[p].keys) <=> \E e : Pair(node[p], x, e)
  /\ Holds(Content, Leaves, node)

\* Page m has the entries of n, and rec under k.
Gains(m, n, k, rec) ==
  \A x, e : Pair(m, x, e) <=> Pair(n, x, e) \/ (x = k /\ e = rec)

\* The entries of a leaf that takes another one, and of the two it becomes.
LEMMA PairsWidened ==
  ASSUME NEW n, NEW m, n.keys \in Seq(Int), n.ch \in Seq(Entries), Len(n.ch) = Len(n.keys),
         NEW pos \in 1 .. Len(n.keys) + 1, NEW k, NEW rec,
         Widened(m.keys, n.keys, pos, k), Widened(m.ch, n.ch, pos, rec)
  PROVE  Gains(m, n, k, rec)
<1> SUFFICES ASSUME NEW x, NEW e
             PROVE  Pair(m, x, e) <=> Pair(n, x, e) \/ (x = k /\ e = rec)
  BY DEF Gains
<1>1. PICK len \in Nat : len = Len(n.keys) /\ len = Len(n.ch)
  OBVIOUS
<1>2. PICK s, c, t, d : s = n.keys /\ c = n.ch /\ t = m.keys /\ d = m.ch
  OBVIOUS
<1>3. /\ Len(t) = len + 1 /\ t[pos] = k /\ d[pos] = rec /\ pos \in 1 .. len + 1
      /\ \A j \in 1 .. pos - 1 : t[j] = s[j] /\ d[j] = c[j]
      /\ \A j \in pos + 1 .. len + 1 : t[j] = s[j - 1] /\ d[j] = c[j - 1]
  BY <1>1, <1>2 DEF Widened
<1>4. ASSUME NEW j \in 1 .. len + 1, t[j] = x, d[j] = e, ~(x = k /\ e = rec)
      PROVE  \E i \in 1 .. len : s[i] = x /\ c[i] = e
  <2>1. CASE j < pos
    <3>1. j \in 1 .. pos - 1 /\ j \in 1 .. len
      BY <1>1, <1>3, <2>1
    <3>. QED
      BY <1>3, <1>4, <3>1
  <2>2. CASE j > pos
    <3>1. j \in pos + 1 .. len + 1 /\ j - 1 \in 1 .. len
      BY <1>1, <1>3, <2>2
    <3>2. t[j] = s[j - 1] /\ d[j] = c[j - 1]
      BY <1>3, <3>1
    <3>. QED
      BY <1>4, <3>1, <3>2
  <2>3. CASE j = pos
    BY <1>3, <1>4, <2>3
  <2>4. j < pos \/ j > pos \/ j = pos
    BY <1>1, <1>3
  <2>. QED
    BY <2>1, <2>2, <2>3, <2>4
<1>5. ASSUME NEW i \in 1 .. len, s[i] = x, c[i] = e
      PROVE  \E j \in 1 .. len + 1 : t[j] = x /\ d[j] = e
  <2>1. CASE i < pos
    <3>1. i \in 1 .. pos - 1 /\ i \in 1 .. len + 1
      BY <1>1, <1>3, <2>1
    <3>. QED
      BY <1>3, <1>5, <3>1
  <2>2. CASE i >= pos
    <3>1. i + 1 \in pos + 1 .. len + 1 /\ i + 1 \in 1 .. len + 1 /\ (i + 1) - 1 = i
      BY <1>1, <1>3, <2>2
    <3>2. t[i + 1] = s[(i + 1) - 1] /\ d[i + 1] = c[(i + 1) - 1]
      BY <1>3, <3>1
    <3>. QED
      BY <1>5, <3>1, <3>2
  <2>. QED
    BY <1>3, <2>1, <2>2
<1>6. pos \in 1 .. len + 1 /\ t[pos] = k /\ d[pos] = rec
  BY <1>3
<1>7. (\E j \in 1 .. len + 1 : t[j] = x /\ d[j] = e) <=>
        (\E i \in 1 .. len : s[i] = x /\ c[i] = e) \/ (x = k /\ e = rec)
  BY <1>4, <1>5, <1>6
<1>. QED
  BY <1>1, <1>2, <1>3, <1>7 DEF Pair

LEMMA PairsDivided ==
  ASSUME NEW n, NEW l, NEW r, NEW a \in Nat, n.keys \in Seq(Int), n.ch \in Seq(Entries),
         l.keys \in Seq(Int), r.keys \in Seq(Int), Len(n.ch) = Len(n.keys),
         Part(l.keys, n.keys, 0), Part(l.ch, n.ch, 0), Len(l.keys) = a, Len(l.ch) = a,
         Part(r.keys, n.keys, a), Part(r.ch, n.ch, a), Len(r.ch) = Len(r.keys),
         Len(n.keys) = a + Len(r.keys), NEW x, NEW e
  PROVE  Pair(n, x, e) <=> Pair(l, x, e) \/ Pair(r, x, e)
<1>1. PICK b \in Nat : b = Len(r.keys) /\ a + b = Len(n.keys)
  OBVIOUS
<1>2. PICK s, c, lk, lc, rk, rc : /\ s = n.keys /\ c = n.ch /\ lk = l.keys /\ lc = l.ch
                                  /\ rk = r.keys /\ rc = r.ch
  OBVIOUS
<1>3. /\ \A j \in 1 .. a : lk[j] = s[j + 0] /\ lc[j] = c[j + 0]
      /\ \A j \in 1 .. b : rk[j] = s[j + a] /\ rc[j] = c[j + a]
  BY <1>1, <1>2 DEF Part
<1>4. ASSUME NEW i \in 1 .. a + b, s[i] = x, c[i] = e
      PROVE  \/ \E j \in 1 .. a : lk[j] = x /\ lc[j] = e
             \/ \E j \in 1 .. b : rk[j] = x /\ rc[j] = e
  <2>1. CASE i <= a
    <3>1. i \in 1 .. a /\ i + 0 = i
      BY <1>1, <2>1
    <3>2. lk[i] = s[i + 0] /\ lc[i] = c[i + 0]
      BY <1>3, <3>1
    <3>. QED
      BY <1>4, <3>1, <3>2
  <2>2. CASE i > a
    <3>1. i - a \in 1 .. b /\ (i - a) + a = i
      BY <1>1, <2>2
    <3>2. rk[i - a] = s[(i - a) + a] /\ rc[i - a] = c[(i - a) + a]
      BY <1>3, <3>1
    <3>. QED
      BY <1>4, <3>1, <3>2
  <2>. QED
    BY <1>1, <2>1, <2>2
<1>5. ASSUME NEW j \in 1 .. a, lk[j] = x, lc[j] = e
      PROVE  \E i \in 1 .. a + b : s[i] = x /\ c[i] = e
  <2>1. j \in 1 .. a + b /\ j + 0 = j
    BY <1>1
  <2>2. lk[j] = s[j + 0] /\ lc[j] = c[j + 0]
    BY <1>3
  <2>. QED
    BY <1>5, <2>1, <2>2
<1>6. ASSUME NEW j \in 1 .. b, rk[j] = x, rc[j] = e
      PROVE  \E i \in 1 .. a + b : s[i] = x /\ c[i] = e
  <2>1. j + a \in 1 .. a + b
    BY <1>1
  <2>2. rk[j] = s[j + a] /\ rc[j] = c[j + a]
    BY <1>3
  <2>. QED
    BY <1>6, <2>1, <2>2
<1>7. (\E i \in 1 .. a + b : s[i] = x /\ c[i] = e) <=>
        \/ \E j \in 1 .. a : lk[j] = x /\ lc[j] = e
        \/ \E j \in 1 .. b : rk[j] = x /\ rc[j] = e
  BY <1>4, <1>5, <1>6
<1>. QED
  BY <1>1, <1>2, <1>7 DEF Pair

\* A key that its leaf does not have is in no leaf.
LEMMA NotThere ==
  ASSUME Shape, NEW at, NEW ht, NEW h, Heights(ht, h), Owners(at, ht, h),
         NEW k \in Keys, NEW L, at[0][k] = L, \A j \in 1 .. Len(node[L].keys) : node[L].keys[j] # k,
         NEW p \in Pages, node[p].leaf, NEW e
  PROVE  ~Pair(node[p], k, e)
<1> SUFFICES ASSUME NEW i \in 1 .. Len(node[p].keys), node[p].keys[i] = k
             PROVE  FALSE
  BY DEF Pair
<1>1. ht[p] = 0
  BY DEF Heights
<1>2. at[ht[p]][node[p].keys[i]] = p
  BY DEF Owners
<1>3. p = L
  BY <1>1, <1>2
<1>. QED
  BY <1>3

\* A key is in one leaf, at one position.
LEMMA OnePair ==
  ASSUME NEW n, NEW b, NodeOK(n, b), NEW x, NEW e, NEW f, Pair(n, x, e), Pair(n, x, f)
  PROVE  e = f
<1>1. PICK s \in Seq(Int) : s = n.keys /\ Sorted(s)
  BY NodeFields, KeysAreInts DEF NodeOK
<1>2. PICK i \in 1 .. Len(s), j \in 1 .. Len(s) :
        s[i] = x /\ n.ch[i] = e /\ s[j] = x /\ n.ch[j] = f
  BY <1>1 DEF Pair
<1>3. s[i] \in Int /\ s[j] \in Int /\ ~(s[i] < s[j]) /\ ~(s[j] < s[i])
  BY <1>1, <1>2
<1>4. ~(i < j) /\ ~(j < i)
  BY <1>1, <1>3 DEF Sorted
<1>5. i = j
  BY <1>4
<1>. QED
  BY <1>2, <1>5

LEMMA OneLeaf ==
  ASSUME NEW at, NEW ht, NEW h, Heights(ht, h), Owners(at, ht, h),
         NEW p \in Pages, NEW q \in Pages, node[p].leaf, node[q].leaf,
         NEW x, NEW e, NEW f, Pair(node[p], x, e), Pair(node[q], x, f)
  PROVE  p = q
<1>1. PICK i \in 1 .. Len(node[p].keys), j \in 1 .. Len(node[q].keys) :
        node[p].keys[i] = x /\ node[q].keys[j] = x
  BY DEF Pair
<1>2. ht[p] = 0 /\ ht[q] = 0
  BY DEF Heights
<1>3. at[ht[p]][node[p].keys[i]] = p /\ at[ht[q]][node[q].keys[j]] = q
  BY DEF Owners
<1>. QED
  BY <1>1, <1>2, <1>3

LEMMA LeafEntered ==
  ASSUME Typed, NEW L \in Pages, node[L].leaf, NEW m, m.leaf,
         node' = Rewritten(L, m), UNCHANGED pageCnt, NEW k, NEW e,
         \A x, f : x # k /\ Pair(node[L], x, f) => Pair(m, x, f),
         \A x, f : x # k /\ Pair(m, x, f) => \E g : Pair(node[L], x, g),
         Pair(m, k, e)
  PROVE  Entered(k, e)
<1>1. Pages' = Pages /\ Pages \subseteq PageIds /\ node \in [PageIds -> Nodes \cup {NoNode}]
  BY PagesKnown DEF Pages, Typed
<1>2. node'[L] = m /\ \A p \in Pages : p # L => node'[p] = node[p]
  BY <1>1 DEF Rewritten
<1>3. ASSUME NEW p \in Pages, node[p].leaf
      PROVE  /\ p \in Pages' /\ node'[p].leaf
             /\ \A x, f : Pair(node[p], x, f) /\ x # k => Pair(node'[p], x, f)
             /\ \A f : Pair(node[p], k, f) => \E g : Pair(node'[p], k, g)
  <2>1. CASE p = L
    BY <1>1, <1>2, <2>1
  <2>2. CASE p # L
    BY <1>1, <1>2, <1>3, <2>2
  <2>. QED
    BY <2>1, <2>2
<1>4. ASSUME NEW q \in Pages', node'[q].leaf, NEW x, NEW f, Pair(node'[q], x, f), x # k
      PROVE  \E p \in Pages : node[p].leaf /\ \E g : Pair(node[p], x, g)
  <2>1. CASE q = L
    <3>1. \E g : Pair(node[L], x, g)
      BY <1>2, <1>4, <2>1
    <3>. QED
      BY <3>1
  <2>2. CASE q # L
    <3>1. q \in Pages /\ node'[q] = node[q]
      BY <1>1, <1>2, <2>2
    <3>. QED
      BY <1>4, <3>1
  <2>. QED
    BY <2>1, <2>2
<1>5. L \in Pages' /\ node'[L].leaf /\ Pair(node'[L], k, e)
  BY <1>1, <1>2
<1>. QED
  BY <1>3, <1>4, <1>5 DEF Entered

\* A page that only takes another entry, or another record for a key, leaves
\* the rest of the tree as it is.
LEMMA LeafWritten ==
  ASSUME Shape, NEW at, NEW ht, NEW h, Heights(ht, h), Owners(at, ht, h),
         root # ERROR_PAGE, up = NoCall,
         NEW L \in Pages, node[L].leaf, NEW m, NodeOK(m, L = root), m.leaf,
         m.parent = node[L].parent, m.next = node[L].next,
         \A i \in 1 .. Len(m.keys) : at[0][m.keys[i]] = L,
         node' = Rewritten(L, m), UNCHANGED <<root, pageCnt, up>>,
         last' \in (Keys \X (Records \cup {ERROR_PAGE})) \cup {NoCall}
  PROVE  Inv' /\ FollowsFrom(at, h)
<1>0. /\ Pages \subseteq PageIds /\ Pages' = Pages
      /\ \A p \in Pages : NodeOK(node[p], p = root) /\ node[p] \in Nodes
  BY PagesKnown DEF Shape, Pages
<1>1. /\ node \in [PageIds -> Nodes \cup {NoNode}] /\ L \in PageIds /\ m \in Nodes
      /\ L < pageCnt /\ pageCnt \in Nat
  BY <1>0, PagesKnown DEF Shape, Typed, NodeOK
<1>2. /\ node'[L] = m
      /\ \A p \in PageIds : p # L => node'[p] = node[p]
      /\ node' \in [PageIds -> Nodes \cup {NoNode}]
  BY <1>1 DEF Rewritten
<1>3. \A p \in Pages : (node'[p].leaf <=> node[p].leaf) /\ node'[p].parent = node[p].parent
  BY <1>0, <1>2
<1>4. \A p \in Pages : ~node[p].leaf => node'[p] = node[p]
  BY <1>0, <1>2
<1>5. Typed'
  BY <1>1, <1>2 DEF Shape, Typed
<1>6. Rooted'
  BY <1>0, <1>3 DEF Shape, Rooted
<1>7. Linked'
  BY <1>0, <1>3, <1>4 DEF Shape, Linked
<1>8. Named'
  <2>1. \A c \in Pages : c # root =>
          /\ node[c].parent \in Pages
          /\ ~node[node[c].parent].leaf
          /\ c \in ToSet(node[node[c].parent].ch)
    BY DEF Shape, Named
  <2>. QED
    BY <1>0, <1>3, <1>4, <2>1 DEF Named
<1>9. Waiting'
  BY DEF Waiting
<1>10. Heights(ht, h)'
  BY <1>0, <1>3, <1>4 DEF Heights
<1>11. Owners(at, ht, h)'
  <2>0. h \in Nat /\ ht[L] = 0
    BY DEF Heights
  <2>1. /\ \A d \in 0 .. h : \A k \in Int : at[d][k] \in Pages /\ ht[at[d][k]] = d
        /\ \A k \in Int : Leads(root, k, at[h][k])
        /\ \A d \in 1 .. h : \A k \in Int : \A i :
             Gap(node[at[d][k]].keys, k, i) => Leads(node[at[d][k]].ch[i], k, at[d - 1][k])
        /\ \A p \in Pages : \A i \in 1 .. Len(node[p].keys) : at[ht[p]][node[p].keys[i]] = p
        /\ at \in [Nat -> [Int -> PageIds]]
    BY DEF Owners
  <2>2. \A k \in Int : Leads(root, k, at[h][k])'
    BY <2>1 DEF Leads
  <2>3. ASSUME NEW d \in 1 .. h, NEW k \in Int PROVE node'[at[d][k]] = node[at[d][k]]
    <3>1. d \in 0 .. h /\ d # 0
      BY <2>0
    <3>2. at[d][k] \in Pages /\ at[d][k] # L
      BY <2>0, <2>1, <3>1
    <3>. QED
      BY <1>0, <1>2, <3>2
  <2>4. ASSUME NEW p \in Pages, NEW i \in 1 .. Len(node'[p].keys)
        PROVE  at[ht[p]][node'[p].keys[i]] = p
    <3>1. CASE p = L
      BY <1>2, <2>0, <3>1
    <3>2. CASE p # L
      BY <1>0, <1>2, <2>1, <3>2
    <3>. QED
      BY <3>1, <3>2
  <2>5. ASSUME NEW d \in 1 .. h, NEW k \in Int, NEW i, Gap(node'[at[d][k]].keys, k, i)
        PROVE  Leads(node[at[d][k]].ch[i], k, at[d - 1][k])'
    <3>0. Gap(node[at[d][k]].keys, k, i)
      BY <2>3, <2>5
    <3>1. Leads(node[at[d][k]].ch[i], k, at[d - 1][k])
      BY <2>1, <3>0
    <3>. QED
      BY <2>3, <3>1 DEF Leads
  <2>6. up' = NoCall
    OBVIOUS
  <2>7. Chained(at[0])'
    <3>1. PICK own : own = at[0]
      OBVIOUS
    <3>2. \A x \in Int : own[x] \in Pages
      BY <2>0, <2>1, <3>1
    <3>3. \A p \in Pages : node'[p].next = node[p].next
      BY <1>0, <1>2
    <3>4. Chained(own)
      BY <3>1 DEF Owners
    <3>5. Chained(own)'
      BY <3>2, <3>3, <3>4, ChainKept
    <3>. QED
      BY <3>1, <3>5
  <2>. QED
    BY <1>0, <2>1, <2>2, <2>4, <2>5, <2>6, <2>7 DEF Owners
<1>. QED
  BY <1>5, <1>6, <1>7, <1>8, <1>9, <1>10, <1>11, FollowsSame DEF Inv, Shape

\* The record at a position is overwritten.
Put(n, pos, e) == [n EXCEPT !.ch[pos] = e]

LEMMA RecordPut ==
  ASSUME NEW n \in Nodes, NEW pos \in 1 .. Len(n.ch), NEW e \in Entries
  PROVE  /\ Put(n, pos, e) \in Nodes
         /\ SameHeader(Put(n, pos, e), n)
         /\ Put(n, pos, e).keys = n.keys
         /\ Len(Put(n, pos, e).ch) = Len(n.ch)
         /\ Put(n, pos, e).ch[pos] = e
         /\ \A j \in 1 .. Len(n.ch) : j # pos => Put(n, pos, e).ch[j] = n.ch[j]
<1>1. PICK s \in Seq(Entries) : s = n.ch
  BY NodeFields
<1>2. PICK d : d = [s EXCEPT ![pos] = e]
  OBVIOUS
<1>3. d \in Seq(Entries) /\ Len(d) = Len(s)
  BY <1>1, <1>2
<1>4. d[pos] = e /\ \A j \in 1 .. Len(s) : j # pos => d[j] = s[j]
  BY <1>1, <1>2
<1>5. Put(n, pos, e) = Refit(n, n.keys, d)
  <2>1. PICK m : m = [n EXCEPT !.ch[pos] = e]
    OBVIOUS
  <2>2. n = [leaf |-> n.leaf, rootBit |-> n.rootBit, keys |-> n.keys,
             ch |-> n.ch, parent |-> n.parent, next |-> n.next]
    BY NodeFields
  <2>3. m = [leaf |-> n.leaf, rootBit |-> n.rootBit, keys |-> n.keys,
             ch |-> d, parent |-> n.parent, next |-> n.next]
    BY <1>1, <1>2, <2>1, <2>2
  <2>4. PICK r : r = [n EXCEPT !.keys = n.keys, !.ch = d]
    OBVIOUS
  <2>5. r = [leaf |-> n.leaf, rootBit |-> n.rootBit, keys |-> n.keys,
             ch |-> d, parent |-> n.parent, next |-> n.next]
    BY <2>2, <2>4
  <2>6. m = r
    BY <2>3, <2>5
  <2>. QED
    BY <2>1, <2>4, <2>6 DEF Put, Refit
<1>6. n.keys \in Seq(Keys)
  BY NodeFields
<1>. QED
  BY <1>1, <1>3, <1>4, <1>5, <1>6, Refitted

LEMMA PutOK ==
  ASSUME NEW n, NEW b, NodeOK(n, b), n.leaf,
         NEW pos \in 1 .. Len(n.keys), NEW e \in Records \cup {ERROR_PAGE}
  PROVE  /\ NodeOK(Put(n, pos, e), b)
         /\ Put(n, pos, e).leaf
         /\ Put(n, pos, e).parent = n.parent
         /\ Put(n, pos, e).next = n.next
         /\ Put(n, pos, e).keys = n.keys
<1>1. n \in Nodes /\ pos \in 1 .. Len(n.ch) /\ e \in Entries
  BY DEF NodeOK, Entries
<1>2. PICK m : m = Put(n, pos, e)
  OBVIOUS
<1>3. /\ m \in Nodes /\ SameHeader(m, n) /\ m.keys = n.keys
      /\ Len(m.ch) = Len(n.ch) /\ m.ch[pos] = e
      /\ \A j \in 1 .. Len(n.ch) : j # pos => m.ch[j] = n.ch[j]
  BY <1>1, <1>2, RecordPut
<1>4. NodeOK(m, b)
  BY <1>3 DEF NodeOK, HalfFull, SameHeader
<1>. QED
  BY <1>2, <1>3, <1>4 DEF SameHeader

LEMMA PairPut ==
  ASSUME NEW n, NEW b, NodeOK(n, b), n.leaf, NEW pos \in 1 .. Len(n.keys),
         NEW e \in Records \cup {ERROR_PAGE}, NEW x, NEW f
  PROVE  /\ Pair(Put(n, pos, e), n.keys[pos], e)
         /\ x # n.keys[pos] => (Pair(Put(n, pos, e), x, f) <=> Pair(n, x, f))
<1>1. PICK m : m = Put(n, pos, e)
  OBVIOUS
<1>2. /\ n \in Nodes /\ pos \in 1 .. Len(n.ch) /\ e \in Entries
      /\ Len(n.ch) = Len(n.keys)
  BY DEF NodeOK, Entries
<1>3. /\ m.keys = n.keys /\ m.ch[pos] = e
      /\ \A j \in 1 .. Len(n.keys) : j # pos => m.ch[j] = n.ch[j]
  BY <1>1, <1>2, RecordPut
<1>. QED
  BY <1>1, <1>3 DEF Pair

LEMMA LeafAt ==
  ASSUME Shape, NEW at, NEW ht, NEW h, Heights(ht, h), Owners(at, ht, h),
         root # ERROR_PAGE, up = NoCall, NEW k \in Keys
  PROVE  /\ down_to_leaf(k) \in Pages
         /\ node[down_to_leaf(k)].leaf
         /\ NodeOK(node[down_to_leaf(k)], down_to_leaf(k) = root)
         /\ at[0][k] = down_to_leaf(k)
         /\ \A i \in 1 .. Len(node[down_to_leaf(k)].keys) :
              at[0][node[down_to_leaf(k)].keys[i]] = down_to_leaf(k)
<1>1. k \in Int
  BY TreeAssumption
<1>2. PICK L : L = down_to_leaf(k)
  OBVIOUS
<1>3. L = at[0][k]
  BY <1>1, <1>2, Descent
<1>4. L \in Pages /\ ht[L] = 0
  <2>1. h \in Nat /\ 0 \in 0 .. h
    BY DEF Heights
  <2>. QED
    BY <1>1, <1>3, <2>1 DEF Owners
<1>5. node[L].leaf /\ NodeOK(node[L], L = root)
  BY <1>4, PagesKnown DEF Shape, Heights
<1>6. \A i \in 1 .. Len(node[L].keys) : at[0][node[L].keys[i]] = L
  BY <1>4 DEF Owners
<1>. QED
  BY <1>2, <1>3, <1>4, <1>5, <1>6

\* What find_key says of the leaf.
LEMMA LeafSearched ==
  ASSUME NEW n, NEW b, NodeOK(n, b), NEW k \in Keys
  PROVE  /\ find_key(n, k) \in Nat
         /\ find_key(n, k) <= Len(n.keys) =>
              find_key(n, k) \in 1 .. Len(n.keys) /\ n.keys[find_key(n, k)] = k
         /\ find_key(n, k) > Len(n.keys) => \A j \in 1 .. Len(n.keys) : n.keys[j] # k
<1>1. n.keys \in Seq(Int) /\ Sorted(n.keys) /\ k \in Int
  BY NodeFields, KeysAreInts, TreeAssumption DEF NodeOK
<1>p. PICK pos : pos = find_key(n, k)
  OBVIOUS
<1>2. PICK len \in Nat : len = Len(n.keys)
  BY <1>1, LenProperties
<1>3. /\ pos \in 1 .. len + 1
      /\ pos <= len => n.keys[pos] = k
      /\ pos > len => \A j \in 1 .. len : n.keys[j] # k
  BY <1>1, <1>p, <1>2, KeyFound
<1>4. pos \in Nat /\ (pos <= len => pos \in 1 .. len)
  BY <1>3
<1>. QED
  BY <1>p, <1>2, <1>3, <1>4

LEMMA LastTyped ==
  ASSUME NEW k \in Keys, NEW rec \in Records \cup {ERROR_PAGE}, last' = <<k, rec>>
  PROVE  last' \in (Keys \X (Records \cup {ERROR_PAGE})) \cup {NoCall}
  OBVIOUS

LEMMA AddToKeyStep ==
  ASSUME Inv, up = NoCall, NEW k \in Keys, NEW rec \in Records, last' = <<k, rec>>,
         AddToKey(k, rec)
  PROVE  Inv' /\ Follows /\ ((Absent(k) /\ Entered(k, rec)) \/ (Present(k) /\ node' = node))
<1>1. /\ Shape /\ root # ERROR_PAGE
      /\ UNCHANGED <<root, pageCnt, up>>
  BY DEF Inv, AddToKey
<1>w. \E at, ht, h : Heights(ht, h) /\ Owners(at, ht, h)
  BY <1>1 DEF Inv
<1>2. SUFFICES ASSUME NEW at, NEW ht, NEW h, Heights(ht, h), Owners(at, ht, h)
               PROVE  Inv' /\ FollowsFrom(at, h) /\ ((Absent(k) /\ Entered(k, rec)) \/ (Present(k) /\ node' = node))
  BY <1>w DEF Follows
<1>3. PICK L : L = down_to_leaf(k)
  OBVIOUS
<1>4. /\ L \in Pages /\ node[L].leaf /\ NodeOK(node[L], L = root)
      /\ \A i \in 1 .. Len(node[L].keys) : at[0][node[L].keys[i]] = L
  BY <1>1, <1>2, <1>3, LeafAt
<1>5. PICK pos : pos = find_key(node[L], k)
  OBVIOUS
<1>6. /\ pos \in 1 .. Len(node[L].keys) /\ node[L].keys[pos] = k
      /\ node' = IF node[L].ch[pos] = ERROR_PAGE
                 THEN [node EXCEPT ![L].ch[pos] = rec] ELSE node
  BY <1>3, <1>4, <1>5, LeafSearched DEF AddToKey
<1>7. PICK m : m = IF node[L].ch[pos] = ERROR_PAGE THEN Put(node[L], pos, rec) ELSE node[L]
  OBVIOUS
<1>8. /\ NodeOK(m, L = root) /\ m.leaf /\ m.parent = node[L].parent
      /\ m.next = node[L].next /\ m.keys = node[L].keys
  <2>1. rec \in Records \cup {ERROR_PAGE}
    OBVIOUS
  <2>. QED
    BY <1>4, <1>6, <1>7, <2>1, PutOK
<1>9. node' = Rewritten(L, m)
  <2>1. L \in PageIds /\ node \in [PageIds -> Nodes \cup {NoNode}]
    BY <1>1, <1>4, PagesKnown DEF Shape, Typed
  <2>. QED
    BY <1>6, <1>7, <2>1 DEF Put, Rewritten
<1>10. last' \in (Keys \X (Records \cup {ERROR_PAGE})) \cup {NoCall}
  BY LastTyped
<1>11. \A i \in 1 .. Len(m.keys) : at[0][m.keys[i]] = L
  BY <1>4, <1>8
<1>12. Inv' /\ FollowsFrom(at, h)
  BY <1>1, <1>2, <1>4, <1>8, <1>9, <1>10, <1>11, LeafWritten
<1>13. Pair(node[L], k, node[L].ch[pos])
  BY <1>6 DEF Pair
<1>14. CASE node[L].ch[pos] = ERROR_PAGE
  <2>1. Absent(k)
    <3>1. ASSUME NEW p \in Pages, node[p].leaf, NEW e, Pair(node[p], k, e)
          PROVE  e = ERROR_PAGE
      <4>1. p = L
        BY <1>2, <1>4, <1>13, <3>1, OneLeaf
      <4>. QED
        BY <1>4, <1>13, <1>14, <3>1, <4>1, OnePair
    <3>. QED
      BY <3>1 DEF Absent
  <2>2. PICK n, b : n = node[L] /\ b = (L = root)
    OBVIOUS
  <2>3. NodeOK(n, b) /\ n.leaf /\ pos \in 1 .. Len(n.keys) /\ n.keys[pos] = k
    BY <1>4, <1>6, <2>2
  <2>4. m = Put(n, pos, rec) /\ rec \in Records \cup {ERROR_PAGE}
    BY <1>7, <1>14, <2>2
  <2>5. Pair(m, k, rec) /\ \A x, f : x # k => (Pair(m, x, f) <=> Pair(n, x, f))
    BY <2>3, <2>4, PairPut
  <2>6. Entered(k, rec)
    <3>1. Typed /\ UNCHANGED pageCnt
      BY <1>1 DEF Shape
    <3>. QED
      BY <1>4, <1>8, <1>9, <2>2, <2>5, <3>1, LeafEntered
  <2>. QED
    BY <1>12, <2>1, <2>6
<1>15. CASE node[L].ch[pos] # ERROR_PAGE
  <2>1. node' = node
    BY <1>6, <1>15
  <2>2. node[L].ch[pos] \in Records
    BY <1>4, <1>6, <1>15 DEF NodeOK
  <2>3. Present(k)
    BY <1>4, <1>13, <2>2 DEF Present
  <2>. QED
    BY <1>12, <2>1, <2>3
<1>. QED
  BY <1>14, <1>15

LEMMA RemoveStep ==
  ASSUME Inv, NEW k \in Keys, LazyRemove(k)
  PROVE  Inv' /\ Follows /\ (Entered(k, ERROR_PAGE) \/ (Absent(k) /\ node' = node))
<1>1. /\ Shape /\ up = NoCall /\ last' = <<k, ERROR_PAGE>>
      /\ node' = IF Found(k) THEN Without(k) ELSE node
      /\ UNCHANGED <<root, pageCnt, up>>
  BY DEF Inv, LazyRemove
<1>2. last' \in (Keys \X (Records \cup {ERROR_PAGE})) \cup {NoCall}
  BY <1>1, LastTyped
<1>3. CASE Found(k)
  <2>1. root # ERROR_PAGE
    BY <1>3 DEF Found
  <2>w. \E at, ht, h : Heights(ht, h) /\ Owners(at, ht, h)
    BY <2>1 DEF Inv
  <2>2. SUFFICES ASSUME NEW at, NEW ht, NEW h, Heights(ht, h), Owners(at, ht, h)
                 PROVE  Inv' /\ FollowsFrom(at, h) /\ Entered(k, ERROR_PAGE)
    BY <2>w DEF Follows
  <2>3. PICK L : L = down_to_leaf(k)
    OBVIOUS
  <2>4. /\ L \in Pages /\ node[L].leaf /\ NodeOK(node[L], L = root)
        /\ \A i \in 1 .. Len(node[L].keys) : at[0][node[L].keys[i]] = L
    BY <1>1, <2>1, <2>2, <2>3, LeafAt
  <2>5. PICK pos : pos = find_key(node[L], k)
    OBVIOUS
  <2>6. pos \in 1 .. Len(node[L].keys) /\ node[L].keys[pos] = k
    <3>1. pos <= Len(node[L].keys)
      BY <1>3, <2>3, <2>5 DEF Found
    <3>. QED
      BY <2>4, <2>5, <3>1, LeafSearched
  <2>7. PICK m : m = Put(node[L], pos, ERROR_PAGE)
    OBVIOUS
  <2>8. /\ NodeOK(m, L = root) /\ m.leaf /\ m.parent = node[L].parent
        /\ m.next = node[L].next /\ m.keys = node[L].keys
    <3>1. ERROR_PAGE \in Records \cup {ERROR_PAGE}
      OBVIOUS
    <3>. QED
      BY <2>4, <2>6, <2>7, <3>1, PutOK
  <2>9. node' = Rewritten(L, m)
    <3>1. L \in PageIds /\ node \in [PageIds -> Nodes \cup {NoNode}]
      BY <1>1, <2>4, PagesKnown DEF Shape, Typed
    <3>. QED
      BY <1>1, <1>3, <2>3, <2>5, <2>7, <3>1 DEF Put, Without, Rewritten
  <2>10. \A i \in 1 .. Len(m.keys) : at[0][m.keys[i]] = L
    BY <2>4, <2>8
  <2>11. Inv' /\ FollowsFrom(at, h)
    BY <1>1, <1>2, <2>1, <2>2, <2>4, <2>8, <2>9, <2>10, LeafWritten
  <2>12. Entered(k, ERROR_PAGE)
    <3>1. PICK n, b : n = node[L] /\ b = (L = root)
      OBVIOUS
    <3>2. NodeOK(n, b) /\ n.leaf /\ pos \in 1 .. Len(n.keys) /\ n.keys[pos] = k
      BY <2>4, <2>6, <3>1
    <3>3. m = Put(n, pos, ERROR_PAGE) /\ ERROR_PAGE \in Records \cup {ERROR_PAGE}
      BY <2>7, <3>1
    <3>4. /\ Pair(m, k, ERROR_PAGE)
          /\ \A x, f : x # k => (Pair(m, x, f) <=> Pair(n, x, f))
      BY <3>2, <3>3, PairPut
    <3>5. Typed /\ UNCHANGED pageCnt
      BY <1>1 DEF Shape
    <3>. QED
      BY <2>4, <2>8, <2>9, <3>1, <3>4, <3>5, LeafEntered
  <2>. QED
    BY <2>11, <2>12
<1>4. CASE ~Found(k)
  <2>1. node' = node
    BY <1>1, <1>4
  <2>2. Inv' /\ Follows
    BY <1>1, <1>2, <2>1, NothingMoved
  <2>3. Absent(k)
    <3>1. CASE root = ERROR_PAGE
      <4>1. Pages = {}
        BY <1>1, <3>1 DEF Shape, Rooted, Pages
      <4>. QED
        BY <4>1 DEF Absent
    <3>2. CASE root # ERROR_PAGE
      <4>1. PICK at, ht, h : Heights(ht, h) /\ Owners(at, ht, h)
        BY <3>2 DEF Inv
      <4>2. PICK L : L = down_to_leaf(k)
        OBVIOUS
      <4>3. L \in Pages /\ NodeOK(node[L], L = root) /\ at[0][k] = L
        BY <1>1, <3>2, <4>1, <4>2, LeafAt
      <4>4. ~(find_key(node[L], k) <= Len(node[L].keys))
        BY <1>4, <3>2, <4>2 DEF Found
      <4>5. find_key(node[L], k) > Len(node[L].keys)
        <5>1. Len(node[L].keys) \in Nat
          BY <4>3, NodeFields, LenProperties DEF NodeOK
        <5>2. find_key(node[L], k) \in Nat
          BY <4>3, LeafSearched
        <5>. QED
          BY <4>4, <5>1, <5>2
      <4>6. \A j \in 1 .. Len(node[L].keys) : node[L].keys[j] # k
        BY <4>3, <4>5, LeafSearched
      <4>7. ASSUME NEW p \in Pages, node[p].leaf, NEW e PROVE ~Pair(node[p], k, e)
        BY <1>1, <4>1, <4>3, <4>6, <4>7, NotThere
      <4>. QED
        BY <4>7 DEF Absent
    <3>. QED
      BY <3>1, <3>2
  <2>. QED
    BY <2>1, <2>2, <2>3
<1>. QED
  BY <1>3, <1>4

\* An entry comes into the leaf for its key.
LEMMA EntryOK ==
  ASSUME NEW n, NEW b, NodeOK(n, b), n.leaf, Len(n.keys) < Order - 1,
         NEW k \in Keys, \A j \in 1 .. Len(n.keys) : n.keys[j] # k, NEW rec \in Records
  PROVE  /\ NodeOK(insert_notfull(n, k, rec), b)
         /\ insert_notfull(n, k, rec).leaf
         /\ insert_notfull(n, k, rec).parent = n.parent
         /\ insert_notfull(n, k, rec).next = n.next
<1>m. PICK m : m = insert_notfull(n, k, rec)
  OBVIOUS
<1>1. n \in Nodes /\ Sorted(n.keys) /\ Len(n.ch) = Len(n.keys)
  BY DEF NodeOK
<1>2. PICK pos \in 1 .. Len(n.keys) + 1 :
        /\ m \in Nodes /\ SameHeader(m, n) /\ Sorted(m.keys)
        /\ Widened(m.keys, n.keys, pos, k) /\ Widened(m.ch, n.ch, pos, rec)
  BY <1>1, <1>m, EntryInserted
<1>3. PICK len \in Nat : len = Len(n.keys)
  BY <1>1, NodeFields, LenProperties
<1>4. Len(m.keys) = len + 1 /\ Len(m.ch) = len + 1
  BY <1>1, <1>2, <1>3 DEF Widened
<1>5. \A i \in 1 .. Len(m.ch) : m.ch[i] \in Records \cup {ERROR_PAGE}
  <2>1. PICK c \in Seq(Entries) : c = n.ch
    BY <1>1, NodeFields
  <2>2. PICK S : S = Records \cup {ERROR_PAGE}
    OBVIOUS
  <2>3. /\ pos \in 1 .. Len(c) + 1 /\ Widened(m.ch, c, pos, rec) /\ rec \in S
        /\ \A j \in 1 .. Len(c) : c[j] \in S
    BY <1>1, <1>2, <2>1, <2>2 DEF NodeOK
  <2>4. \A i \in 1 .. Len(m.ch) : m.ch[i] \in S
    BY <2>3, WidenedIn
  <2>. QED
    BY <2>2, <2>4
<1>6. 1 <= len /\ len + 1 <= Order - 1 /\ (b \/ HalfFull(m))
  <2>1. Order \in Nat /\ split_point \in Nat
    BY OrderFacts
  <2>. QED
    BY <1>2, <1>3, <1>4, <2>1 DEF NodeOK, HalfFull, SameHeader
<1>7. NodeOK(m, b)
  BY <1>2, <1>3, <1>4, <1>5, <1>6 DEF NodeOK, SameHeader
<1>. QED
  BY <1>m, <1>2, <1>7 DEF SameHeader

\* The keys of a leaf that a key came into are owned by it.
OwnsAll(own, L, n) == \A j \in 1 .. Len(n.keys) : own[n.keys[j]] = L

LEMMA KeysOwned ==
  ASSUME NEW n, NEW b, NodeOK(n, b), n.leaf,
         NEW k \in Keys, \A j \in 1 .. Len(n.keys) : n.keys[j] # k, NEW rec \in Records,
         NEW own, NEW L, own[k] = L, OwnsAll(own, L, n)
  PROVE  OwnsAll(own, L, insert_notfull(n, k, rec))
<1>m. PICK m : m = insert_notfull(n, k, rec)
  OBVIOUS
<1>1. n \in Nodes /\ Sorted(n.keys) /\ Len(n.ch) = Len(n.keys)
  BY DEF NodeOK
<1>2. PICK pos \in 1 .. Len(n.keys) + 1 : Widened(m.keys, n.keys, pos, k)
  BY <1>1, <1>m, EntryInserted
<1>3. PICK ks \in Seq(Keys) : ks = n.keys
  BY <1>1, NodeFields
<1> DEFINE S == {x \in Keys : own[x] = L}
<1>4. k \in S /\ \A j \in 1 .. Len(ks) : ks[j] \in S
  BY <1>3 DEF OwnsAll
<1>5. \A i \in 1 .. Len(m.keys) : m.keys[i] \in S
  <2>1. pos \in 1 .. Len(ks) + 1 /\ Widened(m.keys, ks, pos, k)
    BY <1>2, <1>3
  <2> HIDE DEF S
  <2>. QED
    BY <1>4, <2>1, WidenedIn
<1>. QED
  BY <1>m, <1>5 DEF OwnsAll

LEMMA AddToLeafStep ==
  ASSUME Inv, up = NoCall, NEW k \in Keys, NEW rec \in Records, last' = <<k, rec>>,
         AddToLeaf(k, rec)
  PROVE  Inv' /\ Follows /\ Absent(k) /\ Entered(k, rec)
<1>1. /\ Shape /\ root # ERROR_PAGE
      /\ UNCHANGED <<root, pageCnt, up>>
  BY DEF Inv, AddToLeaf
<1>w. \E at, ht, h : Heights(ht, h) /\ Owners(at, ht, h)
  BY <1>1 DEF Inv
<1>2. SUFFICES ASSUME NEW at, NEW ht, NEW h, Heights(ht, h), Owners(at, ht, h)
               PROVE  Inv' /\ FollowsFrom(at, h) /\ Absent(k) /\ Entered(k, rec)
  BY <1>w DEF Follows
<1>3. PICK L : L = down_to_leaf(k)
  OBVIOUS
<1>4. /\ L \in Pages /\ node[L].leaf /\ NodeOK(node[L], L = root) /\ at[0][k] = L
      /\ \A i \in 1 .. Len(node[L].keys) : at[0][node[L].keys[i]] = L
  BY <1>1, <1>2, <1>3, LeafAt
<1>5. /\ \A j \in 1 .. Len(node[L].keys) : node[L].keys[j] # k
      /\ ~is_full(node[L])
      /\ node' = [node EXCEPT ![L] = insert_notfull(@, k, rec)]
  BY <1>3, <1>4, LeafSearched DEF AddToLeaf
<1>6. Len(node[L].keys) < Order - 1
  <2>1. node[L].keys \in Seq(Keys)
    BY <1>4, NodeFields DEF NodeOK
  <2>2. Len(node[L].keys) \in Nat /\ Order \in Nat
    BY <2>1, LenProperties, OrderFacts
  <2>. QED
    BY <1>5, <2>2 DEF is_full
<1>7. PICK m : m = insert_notfull(node[L], k, rec)
  OBVIOUS
<1>8. /\ NodeOK(m, L = root) /\ m.leaf /\ m.parent = node[L].parent
      /\ m.next = node[L].next
  BY <1>4, <1>5, <1>6, <1>7, EntryOK
<1>9. \A i \in 1 .. Len(m.keys) : at[0][m.keys[i]] = L
  <2>1. PICK own, n, b : own = at[0] /\ n = node[L] /\ b = (L = root)
    OBVIOUS
  <2>2. NodeOK(n, b) /\ n.leaf /\ own[k] = L /\ OwnsAll(own, L, n)
    BY <1>4, <2>1 DEF OwnsAll
  <2>3. \A j \in 1 .. Len(n.keys) : n.keys[j] # k
    BY <1>5, <2>1
  <2>4. m = insert_notfull(n, k, rec)
    BY <1>7, <2>1
  <2>5. OwnsAll(own, L, m)
    BY <2>2, <2>3, <2>4, KeysOwned
  <2>. QED
    BY <2>1, <2>5 DEF OwnsAll
<1>10. node' = Rewritten(L, m)
  BY <1>5, <1>7 DEF Rewritten
<1>11. last' \in (Keys \X (Records \cup {ERROR_PAGE})) \cup {NoCall}
  BY LastTyped
<1>12. Inv' /\ FollowsFrom(at, h)
  BY <1>1, <1>2, <1>4, <1>8, <1>9, <1>10, <1>11, LeafWritten
<1>13. Absent(k)
  <2>0. at[0][k] = L /\ \A j \in 1 .. Len(node[L].keys) : node[L].keys[j] # k
    BY <1>4, <1>5
  <2>1. ASSUME NEW p \in Pages, node[p].leaf, NEW e PROVE ~Pair(node[p], k, e)
    BY <1>1, <1>2, <2>0, <2>1, NotThere
  <2>. QED
    BY <2>1 DEF Absent
<1>14. Entered(k, rec)
  <2>1. PICK n : n = node[L]
    OBVIOUS
  <2>2. /\ n.keys \in Seq(Int) /\ n.ch \in Seq(Entries) /\ n \in Nodes
        /\ Sorted(n.keys) /\ Len(n.ch) = Len(n.keys) /\ n.leaf
        /\ \A j \in 1 .. Len(n.keys) : n.keys[j] # k
    BY <1>4, <1>5, <2>1, NodeFields, KeysAreInts DEF NodeOK
  <2>3. PICK pos \in 1 .. Len(n.keys) + 1 :
          Widened(m.keys, n.keys, pos, k) /\ Widened(m.ch, n.ch, pos, rec)
    BY <1>7, <2>1, <2>2, EntryInserted
  <2>p. Gains(m, n, k, rec)
    BY <2>2, <2>3, PairsWidened
  <2>4. \A x, f : Pair(m, x, f) <=> Pair(n, x, f) \/ (x = k /\ f = rec)
    BY <2>p DEF Gains
  <2>5. /\ \A x, f : x # k /\ Pair(node[L], x, f) => Pair(m, x, f)
        /\ \A x, f : x # k /\ Pair(m, x, f) => \E g : Pair(node[L], x, g)
        /\ Pair(m, k, rec)
    BY <2>1, <2>4
  <2>6. Typed /\ UNCHANGED pageCnt
    BY <1>1 DEF Shape
  <2>. QED
    BY <1>4, <1>8, <1>10, <2>5, <2>6, LeafEntered
<1>. QED
  BY <1>12, <1>13, <1>14

LEMMA AddToEmptyStep ==
  ASSUME Inv, up = NoCall, NEW k \in Keys, NEW rec \in Records, last' = <<k, rec>>,
         AddToEmpty(k, rec)
  PROVE  Inv' /\ Absent(k) /\ Entered(k, rec)
<1>0. PICK stale \in StaleNext :
        node' = [node EXCEPT ![pageCnt] = insert_notfull(NewNode(TRUE, TRUE, stale), k, rec)]
  BY DEF AddToEmpty
<1>1. /\ Typed /\ pageCnt = 1 /\ 1 \in PageIds /\ root' = 1 /\ pageCnt' = 2 /\ up' = NoCall
      /\ MaxPage \in Nat /\ MaxPage >= 1 /\ NoNode \notin Nodes
  BY TreeAssumption DEF AddToEmpty, Inv, Shape, Rooted, PageIds
<1>n. PICK n : n = NewNode(TRUE, TRUE, stale)
  OBVIOUS
<1>2. /\ n \in Nodes /\ n.keys = <<>> /\ n.ch = <<>> /\ n.leaf /\ n.rootBit
      /\ n.parent = ERROR_PAGE /\ n.next \in StaleNext
  <2>1. n = [leaf |-> TRUE, rootBit |-> TRUE, keys |-> <<>>, ch |-> <<>>,
             parent |-> ERROR_PAGE, next |-> stale]
    BY <1>n DEF NewNode
  <2>. QED
    BY <2>1 DEF Nodes
<1>m. PICK m : m = insert_notfull(n, k, rec)
  OBVIOUS
<1>3. PICK pos \in 1 .. Len(n.keys) + 1 :
        /\ m \in Nodes /\ SameHeader(m, n) /\ Sorted(m.keys)
        /\ Widened(m.keys, n.keys, pos, k) /\ Widened(m.ch, n.ch, pos, rec)
  <2>1. /\ Sorted(n.keys) /\ Len(n.ch) = Len(n.keys)
        /\ \A j \in 1 .. Len(n.keys) : n.keys[j] # k
    BY <1>2 DEF Sorted
  <2>. QED
    BY <1>2, <1>m, <2>1, EntryInserted
<1>4. /\ m \in Nodes /\ m.leaf /\ m.rootBit /\ m.parent = ERROR_PAGE /\ Sorted(m.keys)
      /\ m.next \in StaleNext
      /\ Len(m.keys) = 1 /\ Len(m.ch) = 1 /\ m.keys[1] = k /\ m.ch[1] = rec
  <2>1. Len(n.keys) = 0 /\ Len(n.ch) = 0 /\ pos = 1
    BY <1>2
  <2>. QED
    BY <1>2, <1>3, <2>1 DEF Widened, SameHeader
<1>5. NodeOK(m, TRUE)
  <2>1. 1 <= Order - 1
    BY OrderFacts
  <2>. QED
    BY <1>4, <2>1 DEF NodeOK
<1>6. /\ node' \in [PageIds -> Nodes \cup {NoNode}]
      /\ node'[1] = m
      /\ \A p \in PageIds : p # 1 => node'[p] = NoNode
      /\ \A p \in PageIds : p < 2 <=> p = 1
  <2>1. /\ node \in [PageIds -> Nodes \cup {NoNode}]
        /\ \A p \in PageIds : node[p] = NoNode
        /\ \A p \in PageIds : p < 2 <=> p = 1
    BY <1>1 DEF Typed, PageIds
  <2>2. node' = [node EXCEPT ![1] = m]
    BY <1>0, <1>1, <1>n, <1>m
  <2>. QED
    BY <1>1, <1>4, <2>1, <2>2
<1>7. Pages' = {1} /\ root' \in Pages'
  BY <1>1 DEF Pages
<1>8. Typed'
  <2>1. pageCnt' \in 1 .. MaxPage + 1
    BY <1>1
  <2>2. \A p \in PageIds : IF p < pageCnt' THEN NodeOK(node'[p], p = root') ELSE node'[p] = NoNode
    <3>1. (1 = root') = TRUE
      BY <1>1
    <3>. QED
      BY <1>1, <1>5, <1>6, <3>1
  <2>3. last' \in (Keys \X (Records \cup {ERROR_PAGE})) \cup {NoCall}
    BY LastTyped
  <2>. QED
    BY <1>1, <1>6, <2>1, <2>2, <2>3 DEF Typed
<1>9. Rooted'
  BY <1>1, <1>4, <1>6, <1>7 DEF Rooted, ERROR_PAGE
<1>10. Linked' /\ Named' /\ Waiting'
  BY <1>1, <1>4, <1>6, <1>7 DEF Linked, Named, Waiting
<1> DEFINE at == [d \in Nat |-> [x \in Int |-> 1]]
           ht == [p \in PageIds |-> 0]
<1>11. Heights(ht, 0)'
  BY <1>1, <1>4, <1>6, <1>7 DEF Heights
<1>12. Owners(at, ht, 0)'
  <2>1. /\ at \in [Nat -> [Int -> PageIds]]
        /\ \A d \in Nat : \A x \in Int : at[d][x] = 1
        /\ ht[1] = 0
    BY <1>1
  <2>2. k \in Int
    BY TreeAssumption
  <2>3. /\ \A d \in 0 .. 0 : d = 0 /\ d \in Nat
        /\ \A d \in 1 .. 0 : FALSE
        /\ \A i \in 1 .. 1 : i = 1
    OBVIOUS
  <2> HIDE DEF at, ht
  <2>4. \A d \in 0 .. 0 : \A x \in Int : at[d][x] \in Pages' /\ ht[at[d][x]] = d
    BY <1>7, <2>1, <2>3
  <2>5. \A x \in Int : Leads(root, x, at[0][x])'
    BY <1>1, <2>1 DEF Leads
  <2>6. \A p \in Pages' : \A i \in 1 .. Len(node'[p].keys) : at[ht[p]][node'[p].keys[i]] = p
    BY <1>4, <1>6, <1>7, <2>1, <2>2, <2>3
  <2>7. Chained(at[0])'
    <3>1. PICK own : own = at[0]
      OBVIOUS
    <3>2. \A x \in Int : own[x] = 1
      BY <2>1, <3>1
    <3>3. Chained(own)'
      BY <1>4, <1>6, <3>2 DEF Chained
    <3>. QED
      BY <3>1, <3>3
  <2>. QED
    BY <1>1, <2>1, <2>3, <2>4, <2>5, <2>6, <2>7 DEF Owners
<1> HIDE DEF at, ht
<1>13. Inv'
  BY <1>8, <1>9, <1>10, <1>11, <1>12 DEF Inv, Shape
<1>14. Pages = {}
  BY <1>1 DEF Pages
<1>15. Absent(k)
  BY <1>14 DEF Absent
<1>16. \A x, f : Pair(m, x, f) <=> x = k /\ f = rec
  BY <1>4 DEF Pair
<1>17. Entered(k, rec)
  BY <1>4, <1>6, <1>7, <1>14, <1>16 DEF Entered
<1>. QED
  BY <1>13, <1>15, <1>17

LEMMA AddToFullStep ==
  ASSUME Inv, up = NoCall, NEW k \in Keys, NEW rec \in Records, last' = <<k, rec>>,
         AddToFull(k, rec)
  PROVE  Inv' /\ Follows /\ Absent(k) /\ Entered(k, rec)
<1>1. /\ Shape /\ Typed /\ root # ERROR_PAGE /\ pageCnt \in PageIds
      /\ root' = root /\ pageCnt' = pageCnt + 1
  BY DEF Inv, Shape, AddToFull
<1>w. \E at, ht, h : Heights(ht, h) /\ Owners(at, ht, h)
  BY <1>1 DEF Inv
<1>2. SUFFICES ASSUME NEW at, NEW ht, NEW h, Heights(ht, h), Owners(at, ht, h)
               PROVE  Inv' /\ FollowsFrom(at, h) /\ Absent(k) /\ Entered(k, rec)
  BY <1>w DEF Follows
<1>3. PICK L : L = down_to_leaf(k)
  OBVIOUS
<1>i. PICK id \in PageIds : id = pageCnt
  BY <1>1
<1>4. /\ L \in Pages /\ node[L].leaf /\ NodeOK(node[L], L = root) /\ at[0][k] = L
      /\ \A i \in 1 .. Len(node[L].keys) : at[0][node[L].keys[i]] = L
  BY <1>1, <1>2, <1>3, LeafAt
<1>h. PICK v : v = LeafHalves(node[L], id, k, rec)
  OBVIOUS
<1>lr. PICK l, r, sep : l = v.left /\ r = v.right /\ sep = v.key
  OBVIOUS
<1>5. /\ \A j \in 1 .. Len(node[L].keys) : node[L].keys[j] # k
      /\ is_full(node[L])
      /\ node' = [node EXCEPT ![L] = l, ![id] = r]
      /\ up' = [l |-> L, key |-> sep, r |-> id]
  BY <1>3, <1>4, <1>i, <1>h, <1>lr, LeafSearched DEF AddToFull
<1>n. PICK n : n = node[L]
  OBVIOUS
<1>6. /\ n \in Nodes /\ n.leaf /\ Sorted(n.keys) /\ Len(n.keys) = Order - 1
      /\ Len(n.ch) = Order - 1 /\ NodeOK(n, L = root)
  <2>1. n.keys \in Seq(Keys) /\ n \in Nodes
    BY <1>4, <1>n, NodeFields DEF NodeOK
  <2>2. Len(n.keys) \in Nat /\ Order \in Nat
    BY <2>1, LenProperties, OrderFacts
  <2>. QED
    BY <1>4, <1>5, <1>n, <2>1, <2>2 DEF NodeOK, is_full
<1>t. PICK temp : temp = insert_notfull(n, k, rec)
  OBVIOUS
<1>7. PICK pos \in 1 .. Len(n.keys) + 1 :
        /\ temp \in Nodes /\ Sorted(temp.keys)
        /\ Widened(temp.keys, n.keys, pos, k) /\ Widened(temp.ch, n.ch, pos, rec)
  <2>1. Len(n.ch) = Len(n.keys)
    BY <1>6
  <2>. QED
    BY <1>5, <1>6, <1>n, <1>t, <2>1, EntryInserted
<1>8. /\ temp.keys \in Seq(Keys) /\ temp.keys \in Seq(Int) /\ temp.ch \in Seq(Entries)
      /\ Len(temp.keys) = Order
      /\ \A i \in 1 .. Len(temp.keys) : at[0][temp.keys[i]] = L
      /\ \A i \in 1 .. Len(temp.ch) : temp.ch[i] \in Records \cup {ERROR_PAGE}
  <2>1. temp.keys \in Seq(Keys) /\ temp.keys \in Seq(Int) /\ temp.ch \in Seq(Entries)
    BY <1>7, NodeFields, KeysAreInts
  <2>2. Len(temp.keys) = Order
    BY <1>6, <1>7, OrderFacts DEF Widened
  <2>3. \A i \in 1 .. Len(temp.keys) : at[0][temp.keys[i]] = L
    <3>1. PICK own : own = at[0]
      OBVIOUS
    <3>2. \A j \in 1 .. Len(n.keys) : n.keys[j] # k
      BY <1>5, <1>n
    <3>3. own[k] = L /\ OwnsAll(own, L, n)
      BY <1>4, <1>n, <3>1 DEF OwnsAll
    <3>4. PICK b : b = (L = root)
      OBVIOUS
    <3>5. NodeOK(n, b)
      BY <1>6, <3>4
    <3>6. OwnsAll(own, L, temp)
      BY <1>6, <1>t, <3>2, <3>3, <3>5, KeysOwned
    <3>. QED
      BY <3>1, <3>6 DEF OwnsAll
  <2>4. \A i \in 1 .. Len(temp.ch) : temp.ch[i] \in Records \cup {ERROR_PAGE}
    <3>1. PICK c \in Seq(Entries) : c = n.ch
      BY <1>6, NodeFields
    <3>2. PICK S : S = Records \cup {ERROR_PAGE}
      OBVIOUS
    <3>3. /\ pos \in 1 .. Len(c) + 1 /\ Widened(temp.ch, c, pos, rec) /\ rec \in S
          /\ \A j \in 1 .. Len(c) : c[j] \in S
      BY <1>6, <1>7, <3>1, <3>2 DEF NodeOK
    <3>4. \A i \in 1 .. Len(temp.ch) : temp.ch[i] \in S
      BY <3>3, WidenedIn
    <3>. QED
      BY <3>2, <3>4
  <2>. QED
    BY <2>1, <2>2, <2>3, <2>4
<1>9. /\ l \in Nodes /\ l.leaf /\ l.rootBit = n.rootBit /\ l.parent = n.parent
      /\ Len(l.keys) = split_point /\ Part(l.keys, temp.keys, 0)
      /\ Len(l.ch) = split_point /\ Part(l.ch, temp.ch, 0)
      /\ r \in Nodes /\ r.leaf /\ ~r.rootBit /\ r.parent = n.parent
      /\ Len(r.keys) = Order - split_point /\ Part(r.keys, temp.keys, split_point)
      /\ Len(r.ch) = Order - split_point /\ Part(r.ch, temp.ch, split_point)
      /\ sep = temp.keys[split_point + 1] /\ sep \in Keys
      /\ l.next = id /\ r.next = n.next
  <2>1. v = LeafHalves(n, id, k, rec) /\ \A j \in 1 .. Len(n.keys) : n.keys[j] # k
    BY <1>5, <1>h, <1>n
  <2>2. /\ LeftLeaf(l, n, temp, id) /\ RightLeaf(r, n, temp)
        /\ sep = temp.keys[split_point + 1] /\ sep \in Keys
    BY <1>6, <1>lr, <1>t, <2>1, LeafDivided
  <2>. QED
    BY <2>2 DEF LeftLeaf, RightLeaf
<1>10. /\ l.keys \in Seq(Int) /\ r.keys \in Seq(Int) /\ l.ch \in Seq(Entries)
       /\ r.ch \in Seq(Entries) /\ l.keys \in Seq(Keys) /\ r.keys \in Seq(Keys)
  BY <1>9, NodeFields, KeysAreInts
<1>o. /\ split_point \in Nat /\ Order \in Nat /\ 2 <= split_point
      /\ split_point <= Order - 2 /\ split_point <= Order - split_point /\ 0 \in Nat
  BY OrderFacts
<1>11. NodeOK(l, L = root) /\ HalfFull(l) /\ NodeOK(r, FALSE)
  <2>1. Sorted(l.keys) /\ Sorted(r.keys)
    BY <1>7, <1>8, <1>9, <1>10, <1>o, PartSorted
  <2>2. /\ \A i \in 1 .. Len(l.ch) : l.ch[i] \in Records \cup {ERROR_PAGE}
        /\ \A i \in 1 .. Len(r.ch) : r.ch[i] \in Records \cup {ERROR_PAGE}
    <3>1. PICK S : S = Records \cup {ERROR_PAGE}
      OBVIOUS
    <3>2. \A i \in 1 .. Len(temp.ch) : temp.ch[i] \in S
      BY <1>8, <3>1
    <3>3. \A i \in 1 .. Len(l.ch) : l.ch[i] \in S
      BY <1>8, <1>9, <1>10, <1>o, <3>2, PartIn
    <3>4. \A i \in 1 .. Len(r.ch) : r.ch[i] \in S
      BY <1>8, <1>9, <1>10, <1>o, <3>2, PartIn
    <3>. QED
      BY <3>1, <3>3, <3>4
  <2>3. /\ 1 <= split_point /\ split_point <= Order - 1
        /\ 1 <= Order - split_point /\ Order - split_point <= Order - 1
    BY <1>o
  <2>4. HalfFull(l) /\ HalfFull(r)
    BY <1>9, <1>o DEF HalfFull
  <2>5. n.rootBit <=> L = root
    BY <1>6 DEF NodeOK
  <2>. QED
    BY <1>9, <2>1, <2>2, <2>3, <2>4, <2>5 DEF NodeOK
<1>12. /\ sep \in Int /\ at[0][sep] = L
       /\ \A i \in 1 .. Len(l.keys) : at[0][l.keys[i]] = L /\ l.keys[i] < sep /\ l.keys[i] \in Int
       /\ \A i \in 1 .. Len(r.keys) : at[0][r.keys[i]] = L /\ sep <= r.keys[i] /\ r.keys[i] \in Int
  <2>1. split_point + 1 \in 1 .. Order
    BY <1>o
  <2>2. sep \in Int /\ at[0][sep] = L
    <3>1. Len(temp.keys) = Order /\ temp.keys \in Seq(Int) /\ sep = temp.keys[split_point + 1]
      BY <1>8, <1>9
    <3>2. at[0][temp.keys[split_point + 1]] = L
      BY <1>8, <2>1, <3>1
    <3>. QED
      BY <2>1, <3>1, <3>2
  <2>3. ASSUME NEW i \in 1 .. Len(l.keys)
        PROVE  at[0][l.keys[i]] = L /\ l.keys[i] < sep /\ l.keys[i] \in Int
    <3>1. /\ i \in 1 .. Order /\ i < split_point + 1 /\ i + 0 = i
      BY <1>9, <1>o
    <3>2. l.keys[i] = temp.keys[i + 0]
      BY <1>9 DEF Part
    <3>3. temp.keys[i] < temp.keys[split_point + 1]
      BY <1>7, <1>8, <2>1, <3>1 DEF Sorted
    <3>4. l.keys[i] \in Int
      BY <1>10
    <3>. QED
      BY <1>8, <1>9, <3>1, <3>2, <3>3, <3>4
  <2>4. ASSUME NEW i \in 1 .. Len(r.keys)
        PROVE  at[0][r.keys[i]] = L /\ sep <= r.keys[i] /\ r.keys[i] \in Int
    <3>1. PICK j \in 1 .. Order : j = i + split_point /\ (j = split_point + 1 \/ split_point + 1 < j)
      BY <1>9, <1>o
    <3>2. r.keys[i] = temp.keys[j]
      BY <1>9, <3>1 DEF Part
    <3>3. split_point + 1 < j => temp.keys[split_point + 1] < temp.keys[j]
      BY <1>7, <1>8, <2>1, <3>1 DEF Sorted
    <3>4. r.keys[i] \in Int
      BY <1>10
    <3>5. at[0][temp.keys[j]] = L
      BY <1>8, <3>1
    <3>6. sep <= r.keys[i]
      BY <1>9, <2>2, <3>1, <3>2, <3>3, <3>4
    <3>. QED
      BY <3>2, <3>4, <3>5, <3>6
  <2>. QED
    BY <2>2, <2>3, <2>4
<1>13. /\ Pages' = Pages \cup {id} /\ id \notin Pages /\ L # id /\ Pages \subseteq PageIds
       /\ \A p \in Pages : NodeOK(node[p], p = root) /\ node[p] \in Nodes
       /\ root \in Pages /\ L \in PageIds /\ root # id
  <2>1. /\ pageCnt \in Nat /\ id \notin Pages /\ Pages \subseteq PageIds
        /\ \A p \in Pages : NodeOK(node[p], p = root) /\ node[p] \in Nodes
    BY <1>1, <1>i, PagesKnown
  <2>2. Pages' = Pages \cup {id}
    BY <1>1, <1>i, <2>1 DEF Pages, PageIds
  <2>3. root \in Pages
    BY <1>1 DEF Shape, Rooted
  <2>. QED
    BY <1>4, <2>1, <2>2, <2>3
<1>14. /\ node'[L] = l /\ node'[id] = r
       /\ \A p \in PageIds : p # L /\ p # id => node'[p] = node[p]
       /\ node' \in [PageIds -> Nodes \cup {NoNode}]
  BY <1>1, <1>5, <1>9, <1>13 DEF Typed
<1>15. /\ \A p \in Pages : (node'[p].leaf <=> node[p].leaf) /\ node'[p].parent = node[p].parent
       /\ \A p \in Pages : ~node[p].leaf => node'[p] = node[p]
       /\ node'[id].leaf /\ node'[id].parent = node'[L].parent
       /\ \A p \in Pages' : ~node'[p].leaf => p \in Pages /\ ~node[p].leaf
  BY <1>4, <1>9, <1>13, <1>14, <1>n
<1>u. /\ up' # NoCall /\ up'.l = L /\ up'.key = sep /\ up'.r = id /\ up' \in Calls
  <2>1. up' \in Calls
    BY <1>5, <1>9, <1>13 DEF Calls
  <2>. QED
    BY <1>5, <2>1, TreeAssumption
<1>16. Typed'
  <2>1. pageCnt' \in 1 .. MaxPage + 1
    BY <1>1, TreeAssumption DEF PageIds
  <2>2. ASSUME NEW p \in PageIds
        PROVE  IF p < pageCnt' THEN NodeOK(node'[p], p = root') ELSE node'[p] = NoNode
    <3>1. CASE p = L
      <4>1. L < pageCnt'
        BY <1>1, <1>4, PagesKnown DEF Pages
      <4>. QED
        BY <1>1, <1>11, <1>14, <3>1, <4>1
    <3>2. CASE p = id
      <4>1. id < pageCnt' /\ (id = root') = FALSE
        BY <1>1, <1>13, <1>i, PagesKnown
      <4>. QED
        BY <1>11, <1>14, <3>2, <4>1
    <3>3. CASE p # L /\ p # id
      <4>1. p < pageCnt' <=> p < pageCnt
        BY <1>1, <1>i, <3>3 DEF PageIds
      <4>. QED
        BY <1>1, <1>14, <3>3, <4>1 DEF Typed
    <3>. QED
      BY <3>1, <3>2, <3>3
  <2>3. last' \in (Keys \X (Records \cup {ERROR_PAGE})) \cup {NoCall}
    BY LastTyped
  <2>. QED
    BY <1>14, <1>u, <2>1, <2>2, <2>3 DEF Typed
<1>17. Rooted'
  BY <1>1, <1>13, <1>15 DEF Shape, Rooted
<1>18. Linked'
  <2>1. ASSUME NEW p \in Pages', ~node'[p].leaf, NEW c \in ToSet(node'[p].ch)
        PROVE  c \in Pages' /\ node'[c].parent = p
    <3>1. p \in Pages /\ ~node[p].leaf /\ node'[p] = node[p]
      BY <1>15, <2>1
    <3>2. c \in Pages /\ node[c].parent = p
      BY <1>1, <2>1, <3>1 DEF Shape, Linked
    <3>. QED
      BY <1>13, <1>15, <3>2
  <2>. QED
    BY <2>1 DEF Linked
<1>19. Named'
  <2>1. \A c \in Pages : c # root =>
          /\ node[c].parent \in Pages
          /\ ~node[node[c].parent].leaf
          /\ c \in ToSet(node[node[c].parent].ch)
    BY <1>1 DEF Shape, Named
  <2>. QED
    BY <1>1, <1>13, <1>15, <1>u, <2>1 DEF Named
<1>20. Waiting'
  <2>1. ASSUME NEW p \in Pages', ~node'[p].leaf PROVE id \notin ToSet(node'[p].ch)
    <3>1. p \in Pages /\ ~node[p].leaf /\ node'[p] = node[p]
      BY <1>15, <2>1
    <3>. QED
      BY <1>1, <1>13, <3>1 DEF Shape, Linked
  <2>. QED
    BY <1>1, <1>4, <1>11, <1>13, <1>14, <1>15, <1>u, <2>1 DEF Waiting
<1> DEFINE low == [x \in Int |-> IF at[0][x] = L /\ x >= sep THEN id ELSE at[0][x]]
           at2 == [at EXCEPT ![0] = low]
           ht2 == [ht EXCEPT ![id] = 0]
<1>H. /\ ht \in [PageIds -> Nat] /\ h \in Nat /\ ht[root] = h /\ h + 2 <= pageCnt
      /\ \A p \in Pages : (node[p].leaf <=> ht[p] = 0) /\ ht[p] <= h
      /\ \A p \in Pages : ~node[p].leaf => \A c \in ToSet(node[p].ch) : ht[c] + 1 = ht[p]
  BY <1>1, <1>2 DEF Heights
<1>21. ht2[id] = 0 /\ (\A p \in Pages : ht2[p] = ht[p]) /\ ht2 \in [PageIds -> Nat]
  BY <1>13, <1>H
<1>22. Heights(ht2, h)'
  <2> HIDE DEF ht2
  <2>1. \A p \in Pages' : (node'[p].leaf <=> ht2[p] = 0) /\ ht2[p] <= h
    BY <1>13, <1>15, <1>21, <1>H
  <2>2. \A p \in Pages' : ~node'[p].leaf => \A c \in ToSet(node'[p].ch) : ht2[c] + 1 = ht2[p]
    <3>1. \A p \in Pages : ~node[p].leaf => \A c \in ToSet(node[p].ch) : c \in Pages
      BY <1>1 DEF Shape, Linked
    <3>2. ASSUME NEW p \in Pages', ~node'[p].leaf, NEW c \in ToSet(node'[p].ch)
          PROVE  ht2[c] + 1 = ht2[p]
      <4>1. p \in Pages /\ ~node[p].leaf /\ node'[p] = node[p] /\ c \in ToSet(node[p].ch)
        BY <1>15, <3>2
      <4>2. c \in Pages /\ ht[c] + 1 = ht[p]
        BY <1>H, <3>1, <4>1
      <4>. QED
        BY <1>21, <4>1, <4>2
    <3>. QED
      BY <3>2
  <2>3. ht2[root'] = h /\ h + 2 <= pageCnt'
    BY <1>1, <1>13, <1>21, <1>H, PagesKnown
  <2>4. ht2[up'.l] = ht2[up'.r]
    BY <1>4, <1>21, <1>H, <1>u
  <2>. QED
    BY <1>21, <1>H, <2>1, <2>2, <2>3, <2>4 DEF Heights
<1>O. /\ at \in [Nat -> [Int -> PageIds]]
      /\ \A d \in 0 .. h : \A x \in Int : at[d][x] \in Pages /\ ht[at[d][x]] = d
      /\ \A x \in Int : at[h][x] = root
  BY <1>2 DEF Owners, Leads
<1>P. /\ \A d \in 1 .. h : \A x \in Int : \A i :
           Gap(node[at[d][x]].keys, x, i) => at[d - 1][x] = node[at[d][x]].ch[i]
      /\ \A p \in Pages : \A i \in 1 .. Len(node[p].keys) : at[ht[p]][node[p].keys[i]] = p
  BY <1>2 DEF Owners, Leads
<1>23. /\ at2 \in [Nat -> [Int -> PageIds]]
       /\ \A d \in Nat : d # 0 => at2[d] = at[d]
       /\ \A x \in Int : at2[0][x] = IF at[0][x] = L /\ x >= sep THEN id ELSE at[0][x]
  <2>1. low \in [Int -> PageIds]
    BY <1>O
  <2>2. \A x \in Int : low[x] = IF at[0][x] = L /\ x >= sep THEN id ELSE at[0][x]
    OBVIOUS
  <2> HIDE DEF low
  <2>. QED
    BY <1>O, <2>1, <2>2
<1>24. Owners(at2, ht2, h)'
  <2> HIDE DEF at2, ht2
  <2>0. ht[L] = 0
    BY <1>4, <1>H
  <2>1. ASSUME NEW d \in 0 .. h, NEW x \in Int
        PROVE  at2[d][x] \in Pages' /\ ht2[at2[d][x]] = d
    <3>0. at[d][x] \in Pages /\ ht[at[d][x]] = d
      BY <1>O
    <3>n. d \in Nat
      BY <1>H
    <3>1. CASE d = 0 /\ at[0][x] = L /\ x >= sep
      <4>1. at2[d][x] = id
        BY <1>23, <3>1
      <4>. QED
        BY <1>13, <1>21, <3>1, <4>1
    <3>2. CASE ~(d = 0 /\ at[0][x] = L /\ x >= sep)
      <4>1. at2[d][x] = at[d][x]
        BY <1>23, <3>0, <3>n, <3>2
      <4>. QED
        BY <1>13, <1>21, <3>0, <4>1
    <3>. QED
      BY <3>1, <3>2
  <2>2. ASSUME NEW x \in Int PROVE Leads(root, x, at2[h][x])'
    <3>1. CASE h = 0
      <4>1. L = root
        <5>1. k \in Int
          BY TreeAssumption
        <5>. QED
          BY <1>4, <1>O, <3>1, <5>1
      <4>. QED
        BY <1>1, <1>23, <1>O, <1>u, <3>1, <4>1 DEF Leads
    <3>2. CASE h # 0
      <4>1. L # root
        BY <1>H, <2>0, <3>2
      <4>2. at2[h][x] = root
        <5>1. h \in Nat
          BY <1>H
        <5>2. at2[h] = at[h]
          BY <1>23, <3>2, <5>1
        <5>. QED
          BY <1>O, <5>2
      <4>. QED
        BY <1>1, <1>u, <4>1, <4>2 DEF Leads
    <3>. QED
      BY <3>1, <3>2
  <2>3. ASSUME NEW d \in 1 .. h, NEW x \in Int, NEW i, Gap(node'[at2[d][x]].keys, x, i)
        PROVE  Leads(node[at2[d][x]].ch[i], x, at2[d - 1][x])'
    <3>1. d \in 0 .. h /\ d # 0 /\ d \in Nat /\ d - 1 \in 0 .. h /\ d - 1 \in Nat
      BY <1>H
    <3>2. PICK q : q = at[d][x] /\ q = at2[d][x] /\ q \in Pages /\ ht[q] = d
      BY <1>23, <1>O, <3>1
    <3>3. ~node[q].leaf /\ node'[q] = node[q]
      BY <1>15, <1>H, <3>1, <3>2
    <3>4. PICK c : c = node[q].ch[i] /\ c = at[d - 1][x] /\ c \in Pages /\ ht[c] = d - 1
      <4>1. Gap(node[at[d][x]].keys, x, i)
        BY <2>3, <3>2, <3>3
      <4>4. at[d - 1][x] = node[at[d][x]].ch[i]
        BY <1>P, <4>1
      <4>2. at[d - 1][x] = node[q].ch[i]
        BY <3>2, <4>4
      <4>3. at[d - 1][x] \in Pages /\ ht[at[d - 1][x]] = d - 1
        BY <1>O, <3>1
      <4>. QED
        BY <4>2, <4>3
    <3>5. CASE d - 1 = 0
      BY <1>23, <1>u, <3>2, <3>3, <3>4, <3>5 DEF Leads
    <3>6. CASE d - 1 # 0
      <4>1. c # L
        BY <2>0, <3>4, <3>6
      <4>. QED
        BY <1>23, <1>u, <3>1, <3>2, <3>3, <3>4, <3>6, <4>1 DEF Leads
    <3>. QED
      BY <3>5, <3>6
  <2>4. ASSUME NEW p \in Pages', NEW i \in 1 .. Len(node'[p].keys)
        PROVE  at2[ht2[p]][node'[p].keys[i]] = p
    <3>1. CASE p = L
      <4>1. i \in 1 .. Len(l.keys) /\ node'[p].keys[i] = l.keys[i] /\ ht2[p] = 0
        BY <1>4, <1>14, <1>21, <2>0, <3>1
      <4>2. at[0][l.keys[i]] = L /\ ~(l.keys[i] >= sep) /\ l.keys[i] \in Int
        BY <1>12, <4>1
      <4>. QED
        BY <1>23, <3>1, <4>1, <4>2
    <3>2. CASE p = id
      <4>1. i \in 1 .. Len(r.keys) /\ node'[p].keys[i] = r.keys[i] /\ ht2[p] = 0
        BY <1>14, <1>21, <3>2
      <4>2. at[0][r.keys[i]] = L /\ r.keys[i] >= sep /\ r.keys[i] \in Int
        BY <1>12, <4>1
      <4>. QED
        BY <1>23, <3>2, <4>1, <4>2
    <3>3. CASE p # L /\ p # id
      <4>1. p \in Pages /\ node'[p] = node[p] /\ ht2[p] = ht[p] /\ ht[p] \in Nat
        BY <1>13, <1>14, <1>21, <1>H, <3>3
      <4>2. PICK x \in Int : x = node[p].keys[i]
        <5>1. node[p].keys \in Seq(Int)
          BY <1>13, <4>1, NodeFields, KeysAreInts
        <5>. QED
          BY <4>1, <5>1
      <4>3. at[ht[p]][x] = p
        BY <1>P, <4>1, <4>2
      <4>4. at2[ht[p]][x] = p
        <5>1. CASE ht[p] = 0
          BY <1>23, <3>3, <4>2, <4>3, <5>1
        <5>2. CASE ht[p] # 0
          BY <1>23, <4>1, <4>3, <5>2
        <5>. QED
          BY <5>1, <5>2
      <4>5. node'[p].keys[i] = x
        BY <4>1, <4>2
      <4>. QED
        BY <4>1, <4>4, <4>5
    <3>. QED
      BY <3>1, <3>2, <3>3
  <2>5. at2[ht2[up'.r]][up'.key] = up'.r
    <3>1. at2[0][sep] = id
      BY <1>12, <1>23
    <3>. QED
      BY <1>21, <1>u, <3>1
  <2>6. Chained(at2[0])'
    <3>1. PICK own, own2 : own = at[0] /\ own2 = at2[0]
      OBVIOUS
    <3>2. \A x \in Int : own[x] \in Pages
      <4>1. 0 \in 0 .. h
        BY <1>H
      <4>. QED
        BY <1>O, <3>1, <4>1
    <3>3. \A x \in Int : own2[x] = IF own[x] = L /\ x >= sep THEN id ELSE own[x]
      BY <1>23, <3>1
    <3>4. PICK least \in Int : least = l.keys[1] /\ own[least] = L /\ least < sep
      <4>1. 1 \in 1 .. Len(l.keys)
        BY <1>9, <1>o
      <4>. QED
        BY <1>12, <3>1, <4>1
    <3>5. own[sep] = L /\ sep \in Int
      BY <1>12, <3>1
    <3>6. node'[L].next = id /\ node'[id].next = node[L].next
      BY <1>9, <1>14, <1>n
    <3>7. DividedAt(own, own2, L, id, sep)
      BY <1>13, <3>2, <3>3 DEF DividedAt
    <3>8. \A x \in Int : own[x] # L => node'[own[x]].next = node[own[x]].next
      BY <1>13, <1>14, <3>2
    <3>9. Chained(own)
      BY <1>2, <3>1 DEF Owners
    <3>10. Chained(own2)'
      BY <3>4, <3>5, <3>6, <3>7, <3>8, <3>9, ChainDivided
    <3>. QED
      BY <3>1, <3>10
  <2>. QED
    BY <1>23, <2>1, <2>2, <2>3, <2>4, <2>5, <2>6 DEF Owners
<1>f. Inherits(at, h, at2, h)
  <2> HIDE DEF low, at2, ht2
  <2>1. ASSUME NEW d \in 0 .. h, NEW x \in Int
        PROVE  at2[d][x] = at[d][x] \/ (at2[d][x] = pageCnt /\ ~(x < sep))
    <3>1. CASE d = 0
      <4>1. sep \in Int
        BY <1>12
      <4>2. at2[0][x] = IF at[0][x] = L /\ x >= sep THEN pageCnt ELSE at[0][x]
        BY <1>23, <1>i
      <4>. QED
        BY <3>1, <4>1, <4>2
    <3>2. CASE d # 0
      <4>1. d \in Nat
        BY <1>H
      <4>. QED
        BY <1>23, <3>2, <4>1
    <3>. QED
      BY <3>1, <3>2
  <2>2. sep \in Int /\ h \in Nat /\ h <= h
    BY <1>12, <1>H
  <2>. QED
    BY <2>1, <2>2, Inherited
<1>g. FollowsFrom(at, h)
  BY <1>2, <1>22, <1>24, <1>f DEF FollowsFrom
<1> HIDE DEF low, at2, ht2
<1>25. root' # ERROR_PAGE
  BY <1>1
<1>26. Inv'
  BY <1>16, <1>17, <1>18, <1>19, <1>20, <1>22, <1>24 DEF Inv, Shape
<1>a. \A p \in Pages : node[p].leaf => \A e : ~Pair(node[p], k, e)
  <2>0. at[0][k] = L /\ \A j \in 1 .. Len(node[L].keys) : node[L].keys[j] # k
    BY <1>4, <1>5
  <2>1. ASSUME NEW p \in Pages, node[p].leaf, NEW e PROVE ~Pair(node[p], k, e)
    BY <1>1, <1>2, <2>0, <2>1, NotThere
  <2>. QED
    BY <2>1
<1>27. Absent(k)
  BY <1>a DEF Absent
<1>28. \A x, f : Pair(l, x, f) \/ Pair(r, x, f) <=> Pair(n, x, f) \/ (x = k /\ f = rec)
  <2>1. /\ n.keys \in Seq(Int) /\ n.ch \in Seq(Entries) /\ Len(n.ch) = Len(n.keys)
        /\ Widened(temp.keys, n.keys, pos, k) /\ Widened(temp.ch, n.ch, pos, rec)
        /\ pos \in 1 .. Len(n.keys) + 1
    BY <1>6, <1>7, NodeFields, KeysAreInts
  <2>p. Gains(temp, n, k, rec)
    BY <2>1, PairsWidened
  <2>2. \A x, f : Pair(temp, x, f) <=> Pair(n, x, f) \/ (x = k /\ f = rec)
    BY <2>p DEF Gains
  <2>3. Len(temp.ch) = Len(temp.keys) /\ Len(temp.keys) = split_point + Len(r.keys)
    BY <1>6, <1>8, <1>9, <1>o, <2>1 DEF Widened
  <2>4. Len(r.ch) = Len(r.keys)
    BY <1>9
  <2>5. ASSUME NEW x, NEW f PROVE Pair(temp, x, f) <=> Pair(l, x, f) \/ Pair(r, x, f)
    BY <1>8, <1>9, <1>10, <1>o, <2>3, <2>4, PairsDivided
  <2>. QED
    BY <2>2, <2>5
<1>29. l.next = id
  BY <1>9
<1>30. Entered(k, rec)
  <2>1. ASSUME NEW p \in Pages, node[p].leaf
        PROVE  /\ p \in Pages' /\ node'[p].leaf
               /\ \A x, f : Pair(node[p], x, f) /\ x # k =>
                    \/ Pair(node'[p], x, f)
                    \/ /\ node'[p].next \in Pages' /\ node'[node'[p].next].leaf
                       /\ Pair(node'[node'[p].next], x, f)
               /\ \A f : Pair(node[p], k, f) => \E g : Pair(node'[p], k, g)
    <3>1. CASE p = L
      <4>1. /\ p \in Pages' /\ node'[p].leaf /\ node'[p] = l /\ node[p] = n
            /\ node'[p].next = id /\ id \in Pages' /\ node'[id] = r /\ r.leaf
        BY <1>9, <1>13, <1>14, <1>29, <1>n, <3>1
      <4>2. ASSUME NEW f, Pair(node[p], k, f) PROVE FALSE
        BY <1>a, <2>1, <4>2
      <4>. QED
        BY <1>28, <4>1, <4>2
    <3>2. CASE p # L
      <4>1. p \in Pages' /\ node'[p] = node[p]
        BY <1>13, <1>14, <3>2
      <4>. QED
        BY <2>1, <4>1
    <3>. QED
      BY <3>1, <3>2
  <2>2. ASSUME NEW q \in Pages', node'[q].leaf, NEW x, NEW f, Pair(node'[q], x, f), x # k
        PROVE  \E p \in Pages : node[p].leaf /\ \E g : Pair(node[p], x, g)
    <3>1. CASE q = L \/ q = id
      <4>1. Pair(l, x, f) \/ Pair(r, x, f)
        BY <1>14, <2>2, <3>1
      <4>2. Pair(n, x, f)
        BY <1>28, <2>2, <4>1
      <4>. QED
        BY <1>4, <1>n, <4>2
    <3>2. CASE q # L /\ q # id
      <4>1. q \in Pages /\ node'[q] = node[q]
        BY <1>13, <1>14, <3>2
      <4>. QED
        BY <2>2, <4>1
    <3>. QED
      BY <3>1, <3>2
  <2>3. \E q \in Pages' : node'[q].leaf /\ Pair(node'[q], k, rec)
    <3>1. Pair(l, k, rec) \/ Pair(r, k, rec)
      BY <1>28
    <3>2. L \in Pages' /\ id \in Pages' /\ node'[L].leaf /\ node'[id].leaf
      BY <1>4, <1>9, <1>13, <1>14
    <3>. QED
      BY <1>14, <3>1, <3>2
  <2>. QED
    BY <2>1, <2>2, <2>3 DEF Entered
<1>. QED
  BY <1>g, <1>26, <1>27, <1>30
-----------------------------------------------------------------------------
\* insert_parent.

LEMMA NodeSeqs ==
  ASSUME NEW n, NEW b, NodeOK(n, b)
  PROVE  /\ n \in Nodes /\ n.keys \in Seq(Keys) /\ n.keys \in Seq(Int) /\ n.ch \in Seq(Entries)
         /\ Len(n.keys) \in Nat /\ Len(n.ch) \in Nat /\ Sorted(n.keys)
         /\ 1 <= Len(n.keys) /\ Len(n.keys) <= Order - 1
         /\ ~n.leaf => Len(n.ch) = Len(n.keys) + 1 /\ Distinct(n.ch)
         /\ \A j \in 1 .. Len(n.keys) : n.keys[j] \in Int
         /\ \A j \in 1 .. Len(n.ch) : n.ch[j] \in ToSet(n.ch)
<1>1. n \in Nodes /\ n.keys \in Seq(Keys) /\ n.ch \in Seq(Entries)
  BY NodeFields DEF NodeOK
<1>2. n.keys \in Seq(Int) /\ \A j \in 1 .. Len(n.keys) : n.keys[j] \in Int
  BY <1>1, KeysAreInts
<1>3. Len(n.keys) \in Nat /\ Len(n.ch) \in Nat
  BY <1>1, LenProperties
<1>4. \A j \in 1 .. Len(n.ch) : n.ch[j] \in ToSet(n.ch)
  BY <1>1, InSet
<1>5. /\ Sorted(n.keys) /\ 1 <= Len(n.keys) /\ Len(n.keys) <= Order - 1
      /\ ~n.leaf => Len(n.ch) = Len(n.keys) + 1 /\ Distinct(n.ch)
  BY DEF NodeOK
<1>. QED
  BY <1>1, <1>2, <1>3, <1>4, <1>5

\* The parent of the pending halves.
LEMMA ParentIsPage ==
  ASSUME Shape, NEW ht, NEW h, Heights(ht, h), up # NoCall, up.l # root
  PROVE  /\ Parent \in Pages /\ ~node[Parent].leaf
         /\ NodeOK(node[Parent], Parent = root)
         /\ up.l \in ToSet(node[Parent].ch) /\ up.r \notin ToSet(node[Parent].ch)
         /\ up.l \in Pages /\ up.r \in Pages /\ up.l # up.r /\ up.r # root
         /\ up.l \in PageIds /\ up.r \in PageIds /\ up.key \in Keys /\ up.key \in Int
         /\ ht[up.l] \in Nat /\ ht[up.r] = ht[up.l] /\ ht[Parent] = ht[up.l] + 1
         /\ ht[Parent] \in 1 .. h /\ ht[up.l] \in 0 .. h
         /\ node[up.r].parent = Parent
<1>1. /\ up.l \in Pages /\ up.r \in Pages /\ up.l # up.r /\ up.r # root
      /\ node[up.r].parent = Parent
  BY DEF Shape, Waiting, Parent
<1>2. Parent \in Pages /\ ~node[Parent].leaf /\ up.l \in ToSet(node[Parent].ch)
  BY <1>1 DEF Shape, Named, Parent
<1>3. up.r \notin ToSet(node[Parent].ch)
  BY <1>2 DEF Shape, Waiting
<1>4. Pages \subseteq PageIds /\ NodeOK(node[Parent], Parent = root)
  BY <1>2, PagesKnown DEF Shape
<1>5. up.key \in Keys /\ up.key \in Int
  <2>1. up \in Calls
    BY DEF Shape, Typed
  <2>. QED
    BY <2>1, TreeAssumption DEF Calls
<1>6. /\ ht \in [PageIds -> Nat] /\ h \in Nat
      /\ ht[Parent] <= h /\ ht[up.l] <= h /\ ht[up.l] = ht[up.r]
  BY <1>1, <1>2 DEF Heights
<1>7. ht[up.l] + 1 = ht[Parent]
  BY <1>2 DEF Heights
<1>8. ht[up.l] \in Nat
  BY <1>1, <1>4, <1>6
<1>9. ht[Parent] \in 1 .. h /\ ht[up.l] \in 0 .. h
  BY <1>6, <1>7, <1>8
<1>. QED
  BY <1>1, <1>2, <1>3, <1>4, <1>5, <1>6, <1>7, <1>8, <1>9

\* A key that one of the halves owns is found left of both.
LEMMA OwnerAbove ==
  ASSUME Shape, NEW at, NEW ht, NEW h, Heights(ht, h), Owners(at, ht, h),
         up # NoCall, up.l # root, NEW x \in Int, at[ht[up.l]][x] \in {up.l, up.r}
  PROVE  /\ at[ht[Parent]][x] = Parent
         /\ \E i \in 1 .. Len(node[Parent].ch) :
              node[Parent].ch[i] = up.l /\ Gap(node[Parent].keys, x, i)
<1>1. /\ ht[up.l] \in Nat /\ ht[Parent] = ht[up.l] + 1 /\ ht[Parent] \in 1 .. h
      /\ h \in Nat
  BY ParentIsPage DEF Heights
<1>2. PICK d \in 1 .. h : d = ht[Parent] /\ d - 1 = ht[up.l] /\ d \in 0 .. h /\ d # 0
  BY <1>1
<1>3. PICK q : q = at[d][x]
  OBVIOUS
<1>4. q \in Pages /\ ht[q] = d
  BY <1>2, <1>3 DEF Owners
<1>5. ~node[q].leaf /\ NodeOK(node[q], q = root)
  BY <1>2, <1>4, PagesKnown DEF Shape, Heights
<1>6. PICK n : n = node[q]
  OBVIOUS
<1>7. /\ n.keys \in Seq(Int) /\ Sorted(n.keys) /\ Len(n.ch) = Len(n.keys) + 1
      /\ \A j \in 1 .. Len(n.ch) : n.ch[j] \in ToSet(n.ch)
  BY <1>5, <1>6, NodeSeqs
<1>8. PICK i \in 1 .. Len(n.keys) + 1 : Gap(n.keys, x, i)
  BY <1>7, GapExists
<1>9. i \in 1 .. Len(n.ch) /\ n.ch[i] \in ToSet(n.ch)
  BY <1>7, <1>8
<1>10. n.ch[i] \in Pages /\ node[n.ch[i]].parent = q /\ n.ch[i] # up.r
  BY <1>4, <1>5, <1>6, <1>9 DEF Shape, Linked, Waiting
<1>11. Leads(n.ch[i], x, at[d - 1][x])
  BY <1>3, <1>6, <1>8 DEF Owners
<1>12. n.ch[i] = up.l
  BY <1>2, <1>10, <1>11 DEF Leads
<1>13. q = Parent
  BY <1>10, <1>12 DEF Parent
<1>. QED
  BY <1>2, <1>3, <1>6, <1>8, <1>9, <1>12, <1>13

LEMMA ParentFound ==
  ASSUME Shape, NEW at, NEW ht, NEW h, Heights(ht, h), Owners(at, ht, h),
         up # NoCall, up.l # root
  PROVE  /\ at[ht[Parent]][up.key] = Parent
         /\ \E pos \in 1 .. Len(node[Parent].ch) :
              /\ node[Parent].ch[pos] = up.l
              /\ Gap(node[Parent].keys, up.key, pos)
              /\ pos > 1 => node[Parent].keys[pos - 1] < up.key
<1>1. /\ up.key \in Int /\ up.l # up.r /\ ht[up.r] = ht[up.l] /\ up.l \in Pages
      /\ NodeOK(node[Parent], Parent = root) /\ ~node[Parent].leaf
      /\ ht[up.l] \in 0 .. h
  BY ParentIsPage
<1>n. PICK n : n = node[Parent]
  OBVIOUS
<1>2. /\ n.keys \in Seq(Int) /\ Len(n.keys) \in Nat /\ Len(n.ch) = Len(n.keys) + 1
      /\ Distinct(n.ch) /\ \A j \in 1 .. Len(n.keys) : n.keys[j] \in Int
  BY <1>1, <1>n, NodeSeqs
<1>3. at[ht[up.l]][up.key] = up.r
  BY <1>1 DEF Owners
<1>4. /\ at[ht[Parent]][up.key] = Parent
      /\ \E i \in 1 .. Len(n.ch) : n.ch[i] = up.l /\ Gap(n.keys, up.key, i)
  BY <1>1, <1>3, <1>n, OwnerAbove
<1>5. PICK pos \in 1 .. Len(n.ch) : n.ch[pos] = up.l /\ Gap(n.keys, up.key, pos)
  BY <1>4
\* The left half still has a key; it is smaller than the separating one.
<1>6. PICK k1 \in Int : at[ht[up.l]][k1] = up.l
  <2>1. /\ NodeOK(node[up.l], up.l = root)
        /\ \A i \in 1 .. Len(node[up.l].keys) : at[ht[up.l]][node[up.l].keys[i]] = up.l
    BY <1>1, PagesKnown DEF Shape, Owners
  <2>2. 1 \in 1 .. Len(node[up.l].keys) /\ node[up.l].keys[1] \in Int
    BY <2>1, NodeSeqs
  <2>. QED
    BY <2>1, <2>2
<1>7. \E i \in 1 .. Len(n.ch) : n.ch[i] = up.l /\ Gap(n.keys, k1, i)
  BY <1>1, <1>6, <1>n, OwnerAbove
<1>8. Gap(n.keys, k1, pos)
  BY <1>2, <1>5, <1>7 DEF Distinct
<1>9. k1 < up.key
  <2>1. PICK d \in 1 .. h : d = ht[Parent] /\ d - 1 = ht[up.l]
    BY ParentIsPage
  <2>2. at[d][k1] = Parent
    BY <1>1, <1>6, <2>1, OwnerAbove
  <2>3. Leads(n.ch[pos], k1, at[d - 1][k1])
    BY <1>8, <1>n, <2>2 DEF Owners
  <2>4. ~(k1 >= up.key)
    BY <1>1, <1>5, <1>6, <2>1, <2>3 DEF Leads
  <2>. QED
    BY <1>1, <2>4
<1>10. ASSUME pos > 1 PROVE n.keys[pos - 1] < up.key
  <2>1. pos - 1 \in 1 .. Len(n.keys) /\ pos - 1 \in 1 .. pos - 1
    BY <1>2, <1>10
  <2>2. n.keys[pos - 1] \in Int /\ n.keys[pos - 1] <= k1
    BY <1>2, <1>8, <2>1 DEF Gap
  <2>. QED
    BY <1>1, <1>9, <2>2
<1>. QED
  BY <1>4, <1>5, <1>10, <1>n

\* A descent for x goes straight from q to the child i of q.
Direct(at, ht, d, x, q, i) ==
  /\ q \in Pages /\ ht[q] = d /\ ~node[q].leaf
  /\ node[q].ch[i] \in ToSet(node[q].ch)
  /\ at[d - 1][x] = node[q].ch[i]

\* So it does away from the parent of the pending halves.
LEMMA LeadsElsewhere ==
  ASSUME Shape, NEW at, NEW ht, NEW h, Heights(ht, h), Owners(at, ht, h), up # NoCall,
         NEW d \in 1 .. h, NEW x \in Int, NEW q, q = at[d][x], q # Parent,
         NEW i, Gap(node[q].keys, x, i)
  PROVE  Direct(at, ht, d, x, q, i)
<1>1. d \in 0 .. h /\ d # 0
  BY DEF Heights
<1>2. q \in Pages /\ ht[q] = d
  BY <1>1 DEF Owners
<1>3. ~node[q].leaf /\ NodeOK(node[q], q = root)
  BY <1>1, <1>2, PagesKnown DEF Shape, Heights
<1>n. PICK n : n = node[q]
  OBVIOUS
<1>4. /\ Len(n.ch) = Len(n.keys) + 1 /\ Len(n.keys) \in Nat
      /\ \A j \in 1 .. Len(n.ch) : n.ch[j] \in ToSet(n.ch)
  BY <1>3, <1>n, NodeSeqs
<1>5. i \in 1 .. Len(n.ch)
  BY <1>4, <1>n DEF Gap
<1>6. n.ch[i] \in ToSet(n.ch)
  BY <1>4, <1>5
<1>7. node[n.ch[i]].parent = q
  BY <1>2, <1>3, <1>6, <1>n DEF Shape, Linked
<1>8. n.ch[i] # up.l
  BY <1>7 DEF Parent
<1>9. Leads(n.ch[i], x, at[d - 1][x])
  BY <1>n DEF Owners
<1>10. at[d - 1][x] = n.ch[i]
  BY <1>8, <1>9 DEF Leads
<1>. QED
  BY <1>2, <1>3, <1>6, <1>10, <1>n DEF Direct

\* The parent with the pending half put in: it owns the new key too, and now
\* a descent for one of its keys goes the direct way.
LEMMA ParentWidened ==
  ASSUME Shape, NEW at, NEW ht, NEW h, Heights(ht, h), Owners(at, ht, h),
         up # NoCall, up.l # root,
         NEW m, m = InsertedRightOf(node[Parent], up.l, up.key, up.r)
  PROVE  /\ m \in Nodes /\ SameHeader(m, node[Parent]) /\ ~m.leaf
         /\ m.keys \in Seq(Int) /\ m.ch \in Seq(Entries) /\ Sorted(m.keys) /\ Distinct(m.ch)
         /\ Len(m.keys) = Len(node[Parent].keys) + 1
         /\ Len(m.ch) = Len(m.keys) + 1
         /\ ToSet(m.ch) = ToSet(node[Parent].ch) \cup {up.r}
         /\ \A j \in 1 .. Len(m.keys) : at[ht[Parent]][m.keys[j]] = Parent
         /\ \A x \in Int : at[ht[Parent]][x] = Parent =>
              \A i : Gap(m.keys, x, i) => at[ht[Parent] - 1][x] = m.ch[i]
<1>n. PICK n : n = node[Parent]
  OBVIOUS
<1>1. /\ Parent \in Pages /\ ~n.leaf /\ NodeOK(n, Parent = root)
      /\ up.l \in ToSet(n.ch) /\ up.r \notin ToSet(n.ch) /\ up.l # up.r
      /\ up.r \in PageIds /\ up.key \in Keys /\ up.key \in Int
  BY <1>n, ParentIsPage
<1>2. /\ n \in Nodes /\ n.keys \in Seq(Int) /\ n.ch \in Seq(Entries)
      /\ Len(n.keys) \in Nat /\ Sorted(n.keys) /\ Len(n.ch) = Len(n.keys) + 1
      /\ Distinct(n.ch) /\ \A j \in 1 .. Len(n.keys) : n.keys[j] \in Int
  BY <1>1, NodeSeqs
<1>3. PICK pos \in 1 .. Len(n.ch) :
        /\ n.ch[pos] = up.l /\ Gap(n.keys, up.key, pos)
        /\ pos > 1 => n.keys[pos - 1] < up.key
  BY <1>n, ParentFound
<1>k. PICK l, key, r : l = up.l /\ key = up.key /\ r = up.r
  OBVIOUS
<1>4. /\ m \in Nodes /\ SameHeader(m, n)
      /\ Widened(m.keys, n.keys, pos, key) /\ Widened(m.ch, n.ch, pos + 1, r)
      /\ Sorted(m.keys) /\ Distinct(m.ch) /\ ToSet(m.ch) = ToSet(n.ch) \cup {r}
      /\ \A x \in Int : \A i2 : Gap(m.keys, x, i2) =>
           \E i : /\ Gap(n.keys, x, i)
                  /\ i = pos /\ x >= key => m.ch[i2] = r
                  /\ ~(i = pos /\ x >= key) => m.ch[i2] = n.ch[i]
  <2>1. /\ n.ch[pos] = l /\ key \in Keys /\ Gap(n.keys, key, pos)
        /\ pos > 1 => n.keys[pos - 1] < key
        /\ r \in PageIds /\ r \notin ToSet(n.ch)
    BY <1>1, <1>3, <1>k
  <2>2. m = InsertedRightOf(n, l, key, r)
    BY <1>n, <1>k
  <2>3. ChildPut(InsertedRightOf(n, l, key, r), n, pos, key, r)
    BY <1>2, <1>3, <2>1, ChildInserted
  <2>. QED
    BY <2>2, <2>3 DEF ChildPut
<1>5. m.keys \in Seq(Int) /\ m.ch \in Seq(Entries)
  BY <1>4, NodeFields, KeysAreInts
<1>6. Len(m.keys) = Len(n.keys) + 1 /\ Len(m.ch) = Len(m.keys) + 1
  BY <1>2, <1>4 DEF Widened
<1>d. PICK d \in 1 .. h : d = ht[Parent] /\ d - 1 = ht[up.l]
  BY ParentIsPage
<1>7. \A j \in 1 .. Len(m.keys) : at[d][m.keys[j]] = Parent
  <2>1. PICK S : S = {x \in Int : at[d][x] = Parent}
    OBVIOUS
  <2>2. key \in S
    BY <1>1, <1>d, <1>k, <2>1, ParentFound
  <2>3. \A j \in 1 .. Len(n.keys) : at[d][n.keys[j]] = Parent
    BY <1>1, <1>d, <1>n DEF Owners
  <2>4. \A j \in 1 .. Len(n.keys) : n.keys[j] \in S
    BY <1>2, <2>1, <2>3
  <2>5. pos \in 1 .. Len(n.keys) + 1
    BY <1>2
  <2>6. \A j \in 1 .. Len(m.keys) : m.keys[j] \in S
    BY <1>2, <1>4, <2>2, <2>4, <2>5, WidenedIn
  <2>. QED
    BY <2>1, <2>6
<1>8. ASSUME NEW x \in Int, at[d][x] = Parent, NEW i2, Gap(m.keys, x, i2)
      PROVE  at[d - 1][x] = m.ch[i2]
  <2>1. PICK i : /\ Gap(n.keys, x, i)
                 /\ i = pos /\ x >= key => m.ch[i2] = r
                 /\ ~(i = pos /\ x >= key) => m.ch[i2] = n.ch[i]
    BY <1>4, <1>8
  <2>2. i \in 1 .. Len(n.ch)
    BY <1>2, <2>1 DEF Gap
  <2>3. Leads(n.ch[i], x, at[d - 1][x])
    BY <1>8, <1>n, <2>1 DEF Owners
  <2>4. CASE i = pos
    BY <1>3, <1>k, <2>1, <2>3, <2>4 DEF Leads
  <2>5. CASE i # pos
    <3>1. n.ch[i] # up.l
      BY <1>2, <1>3, <2>2, <2>5 DEF Distinct
    <3>. QED
      BY <2>1, <2>3, <2>5, <3>1 DEF Leads
  <2>. QED
    BY <2>4, <2>5
<1>9. ~m.leaf
  BY <1>1, <1>4 DEF SameHeader
<1>10. \A j \in 1 .. Len(m.keys) : at[ht[Parent]][m.keys[j]] = Parent
  BY <1>7, <1>d
<1>11. \A x \in Int : at[ht[Parent]][x] = Parent =>
         \A i : Gap(m.keys, x, i) => at[ht[Parent] - 1][x] = m.ch[i]
  BY <1>8, <1>d
<1>. QED
  BY <1>4, <1>5, <1>6, <1>9, <1>10, <1>11, <1>k, <1>n

\* A page gets another parent.
Moved(n, p) == [n EXCEPT !.parent = p]

LEMMA PageMoved ==
  ASSUME NEW n \in Nodes, NEW p \in PageIds \cup {ERROR_PAGE}
  PROVE  /\ Moved(n, p) \in Nodes
         /\ Moved(n, p).leaf = n.leaf /\ Moved(n, p).rootBit = n.rootBit
         /\ Moved(n, p).keys = n.keys /\ Moved(n, p).ch = n.ch
         /\ Moved(n, p).next = n.next /\ Moved(n, p).parent = p
         /\ p = n.parent => Moved(n, p) = n
<1>1. /\ n = [leaf |-> n.leaf, rootBit |-> n.rootBit, keys |-> n.keys,
              ch |-> n.ch, parent |-> n.parent, next |-> n.next]
      /\ n.leaf \in BOOLEAN /\ n.rootBit \in BOOLEAN
      /\ n.keys \in Seq(Keys) /\ n.ch \in Seq(Entries)
      /\ n.next \in StaleNext \cup PageIds
  BY NodeFields
<1>2. PICK m : m = [n EXCEPT !.parent = p]
  OBVIOUS
<1>3. m = [leaf |-> n.leaf, rootBit |-> n.rootBit, keys |-> n.keys,
           ch |-> n.ch, parent |-> p, next |-> n.next]
  BY <1>1, <1>2
<1>4. m \in Nodes
  BY <1>1, <1>3 DEF Nodes, Entries
<1>5. p = n.parent => m = n
  BY <1>1, <1>3
<1>6. /\ m.leaf = n.leaf /\ m.rootBit = n.rootBit /\ m.keys = n.keys
      /\ m.ch = n.ch /\ m.next = n.next /\ m.parent = p
  BY <1>3
<1>. QED
  BY <1>2, <1>4, <1>5, <1>6 DEF Moved

\* What each page is, whoever needs only that.
LEMMA ShapeFacts ==
  ASSUME Shape, root # ERROR_PAGE
  PROVE  /\ Pages \subseteq PageIds /\ pageCnt \in Nat /\ ERROR_PAGE \notin Pages
         /\ \A p \in Pages : NodeOK(node[p], p = root) /\ node[p] \in Nodes
         /\ root \in Pages /\ node[root].parent = ERROR_PAGE
         /\ \A p \in Pages : ~node[p].leaf =>
              \A c \in ToSet(node[p].ch) : c \in Pages /\ c # root /\ node[c].parent = p
         /\ node \in [PageIds -> Nodes \cup {NoNode}]
<1>1. /\ Pages \subseteq PageIds /\ pageCnt \in Nat /\ ERROR_PAGE \notin Pages
      /\ \A p \in Pages : NodeOK(node[p], p = root) /\ node[p] \in Nodes
  BY PagesKnown DEF Shape
<1>2. root \in Pages /\ node[root].parent = ERROR_PAGE
  BY DEF Shape, Rooted
<1>3. \A p \in Pages : ~node[p].leaf =>
        \A c \in ToSet(node[p].ch) : c \in Pages /\ node[c].parent = p
  BY DEF Shape, Linked
<1>4. \A p \in Pages : ~node[p].leaf => \A c \in ToSet(node[p].ch) : c # root
  BY <1>1, <1>2, <1>3
<1>. QED
  BY <1>1, <1>2, <1>3, <1>4 DEF Shape, Typed

LEMMA ParentHasRoomStep ==
  ASSUME Inv, up # NoCall, ParentHasRoom, UNCHANGED last
  PROVE  Inv' /\ Follows /\ LeavesKept
<1>1. /\ Shape /\ Typed /\ root # ERROR_PAGE /\ up.l # root /\ ~is_full(node[Parent])
      /\ root' = root /\ pageCnt' = pageCnt /\ up' = NoCall
      /\ last' \in (Keys \X (Records \cup {ERROR_PAGE})) \cup {NoCall}
  BY DEF Inv, Shape, ParentHasRoom, Typed, Rooted
<1>w. \E at, ht, h : Heights(ht, h) /\ Owners(at, ht, h)
  BY <1>1 DEF Inv
<1>2. SUFFICES ASSUME NEW at, NEW ht, NEW h, Heights(ht, h), Owners(at, ht, h)
               PROVE  Inv' /\ FollowsFrom(at, h) /\ LeavesKept
  BY <1>w DEF Follows
<1>3. PICK P, l, key, r : P = Parent /\ l = up.l /\ key = up.key /\ r = up.r
  OBVIOUS
<1>n. PICK n : n = node[P]
  OBVIOUS
<1>m. PICK m : m = InsertedRightOf(n, l, key, r)
  OBVIOUS
<1>4. /\ P \in Pages /\ ~n.leaf /\ NodeOK(n, P = root) /\ l \in ToSet(n.ch)
      /\ r \notin ToSet(n.ch) /\ l \in Pages /\ r \in Pages /\ l # r /\ r # root
      /\ ht[r] + 1 = ht[P] /\ ht[P] \in 1 .. h /\ ht[l] \in Nat /\ ht[r] = ht[l]
      /\ node[r].parent = P
  BY <1>1, <1>2, <1>3, <1>n, ParentIsPage
<1>5. /\ m \in Nodes /\ SameHeader(m, n) /\ ~m.leaf
      /\ m.keys \in Seq(Int) /\ m.ch \in Seq(Entries) /\ Sorted(m.keys) /\ Distinct(m.ch)
      /\ Len(m.keys) = Len(n.keys) + 1 /\ Len(m.ch) = Len(m.keys) + 1
      /\ ToSet(m.ch) = ToSet(n.ch) \cup {r}
      /\ \A j \in 1 .. Len(m.keys) : at[ht[P]][m.keys[j]] = P
      /\ \A x \in Int : at[ht[P]][x] = P =>
           \A i : Gap(m.keys, x, i) => at[ht[P] - 1][x] = m.ch[i]
  BY <1>1, <1>2, <1>3, <1>n, <1>m, ParentWidened
<1>6. /\ Pages \subseteq PageIds /\ Pages' = Pages
      /\ \A p \in Pages : NodeOK(node[p], p = root) /\ node[p] \in Nodes
      /\ root \in Pages /\ node \in [PageIds -> Nodes \cup {NoNode}] /\ P # r
  BY <1>1, <1>4, ShapeFacts DEF Pages
<1>7. /\ node'[P] = m /\ \A p \in PageIds : p # P => node'[p] = node[p]
      /\ node' \in [PageIds -> Nodes \cup {NoNode}]
  <2>1. PICK nr : nr = Moved(node[r], P)
    OBVIOUS
  <2>2. node' = [node EXCEPT ![P] = m, ![r] = nr]
    <3>1. node' = [node EXCEPT ![P] = m, ![r].parent = P]
      BY <1>3, <1>n, <1>m DEF ParentHasRoom
    <3>. QED
      BY <1>4, <1>6, <2>1, <3>1 DEF Moved
  <2>3. nr = node[r]
    <3>1. node[r] \in Nodes /\ node[r].parent = P
      BY <1>4, <1>6
    <3>2. PICK o : o = node[r]
      OBVIOUS
    <3>3. [o EXCEPT !.parent = P] = o
      BY <3>1, <3>2 DEF Nodes
    <3>. QED
      BY <2>1, <3>2, <3>3 DEF Moved
  <2>. QED
    BY <1>4, <1>5, <1>6, <2>2, <2>3
<1>8. /\ \A p \in Pages : (node'[p].leaf <=> node[p].leaf) /\ node'[p].parent = node[p].parent
      /\ \A p \in Pages : p # P => node'[p] = node[p]
  BY <1>4, <1>5, <1>6, <1>7, <1>n DEF SameHeader
<1>9. NodeOK(m, P = root)
  <2>1. Len(n.keys) \in Nat /\ 1 <= Len(n.keys) /\ Order \in Nat
    BY <1>4, NodeSeqs, OrderFacts
  <2>2. Len(m.keys) <= Order - 1 /\ 1 <= Len(m.keys)
    BY <1>1, <1>3, <1>5, <1>n, <2>1 DEF is_full
  <2>3. HalfFull(n) => HalfFull(m)
    BY <1>4, <1>5, <2>1, OrderFacts DEF HalfFull
  <2>4. P = root \/ HalfFull(m)
    BY <1>4, <2>3 DEF NodeOK
  <2>5. m.rootBit <=> P = root
    BY <1>4, <1>5 DEF NodeOK, SameHeader
  <2>. QED
    BY <1>5, <2>2, <2>4, <2>5 DEF NodeOK
<1>10. Typed'
  <2>1. ASSUME NEW p \in PageIds
        PROVE  IF p < pageCnt THEN NodeOK(node'[p], p = root) ELSE node'[p] = NoNode
    <3>1. CASE p = P
      <4>1. P < pageCnt
        BY <1>1, <1>4, <1>6, PagesKnown
      <4>. QED
        BY <1>4, <1>6, <1>7, <1>9, <3>1, <4>1
    <3>2. CASE p # P
      BY <1>1, <1>7, <3>2 DEF Typed
    <3>. QED
      BY <3>1, <3>2
  <2>. QED
    BY <1>1, <1>7, <2>1 DEF Typed
<1>11. Rooted'
  BY <1>1, <1>6, <1>8 DEF Shape, Rooted
<1>12. Linked'
  <2>1. ASSUME NEW p \in Pages', ~node'[p].leaf, NEW c \in ToSet(node'[p].ch)
        PROVE  c \in Pages' /\ node'[c].parent = p
    <3>1. p \in Pages /\ ~node[p].leaf
      BY <1>6, <1>8, <2>1
    <3>2. c \in Pages /\ node[c].parent = p
      <4>1. CASE p = P /\ c = r
        BY <1>4, <4>1
      <4>2. CASE ~(p = P /\ c = r)
        <5>1. c \in ToSet(node[p].ch)
          BY <1>5, <1>7, <1>8, <1>n, <2>1, <3>1, <4>2
        <5>. QED
          BY <1>1, <3>1, <5>1 DEF Shape, Linked
      <4>. QED
        BY <4>1, <4>2
    <3>. QED
      BY <1>6, <1>8, <3>2
  <2>. QED
    BY <2>1 DEF Linked
<1>13. Named'
  <2>1. ASSUME NEW c \in Pages, c # root
        PROVE  /\ node[c].parent \in Pages /\ ~node[node[c].parent].leaf
               /\ c \in ToSet(node'[node[c].parent].ch)
    <3>1. CASE c = r
      BY <1>4, <1>5, <1>7, <1>6, <1>n, <3>1
    <3>2. CASE c # r
      <4>1. PICK q : q = node[c].parent
        OBVIOUS
      <4>2. q \in Pages /\ ~node[q].leaf /\ c \in ToSet(node[q].ch)
        BY <1>1, <1>3, <2>1, <3>2, <4>1 DEF Shape, Named
      <4>3. c \in ToSet(node'[q].ch)
        BY <1>5, <1>6, <1>7, <1>n, <4>2
      <4>. QED
        BY <4>1, <4>2, <4>3
    <3>. QED
      BY <3>1, <3>2
  <2>. QED
    BY <1>1, <1>6, <1>8, <2>1 DEF Named
<1>14. Waiting'
  BY <1>1 DEF Waiting
<1>H. /\ ht \in [PageIds -> Nat] /\ h \in Nat /\ ht[root] = h /\ h + 2 <= pageCnt
      /\ \A p \in Pages : (node[p].leaf <=> ht[p] = 0) /\ ht[p] <= h
      /\ \A p \in Pages : ~node[p].leaf => \A c \in ToSet(node[p].ch) : ht[c] + 1 = ht[p]
  BY <1>1, <1>2 DEF Heights
<1>15. Heights(ht, h)'
  <2>1. ASSUME NEW p \in Pages, ~node'[p].leaf, NEW c \in ToSet(node'[p].ch)
        PROVE  ht[c] + 1 = ht[p]
    <3>1. CASE p = P /\ c = r
      BY <1>4, <3>1
    <3>2. CASE ~(p = P /\ c = r)
      <4>1. c \in ToSet(node[p].ch) /\ ~node[p].leaf
        BY <1>5, <1>7, <1>8, <1>6, <1>n, <2>1, <3>2
      <4>. QED
        BY <1>H, <4>1
    <3>. QED
      BY <3>1, <3>2
  <2>. QED
    BY <1>1, <1>6, <1>8, <1>H, <2>1 DEF Heights
<1>O. /\ at \in [Nat -> [Int -> PageIds]]
      /\ \A d \in 0 .. h : \A x \in Int : at[d][x] \in Pages /\ ht[at[d][x]] = d
      /\ \A x \in Int : at[h][x] = root
      /\ \A p \in Pages : \A i \in 1 .. Len(node[p].keys) : at[ht[p]][node[p].keys[i]] = p
  BY <1>1, <1>2 DEF Owners, Leads
<1>16. Owners(at, ht, h)'
  <2>1. ASSUME NEW d \in 1 .. h, NEW x \in Int, NEW i, Gap(node'[at[d][x]].keys, x, i)
        PROVE  at[d - 1][x] = node'[at[d][x]].ch[i]
    <3>1. PICK q : q = at[d][x]
      OBVIOUS
    <3>2. q \in Pages /\ ht[q] = d
      <4>1. d \in 0 .. h
        BY <1>H
      <4>. QED
        BY <1>O, <3>1, <4>1
    <3>3. CASE q = P
      <4>1. node'[q] = m /\ Gap(m.keys, x, i)
        BY <1>4, <1>6, <1>7, <2>1, <3>1, <3>3
      <4>2. at[ht[P]][x] = P /\ ht[P] = d
        BY <3>1, <3>2, <3>3
      <4>3. at[ht[P] - 1][x] = m.ch[i]
        BY <1>5, <4>1, <4>2
      <4>. QED
        BY <3>1, <4>1, <4>2, <4>3
    <3>4. CASE q # P
      <4>1. node'[q] = node[q]
        BY <1>8, <3>2, <3>4
      <4>2. Gap(node[q].keys, x, i)
        BY <2>1, <3>1, <4>1
      <4>3. q # Parent
        BY <1>3, <3>4
      <4>4. at[d - 1][x] = node[q].ch[i]
        <5>1. Direct(at, ht, d, x, q, i)
          BY <1>1, <1>2, <3>1, <4>2, <4>3, LeadsElsewhere
        <5>. QED
          BY <5>1 DEF Direct
      <4>. QED
        BY <3>1, <4>1, <4>4
    <3>. QED
      BY <3>3, <3>4
  <2>2. ASSUME NEW p \in Pages, NEW i \in 1 .. Len(node'[p].keys)
        PROVE  at[ht[p]][node'[p].keys[i]] = p
    <3>1. CASE p = P
      BY <1>5, <1>7, <1>6, <3>1
    <3>2. CASE p # P
      BY <1>8, <1>O, <3>2
    <3>. QED
      BY <3>1, <3>2
  <2>3. \A d \in 1 .. h : \A x \in Int : \A i :
          Gap(node'[at[d][x]].keys, x, i) => Leads(node[at[d][x]].ch[i], x, at[d - 1][x])'
    BY <1>1, <2>1 DEF Leads
  <2>4. \A x \in Int : Leads(root, x, at[h][x])'
    BY <1>1, <1>O DEF Leads
  <2>5. Chained(at[0])'
    <3>1. PICK own : own = at[0]
      OBVIOUS
    <3>2. \A x \in Int : own[x] \in Pages
      <4>1. 0 \in 0 .. h
        BY <1>H
      <4>. QED
        BY <1>O, <3>1, <4>1
    <3>3. \A p \in Pages : node'[p].next = node[p].next
      BY <1>5, <1>6, <1>7, <1>n DEF SameHeader
    <3>4. Chained(own)
      BY <1>2, <3>1 DEF Owners
    <3>5. Chained(own)'
      BY <3>2, <3>3, <3>4, ChainKept
    <3>. QED
      BY <3>1, <3>5
  <2>. QED
    BY <1>1, <1>6, <1>O, <2>2, <2>3, <2>4, <2>5 DEF Owners
<1>f. FollowsFrom(at, h)
  BY <1>2, <1>15, <1>16, FollowsSame
<1>inv. Inv'
  BY <1>1, <1>10, <1>11, <1>12, <1>13, <1>14, <1>15, <1>16 DEF Inv, Shape
<1>kept. LeavesKept
  <2>1. \A p \in Pages : node[p].leaf => node'[p] = node[p]
    BY <1>4, <1>8, <1>n
  <2>. QED
    BY <1>6, <1>8, <2>1 DEF LeavesKept
<1>. QED
  BY <1>f, <1>inv, <1>kept

\* The page of a new root.
NewRoot(m, key, l, r) ==
  /\ m \in Nodes /\ ~m.leaf /\ m.rootBit /\ m.parent = ERROR_PAGE
  /\ m.keys = <<key>> /\ m.ch = <<l, r>>

LEMMA RootMade ==
  ASSUME NEW stale \in StaleNext, NEW key \in Keys, NEW l \in PageIds, NEW r \in PageIds
  PROVE  NewRoot([NewNode(FALSE, TRUE, stale) EXCEPT !.keys = <<key>>, !.ch = <<l, r>>],
                 key, l, r)
<1>1. PICK m : m = [NewNode(FALSE, TRUE, stale) EXCEPT !.keys = <<key>>, !.ch = <<l, r>>]
  OBVIOUS
<1>2. m = [leaf |-> FALSE, rootBit |-> TRUE, keys |-> <<key>>, ch |-> <<l, r>>,
           parent |-> ERROR_PAGE, next |-> stale]
  BY <1>1 DEF NewNode
<1>3. <<key>> \in Seq(Keys) /\ <<l, r>> \in Seq(Entries)
  BY DEF Entries
<1>4. m \in Nodes
  BY <1>2, <1>3 DEF Nodes, Entries
<1>5. NewRoot(m, key, l, r)
  BY <1>2, <1>4 DEF NewRoot
<1>. QED
  BY <1>1, <1>5

RootOver(m, key, l, r) ==
  /\ NodeOK(m, TRUE) /\ ToSet(m.ch) = {l, r}
  /\ Len(m.keys) = 1 /\ m.keys[1] = key
  /\ \A x \in Int : \A i : Gap(m.keys, x, i) => m.ch[i] = IF x >= key THEN r ELSE l

LEMMA RootOK ==
  ASSUME NEW m, NEW key \in Keys, NEW l \in PageIds, NEW r \in PageIds, l # r,
         NewRoot(m, key, l, r)
  PROVE  RootOver(m, key, l, r)
<1>1. m.keys = <<key>> /\ m.ch = <<l, r>> /\ m \in Nodes /\ m.rootBit /\ ~m.leaf
  BY DEF NewRoot
<1>2. /\ Len(m.keys) = 1 /\ m.keys[1] = key /\ Len(m.ch) = 2
      /\ m.ch[1] = l /\ m.ch[2] = r /\ key \in Int
  BY <1>1, TreeAssumption
<1>3. Sorted(m.keys)
  BY <1>2 DEF Sorted
<1>4. Distinct(m.ch)
  <2>1. ASSUME NEW i \in 1 .. 2, NEW j \in 1 .. 2, m.ch[i] = m.ch[j] PROVE i = j
    <3>1. (i = 1 \/ i = 2) /\ (j = 1 \/ j = 2)
      OBVIOUS
    <3>. QED
      BY <1>2, <2>1, <3>1
  <2>. QED
    BY <1>2, <2>1 DEF Distinct
<1>5. ToSet(m.ch) = {l, r}
  <2>1. m.ch \in Seq(Entries)
    BY <1>1, NodeFields
  <2>2. ASSUME NEW x PROVE x \in ToSet(m.ch) <=> x \in {l, r}
    <3>1. x \in ToSet(m.ch) <=> \E j \in 1 .. Len(m.ch) : m.ch[j] = x
      BY <2>1, InSet
    <3>. QED
      BY <1>2, <3>1
  <2>. QED
    BY <2>2
<1>6. ASSUME NEW x \in Int, NEW i, Gap(m.keys, x, i)
      PROVE  m.ch[i] = IF x >= key THEN r ELSE l
  <2>1. i \in 1 .. 2 /\ (\A j \in 1 .. i - 1 : m.keys[j] <= x) /\ (\A j \in i .. 1 : x < m.keys[j])
    BY <1>2, <1>6 DEF Gap
  <2>2. CASE i = 1
    BY <1>2, <2>1, <2>2
  <2>3. CASE i = 2
    BY <1>2, <2>1, <2>3
  <2>. QED
    BY <2>1, <2>2, <2>3
<1>7. NodeOK(m, TRUE)
  BY <1>1, <1>2, <1>3, <1>4, OrderFacts DEF NodeOK
<1>. QED
  BY <1>2, <1>5, <1>6, <1>7 DEF RootOver

\* The old root under the new one.
Lowered(n, p) == [n EXCEPT !.parent = p, !.rootBit = ~@]

LEMMA RootLowered ==
  ASSUME NEW n \in Nodes, NEW p \in PageIds
  PROVE  /\ Lowered(n, p) \in Nodes
         /\ Lowered(n, p).leaf = n.leaf /\ (Lowered(n, p).rootBit <=> ~n.rootBit)
         /\ Lowered(n, p).keys = n.keys /\ Lowered(n, p).ch = n.ch
         /\ Lowered(n, p).parent = p /\ Lowered(n, p).next = n.next
<1>1. /\ n = [leaf |-> n.leaf, rootBit |-> n.rootBit, keys |-> n.keys,
              ch |-> n.ch, parent |-> n.parent, next |-> n.next]
      /\ n.leaf \in BOOLEAN /\ n.rootBit \in BOOLEAN
      /\ n.keys \in Seq(Keys) /\ n.ch \in Seq(Entries)
      /\ n.next \in StaleNext \cup PageIds
  BY NodeFields
<1>b. PICK b \in BOOLEAN : b = ~n.rootBit
  OBVIOUS
<1>2. PICK m : m = [n EXCEPT !.parent = p, !.rootBit = ~@]
  OBVIOUS
<1>3. m = [leaf |-> n.leaf, rootBit |-> b, keys |-> n.keys,
           ch |-> n.ch, parent |-> p, next |-> n.next]
  BY <1>1, <1>2, <1>b
<1>4. m \in Nodes
  BY <1>1, <1>3 DEF Nodes, Entries
<1>6. /\ m.leaf = n.leaf /\ m.keys = n.keys /\ m.ch = n.ch /\ m.parent = p
      /\ m.rootBit = b /\ m.next = n.next
  BY <1>3
<1>. QED
  BY <1>2, <1>4, <1>6, <1>b DEF Lowered

LEMMA NodeOKMoved ==
  ASSUME NEW n, NEW b, NodeOK(n, b), NEW m \in Nodes, NEW c, c \/ HalfFull(n),
         m.leaf = n.leaf, m.keys = n.keys, m.ch = n.ch, m.rootBit <=> c
  PROVE  NodeOK(m, c)
  BY DEF NodeOK, HalfFull

LEMMA ParentIsNewStep ==
  ASSUME Inv, up # NoCall, ParentIsNew, UNCHANGED last
  PROVE  Inv' /\ Follows /\ LeavesKept
<1>1. /\ Shape /\ Typed /\ root # ERROR_PAGE /\ up.l = root /\ pageCnt \in PageIds
      /\ root' = pageCnt /\ pageCnt' = pageCnt + 1 /\ up' = NoCall
      /\ last' \in (Keys \X (Records \cup {ERROR_PAGE})) \cup {NoCall}
  BY DEF Inv, Shape, ParentIsNew, Typed, Rooted
<1>w. \E at, ht, h : Heights(ht, h) /\ Owners(at, ht, h)
  BY <1>1 DEF Inv
<1>2. SUFFICES ASSUME NEW at, NEW ht, NEW h, Heights(ht, h), Owners(at, ht, h)
               PROVE  Inv' /\ FollowsFrom(at, h) /\ LeavesKept
  BY <1>w DEF Follows
<1>i. PICK id \in PageIds : id = pageCnt
  BY <1>1
<1>3. PICK l, key, r : l = up.l /\ key = up.key /\ r = up.r
  OBVIOUS
<1>4. /\ l \in Pages /\ r \in Pages /\ l # r /\ r # root /\ l = root
      /\ l \in PageIds /\ r \in PageIds /\ key \in Keys /\ key \in Int
      /\ HalfFull(node[l]) /\ node[l].parent = ERROR_PAGE /\ node[r].parent = ERROR_PAGE
      /\ \A p \in Pages : ~node[p].leaf => r \notin ToSet(node[p].ch)
  <2>1. up \in Calls
    BY <1>1 DEF Typed
  <2>2. up.key \in Keys /\ up.key \in Int /\ up.l \in PageIds /\ up.r \in PageIds
    BY <2>1, TreeAssumption DEF Calls
  <2>3. /\ up.l \in Pages /\ up.r \in Pages /\ up.l # up.r /\ up.r # root
        /\ HalfFull(node[up.l]) /\ node[up.r].parent = node[up.l].parent
        /\ \A p \in Pages : ~node[p].leaf => up.r \notin ToSet(node[p].ch)
    BY <1>1 DEF Shape, Waiting
  <2>4. node[root].parent = ERROR_PAGE
    BY <1>1, ShapeFacts
  <2>. QED
    BY <1>1, <1>3, <2>2, <2>3, <2>4
<1>5. /\ Pages \subseteq PageIds /\ Pages' = Pages \cup {id} /\ id \notin Pages
      /\ \A p \in Pages : NodeOK(node[p], p = root) /\ node[p] \in Nodes
      /\ root \in Pages /\ node \in [PageIds -> Nodes \cup {NoNode}]
      /\ ERROR_PAGE \notin Pages /\ pageCnt \in Nat
      /\ \A p \in Pages : ~node[p].leaf =>
           \A c \in ToSet(node[p].ch) : c \in Pages /\ c # root /\ node[c].parent = p
  <2>1. /\ Pages \subseteq PageIds /\ id \notin Pages /\ pageCnt \in Nat
    BY <1>1, <1>i, PagesKnown
  <2>2. Pages' = Pages \cup {id}
    BY <1>1, <1>i, <2>1 DEF Pages, PageIds
  <2>. QED
    BY <1>1, <2>1, <2>2, ShapeFacts
<1>m. PICK m, l2, r2 :
        /\ node' = [node EXCEPT ![id] = m, ![l] = l2, ![r] = r2]
        /\ NewRoot(m, key, l, r) /\ l2 = Lowered(node[l], id) /\ r2 = Moved(node[r], id)
  <2>1. PICK stale \in StaleNext :
          node' = [node EXCEPT
                     ![id] = [NewNode(FALSE, TRUE, stale) EXCEPT
                                !.keys = <<key>>, !.ch = <<l, r>>],
                     ![l].parent = id, ![l].rootBit = ~@, ![r].parent = id]
    BY <1>i, <1>3 DEF ParentIsNew
  <2>2. PICK m : m = [NewNode(FALSE, TRUE, stale) EXCEPT !.keys = <<key>>, !.ch = <<l, r>>]
    OBVIOUS
  <2>3. NewRoot(m, key, l, r)
    BY <1>4, <2>2, RootMade
  <2>4. PICK l2, r2 : l2 = Lowered(node[l], id) /\ r2 = Moved(node[r], id)
    OBVIOUS
  <2>5. node' = [node EXCEPT ![id] = m, ![l] = l2, ![r] = r2]
    <3>1. id # l /\ id # r /\ l # r
      BY <1>4, <1>5
    <3>2. node' = [node EXCEPT ![id] = m, ![l].parent = id, ![l].rootBit = ~@, ![r].parent = id]
      BY <2>1, <2>2
    <3>. QED
      BY <1>4, <1>5, <2>4, <3>1, <3>2 DEF Lowered, Moved
  <2>. QED
    BY <2>3, <2>4, <2>5
<1>6. /\ l2 \in Nodes /\ l2.leaf = node[l].leaf /\ l2.keys = node[l].keys
      /\ l2.ch = node[l].ch /\ l2.parent = id /\ NodeOK(l2, FALSE)
      /\ l2.next = node[l].next /\ r2.next = node[r].next
      /\ r2 \in Nodes /\ r2.leaf = node[r].leaf /\ r2.keys = node[r].keys
      /\ r2.ch = node[r].ch /\ r2.parent = id /\ NodeOK(r2, FALSE)
  <2>1. /\ node[l] \in Nodes /\ NodeOK(node[l], TRUE)
        /\ node[r] \in Nodes /\ NodeOK(node[r], FALSE)
    BY <1>4, <1>5
  <2>2. /\ l2 \in Nodes /\ l2.leaf = node[l].leaf /\ l2.keys = node[l].keys
        /\ l2.ch = node[l].ch /\ l2.parent = id /\ (l2.rootBit <=> ~node[l].rootBit)
        /\ l2.next = node[l].next
    BY <1>m, <2>1, RootLowered
  <2>3. /\ r2 \in Nodes /\ r2.leaf = node[r].leaf /\ r2.keys = node[r].keys
        /\ r2.ch = node[r].ch /\ r2.parent = id /\ r2.rootBit = node[r].rootBit
        /\ r2.next = node[r].next
    BY <1>m, <2>1, PageMoved
  <2>4. (l2.rootBit <=> FALSE) /\ (r2.rootBit <=> FALSE) /\ HalfFull(node[r])
    BY <2>1, <2>2, <2>3 DEF NodeOK
  <2>5. NodeOK(l2, FALSE)
    BY <1>4, <2>1, <2>2, <2>4, NodeOKMoved
  <2>6. NodeOK(r2, FALSE)
    BY <2>1, <2>3, <2>4, NodeOKMoved
  <2>. QED
    BY <2>2, <2>3, <2>5, <2>6
<1>7. /\ m \in Nodes /\ ~m.leaf /\ m.parent = ERROR_PAGE
      /\ NodeOK(m, TRUE) /\ ToSet(m.ch) = {l, r} /\ Len(m.keys) = 1 /\ m.keys[1] = key
      /\ \A x \in Int : \A i : Gap(m.keys, x, i) => m.ch[i] = IF x >= key THEN r ELSE l
  <2>1. NewRoot(m, key, l, r)
    BY <1>m
  <2>. QED
    <3>1. RootOver(m, key, l, r)
      BY <1>4, <2>1, RootOK
    <3>. QED
      BY <2>1, <3>1 DEF NewRoot, RootOver
<1>8. /\ node'[id] = m /\ node'[l] = l2 /\ node'[r] = r2
      /\ \A p \in PageIds : p \notin {id, l, r} => node'[p] = node[p]
      /\ node' \in [PageIds -> Nodes \cup {NoNode}]
  BY <1>4, <1>5, <1>6, <1>7, <1>m
<1>9. /\ \A p \in Pages : /\ (node'[p].leaf <=> node[p].leaf)
                          /\ node'[p].keys = node[p].keys /\ node'[p].ch = node[p].ch
                          /\ NodeOK(node'[p], FALSE)
      /\ \A p \in Pages : p \notin {l, r} => node'[p].parent = node[p].parent
      /\ node'[l].parent = id /\ node'[r].parent = id
  <2>1. ASSUME NEW p \in Pages
        PROVE  /\ (node'[p].leaf <=> node[p].leaf)
               /\ node'[p].keys = node[p].keys /\ node'[p].ch = node[p].ch
               /\ NodeOK(node'[p], FALSE)
               /\ p \notin {l, r} => node'[p].parent = node[p].parent
    <3>1. CASE p = l
      BY <1>6, <1>8, <3>1
    <3>2. CASE p = r
      BY <1>6, <1>8, <3>2
    <3>3. CASE p # l /\ p # r
      <4>1. node'[p] = node[p]
        BY <1>5, <1>8, <3>3
      <4>2. NodeOK(node[p], FALSE)
        BY <1>4, <1>5, <3>3
      <4>. QED
        BY <4>1, <4>2
    <3>. QED
      BY <3>1, <3>2, <3>3
  <2>. QED
    BY <1>6, <1>8, <2>1
<1>10. Typed'
  <2>1. pageCnt' \in 1 .. MaxPage + 1
    BY <1>1, TreeAssumption DEF PageIds
  <2>2. ASSUME NEW p \in PageIds
        PROVE  IF p < pageCnt' THEN NodeOK(node'[p], p = root') ELSE node'[p] = NoNode
    <3>1. CASE p = id
      <4>1. id < pageCnt' /\ (id = root') = TRUE
        BY <1>1, <1>5, <1>i
      <4>. QED
        BY <1>7, <1>8, <3>1, <4>1
    <3>2. CASE p \in Pages
      <4>1. p < pageCnt' /\ (p = root') = FALSE
        BY <1>1, <1>5, <1>i, <3>2, PagesKnown
      <4>. QED
        BY <1>9, <3>2, <4>1
    <3>3. CASE p # id /\ p \notin Pages
      <4>1. ~(p < pageCnt) /\ ~(p < pageCnt')
        BY <1>1, <1>5, <1>i, <3>3, PagesKnown DEF PageIds
      <4>2. node'[p] = node[p] /\ node[p] = NoNode
        BY <1>1, <1>4, <1>8, <3>3, <4>1 DEF Typed
      <4>. QED
        BY <4>1, <4>2
    <3>. QED
      BY <3>1, <3>2, <3>3
  <2>. QED
    BY <1>1, <1>8, <2>1, <2>2, TreeAssumption DEF Typed
<1>11. Rooted'
  <2>1. id # ERROR_PAGE /\ id \in Pages' /\ node'[id].parent = ERROR_PAGE
    BY <1>5, <1>7, <1>8, TreeAssumption DEF PageIds, ERROR_PAGE
  <2>. QED
    BY <1>1, <1>i, <2>1 DEF Rooted
<1>12. Linked'
  <2>1. ASSUME NEW p \in Pages', ~node'[p].leaf, NEW c \in ToSet(node'[p].ch)
        PROVE  c \in Pages' /\ node'[c].parent = p
    <3>1. CASE p = id
      BY <1>4, <1>5, <1>7, <1>8, <1>9, <2>1, <3>1
    <3>2. CASE p # id
      <4>1. p \in Pages /\ ~node[p].leaf /\ c \in ToSet(node[p].ch)
        BY <1>5, <1>9, <2>1, <3>2
      <4>2. c \in Pages /\ c # l /\ node[c].parent = p /\ c # r
        BY <1>4, <1>5, <4>1
      <4>. QED
        BY <1>5, <1>9, <4>2
    <3>. QED
      BY <3>1, <3>2
  <2>. QED
    BY <2>1 DEF Linked
<1>13. Named'
  <2>1. ASSUME NEW c \in Pages', c # id
        PROVE  /\ node'[c].parent \in Pages' /\ ~node'[node'[c].parent].leaf
               /\ c \in ToSet(node'[node'[c].parent].ch)
    <3>1. c \in Pages
      BY <1>5, <2>1
    <3>2. CASE c \in {l, r}
      BY <1>5, <1>7, <1>8, <1>9, <3>2
    <3>3. CASE c \notin {l, r}
      <4>1. PICK q : q = node[c].parent
        OBVIOUS
      <4>2. q \in Pages /\ ~node[q].leaf /\ c \in ToSet(node[q].ch)
        BY <1>1, <1>3, <1>4, <3>1, <3>3, <4>1 DEF Shape, Named
      <4>3. q \in Pages' /\ ~node'[q].leaf /\ c \in ToSet(node'[q].ch)
        BY <1>5, <1>9, <4>2
      <4>4. node'[c].parent = q
        BY <1>9, <3>1, <3>3, <4>1
      <4>. QED
        BY <4>3, <4>4
    <3>. QED
      BY <3>2, <3>3
  <2>. QED
    BY <1>1, <1>i, <2>1 DEF Named
<1>14. Waiting'
  BY <1>1 DEF Waiting
<1> DEFINE ht2 == [ht EXCEPT ![id] = h + 1]
           at2 == [at EXCEPT ![h + 1] = [x \in Int |-> id]]
<1>H. /\ ht \in [PageIds -> Nat] /\ h \in Nat /\ ht[root] = h /\ h + 2 <= pageCnt
      /\ \A p \in Pages : (node[p].leaf <=> ht[p] = 0) /\ ht[p] <= h
      /\ \A p \in Pages : ~node[p].leaf => \A c \in ToSet(node[p].ch) : ht[c] + 1 = ht[p]
      /\ ht[l] = h /\ ht[r] = h
  BY <1>1, <1>2, <1>3 DEF Heights
<1>15. ht2[id] = h + 1 /\ (\A p \in Pages : ht2[p] = ht[p]) /\ ht2 \in [PageIds -> Nat]
  BY <1>5, <1>H
<1>O. /\ at \in [Nat -> [Int -> PageIds]]
      /\ \A d \in 0 .. h : \A x \in Int : at[d][x] \in Pages /\ ht[at[d][x]] = d
      /\ \A x \in Int : at[h][x] = IF x >= key THEN r ELSE l
      /\ \A p \in Pages : \A i \in 1 .. Len(node[p].keys) : at[ht[p]][node[p].keys[i]] = p
  BY <1>1, <1>2, <1>3 DEF Owners, Leads
<1>16. /\ at2 \in [Nat -> [Int -> PageIds]]
       /\ \A d \in Nat : d # h + 1 => at2[d] = at[d]
       /\ \A x \in Int : at2[h + 1][x] = id
  <2>1. PICK top : top = [x \in Int |-> id]
    OBVIOUS
  <2>2. top \in [Int -> PageIds] /\ \A x \in Int : top[x] = id
    BY <2>1
  <2>3. at2 = [at EXCEPT ![h + 1] = top] /\ h + 1 \in Nat
    BY <1>H, <2>1
  <2>. QED
    BY <1>O, <2>2, <2>3
<1> HIDE DEF ht2, at2
<1>17. Heights(ht2, h + 1)'
  <2>1. \A p \in Pages' : (node'[p].leaf <=> ht2[p] = 0) /\ ht2[p] <= h + 1
    <3>1. \A p \in Pages : ht[p] <= h /\ ht[p] \in Nat
      BY <1>5, <1>H
    <3>2. ASSUME NEW p \in Pages PROVE (node'[p].leaf <=> ht2[p] = 0) /\ ht2[p] <= h + 1
      <4>1. ht2[p] = ht[p] /\ ht[p] <= h /\ ht[p] \in Nat /\ h \in Nat
        BY <1>15, <1>H, <3>1
      <4>2. ht2[p] <= h + 1
        BY <4>1
      <4>3. node'[p].leaf <=> ht[p] = 0
        BY <1>9, <1>H
      <4>. QED
        BY <4>1, <4>2, <4>3
    <3>3. ~node'[id].leaf /\ ht2[id] # 0 /\ ht2[id] <= h + 1
      BY <1>7, <1>8, <1>15, <1>H
    <3>. QED
      BY <1>5, <3>2, <3>3
  <2>2. ASSUME NEW p \in Pages', ~node'[p].leaf, NEW c \in ToSet(node'[p].ch)
        PROVE  ht2[c] + 1 = ht2[p]
    <3>1. CASE p = id
      BY <1>4, <1>7, <1>8, <1>15, <1>H, <2>2, <3>1
    <3>2. CASE p # id
      <4>1. p \in Pages /\ ~node[p].leaf /\ c \in ToSet(node[p].ch)
        BY <1>5, <1>9, <2>2, <3>2
      <4>2. c \in Pages /\ ht[c] + 1 = ht[p]
        BY <1>5, <1>H, <4>1
      <4>. QED
        BY <1>15, <4>1, <4>2
    <3>. QED
      BY <3>1, <3>2
  <2>3. ht2[root'] = h + 1 /\ (h + 1) + 2 <= pageCnt' /\ h + 1 \in Nat
    BY <1>1, <1>5, <1>15, <1>H, <1>i
  <2>. QED
    BY <1>1, <1>15, <2>1, <2>2, <2>3 DEF Heights
<1>18. Owners(at2, ht2, h + 1)'
  <2>1. ASSUME NEW d \in 0 .. h + 1, NEW x \in Int
        PROVE  at2[d][x] \in Pages' /\ ht2[at2[d][x]] = d
    <3>1. CASE d = h + 1
      BY <1>5, <1>15, <1>16, <3>1
    <3>2. CASE d # h + 1
      <4>1. d \in 0 .. h /\ d \in Nat
        BY <1>H, <3>2
      <4>2. at[d][x] \in Pages /\ ht[at[d][x]] = d
        BY <1>O, <4>1
      <4>3. at2[d] = at[d]
        BY <1>16, <3>2, <4>1
      <4>4. ht2[at[d][x]] = d /\ at[d][x] \in Pages'
        BY <1>5, <1>15, <4>2
      <4>. QED
        BY <4>3, <4>4
    <3>. QED
      BY <3>1, <3>2
  <2>2. \A x \in Int : Leads(root, x, at2[h + 1][x])'
    BY <1>1, <1>16, <1>i DEF Leads
  <2>3. ASSUME NEW d \in 1 .. h + 1, NEW x \in Int, NEW i, Gap(node'[at2[d][x]].keys, x, i)
        PROVE  at2[d - 1][x] = node'[at2[d][x]].ch[i]
    <3>1. CASE d = h + 1
      <4>1. d - 1 = h /\ h \in Nat /\ h # h + 1
        BY <1>H, <3>1
      <4>2. at2[d][x] = id /\ Gap(m.keys, x, i)
        BY <1>8, <1>16, <2>3, <3>1
      <4>3. m.ch[i] = IF x >= key THEN r ELSE l
        BY <1>7, <4>2
      <4>4. at2[d - 1][x] = IF x >= key THEN r ELSE l
        BY <1>16, <1>O, <4>1
      <4>. QED
        BY <1>8, <4>2, <4>3, <4>4
    <3>2. CASE d # h + 1
      <4>1. d \in 1 .. h /\ d \in 0 .. h /\ d \in Nat /\ d - 1 \in Nat /\ d - 1 # h + 1
        BY <1>H, <3>2
      <4>2. PICK q : q = at[d][x]
        OBVIOUS
      <4>3. q \in Pages /\ q = at2[d][x]
        BY <1>16, <1>O, <3>2, <4>1, <4>2
      <4>4. q # Parent
        BY <1>3, <1>4, <1>5, <4>3 DEF Parent
      <4>5. Gap(node[q].keys, x, i)
        BY <1>9, <2>3, <4>3
      <4>6. Direct(at, ht, d, x, q, i)
        BY <1>1, <1>2, <4>1, <4>2, <4>4, <4>5, LeadsElsewhere
      <4>7. at[d - 1][x] = node[q].ch[i]
        BY <4>6 DEF Direct
      <4>8. at2[d - 1][x] = at[d - 1][x]
        BY <1>16, <4>1
      <4>9. node'[q].ch = node[q].ch
        BY <1>9, <4>3
      <4>. QED
        BY <4>3, <4>7, <4>8, <4>9
    <3>. QED
      BY <3>1, <3>2
  <2>4. \A d \in 1 .. h + 1 : \A x \in Int : \A i :
          Gap(node'[at2[d][x]].keys, x, i) => Leads(node[at2[d][x]].ch[i], x, at2[d - 1][x])'
    <3> SUFFICES ASSUME NEW d \in 1 .. h + 1, NEW x \in Int, NEW i,
                        Gap(node'[at2[d][x]].keys, x, i)
                 PROVE  Leads(node[at2[d][x]].ch[i], x, at2[d - 1][x])'
      OBVIOUS
    <3>1. at2[d - 1][x] = node'[at2[d][x]].ch[i]
      BY <2>3
    <3>. QED
      BY <1>1, <3>1 DEF Leads
  <2>5. ASSUME NEW p \in Pages', NEW i \in 1 .. Len(node'[p].keys)
        PROVE  at2[ht2[p]][node'[p].keys[i]] = p
    <3>1. CASE p = id
      <4>0. i \in 1 .. 1
        BY <1>7, <1>8, <3>1
      <4>1. i = 1 /\ node'[p].keys[i] = key /\ ht2[p] = h + 1
        BY <1>7, <1>8, <1>15, <3>1, <4>0
      <4>. QED
        BY <1>4, <1>16, <3>1, <4>1
    <3>2. CASE p # id
      <4>1. /\ p \in Pages /\ node'[p].keys = node[p].keys /\ ht2[p] = ht[p]
            /\ ht[p] \in Nat /\ ht[p] <= h
        BY <1>5, <1>9, <1>15, <1>H, <3>2
      <4>2. ht[p] # h + 1
        BY <1>H, <4>1
      <4>3. at[ht[p]][node[p].keys[i]] = p
        BY <1>O, <4>1
      <4>4. at2[ht[p]] = at[ht[p]]
        BY <1>16, <4>1, <4>2
      <4>. QED
        BY <4>1, <4>3, <4>4
    <3>. QED
      BY <3>1, <3>2
  <2>6. Chained(at2[0])'
    <3>1. PICK own : own = at[0]
      OBVIOUS
    <3>2. \A x \in Int : own[x] \in Pages
      <4>1. 0 \in 0 .. h
        BY <1>H
      <4>. QED
        BY <1>O, <3>1, <4>1
    <3>3. \A p \in Pages : node'[p].next = node[p].next
      <4>1. ASSUME NEW p \in Pages, p # l, p # r PROVE node'[p] = node[p]
        BY <1>5, <1>8, <4>1
      <4>. QED
        BY <1>6, <1>8, <4>1
    <3>4. Chained(own)
      BY <1>2, <3>1 DEF Owners
    <3>5. Chained(own)'
      BY <3>2, <3>3, <3>4, ChainKept
    <3>6. at2[0] = own
      BY <1>16, <1>H, <3>1
    <3>. QED
      BY <3>5, <3>6
  <2>. QED
    BY <1>1, <1>16, <2>1, <2>2, <2>4, <2>5, <2>6 DEF Owners
<1>f. FollowsFrom(at, h)
  <2>1. ASSUME NEW d \in 0 .. h, NEW x \in Int PROVE at2[d][x] = at[d][x]
    <3>1. d \in Nat /\ d # h + 1
      BY <1>H
    <3>. QED
      BY <1>16, <3>1
  <2>2. h \in Nat /\ h + 1 \in Nat /\ h <= h + 1 /\ 0 \in Int
    BY <1>H
  <2>3. Inherits(at, h, at2, h + 1)
    BY <2>1, <2>2, Inherited
  <2>. QED
    BY <1>2, <1>17, <1>18, <2>3 DEF FollowsFrom
<1>inv. Inv'
  BY <1>10, <1>11, <1>12, <1>13, <1>14, <1>17, <1>18 DEF Inv, Shape
<1>kept. LeavesKept
  <2>1. \A p \in Pages' : node'[p].leaf => p \in Pages /\ node[p].leaf
    BY <1>5, <1>7, <1>8, <1>9
  <2>. QED
    BY <1>5, <1>9, <2>1 DEF LeavesKept
<1>. QED
  BY <1>f, <1>inv, <1>kept

\* The two halves of an internal page share out its keys but one, its
\* children, and the descents through it.
SharedOut(l, r, temp, mid) ==
  /\ mid \in Int
  /\ ToSet(l.ch) \cup ToSet(r.ch) = ToSet(temp.ch)
  /\ ToSet(l.ch) \cap ToSet(r.ch) = {}
  /\ \A j \in 1 .. Len(l.keys) :
       /\ l.keys[j] \in Int /\ l.keys[j] < mid
       /\ \E i \in 1 .. Len(temp.keys) : l.keys[j] = temp.keys[i]
  /\ \A j \in 1 .. Len(r.keys) :
       /\ r.keys[j] \in Int /\ mid <= r.keys[j]
       /\ \E i \in 1 .. Len(temp.keys) : r.keys[j] = temp.keys[i]
  /\ \E i \in 1 .. Len(temp.keys) : mid = temp.keys[i]
  /\ \A x \in Int : x < mid => \A i : Gap(l.keys, x, i) =>
       \E i2 : Gap(temp.keys, x, i2) /\ l.ch[i] = temp.ch[i2]
  /\ \A x \in Int : mid <= x => \A i : Gap(r.keys, x, i) =>
       \E i2 : Gap(temp.keys, x, i2) /\ r.ch[i] = temp.ch[i2]

LEMMA HalvesShare ==
  ASSUME NEW full, NEW temp \in Nodes, Sorted(temp.keys), Distinct(temp.ch),
         Len(temp.keys) = Order, Len(temp.ch) = Order + 1,
         NEW l, LeftInternal(l, full, temp), NEW r, RightInternal(r, full, temp),
         NEW mid, mid = temp.keys[split_point]
  PROVE  SharedOut(l, r, temp, mid)
<1>o. /\ split_point \in Nat /\ Order \in Nat /\ 2 <= split_point
      /\ split_point <= Order - 2 /\ 0 \in Nat
  BY OrderFacts
<1>1. /\ Len(l.keys) = split_point - 1 /\ Part(l.keys, temp.keys, 0)
      /\ Len(l.ch) = split_point /\ Part(l.ch, temp.ch, 0)
      /\ Len(r.keys) = Order - split_point /\ Part(r.keys, temp.keys, split_point)
      /\ Len(r.ch) = Order + 1 - split_point /\ Part(r.ch, temp.ch, split_point)
      /\ l \in Nodes /\ r \in Nodes
  BY DEF LeftInternal, RightInternal
<1>2. PICK tk \in Seq(Int), lk \in Seq(Int), rk \in Seq(Int) :
        tk = temp.keys /\ lk = l.keys /\ rk = r.keys
  BY <1>1, NodeFields, KeysAreInts
<1>3. PICK tc \in Seq(Entries), lc \in Seq(Entries), rc \in Seq(Entries) :
        tc = temp.ch /\ lc = l.ch /\ rc = r.ch
  BY <1>1, NodeFields
<1>4. /\ Len(tk) = Order /\ Len(lk) = split_point - 1 /\ Len(rk) = Order - split_point
      /\ Len(tc) = Order + 1 /\ Len(lc) = split_point /\ Len(rc) = Order + 1 - split_point
      /\ Part(lk, tk, 0) /\ Part(rk, tk, split_point)
      /\ Part(lc, tc, 0) /\ Part(rc, tc, split_point)
      /\ Sorted(tk) /\ Distinct(tc) /\ mid = tk[split_point]
  BY <1>1, <1>2, <1>3
<1>e. /\ \A j \in 1 .. Len(tk) : tk[j] \in Int
      /\ \A j \in 1 .. Len(lk) : lk[j] \in Int
      /\ \A j \in 1 .. Len(rk) : rk[j] \in Int
  OBVIOUS
<1>5. mid \in Int /\ split_point \in 1 .. Len(tk)
  <2>1. split_point \in 1 .. Len(tk)
    <3>1. Len(tk) = Order
      BY <1>4
    <3>. QED
      BY <1>o, <3>1
  <2>. QED
    BY <1>4, <1>e, <2>1
<1>6. ToSet(lc) \cup ToSet(rc) = ToSet(tc) /\ ToSet(lc) \cap ToSet(rc) = {}
  <2>1. Len(lc) = split_point /\ Len(tc) = split_point + Len(rc)
    <3>1. Len(lc) = split_point /\ Len(tc) = Order + 1 /\ Len(rc) = Order + 1 - split_point
      BY <1>4
    <3>. QED
      BY <1>o, <3>1
  <2>. QED
    BY <1>3, <1>4, <1>o, <2>1, PartsShare
<1>7. ASSUME NEW j \in 1 .. Len(lk)
      PROVE  lk[j] \in Int /\ lk[j] < mid /\ \E i \in 1 .. Len(tk) : lk[j] = tk[i]
  <2>1. j \in 1 .. Len(tk) /\ j < split_point /\ j + 0 = j
    BY <1>4, <1>o
  <2>2. lk[j] = tk[j + 0]
    BY <1>4 DEF Part
  <2>3. tk[j] < tk[split_point]
    BY <1>4, <1>5, <2>1 DEF Sorted
  <2>4. lk[j] = tk[j]
    BY <2>1, <2>2
  <2>5. lk[j] < mid
    BY <1>4, <2>3, <2>4
  <2>. QED
    BY <1>e, <2>1, <2>4, <2>5
<1>8. ASSUME NEW j \in 1 .. Len(rk)
      PROVE  rk[j] \in Int /\ mid <= rk[j] /\ \E i \in 1 .. Len(tk) : rk[j] = tk[i]
  <2>0. j \in 1 .. Order - split_point
    BY <1>4
  <2>1. PICK i \in 1 .. Order : i = j + split_point /\ split_point < i
    BY <1>o, <2>0
  <2>2. rk[j] = tk[i]
    BY <1>4, <2>1 DEF Part
  <2>3. tk[split_point] < tk[i]
    BY <1>4, <1>5, <2>1 DEF Sorted
  <2>4. rk[j] \in Int
    BY <1>e
  <2>5. mid <= rk[j]
    <3>1. mid = tk[split_point]
      BY <1>4
    <3>2. PICK y \in Int : y = rk[j]
      BY <2>4
    <3>3. mid < y /\ mid \in Int
      BY <1>5, <2>2, <2>3, <3>1, <3>2
    <3>4. mid <= y
      BY <3>3, LessOrEqual
    <3>. QED
      BY <3>2, <3>4
  <2>. QED
    BY <1>4, <2>1, <2>2, <2>4, <2>5
<1>9. ASSUME NEW x \in Int, x < mid, NEW i, Gap(lk, x, i)
      PROVE  \E i2 : Gap(tk, x, i2) /\ lc[i] = tc[i2]
  <2>1. Len(lk) + 1 \in 1 .. Len(tk) /\ x < tk[Len(lk) + 1]
    <3>1. Len(lk) + 1 = split_point
      BY <1>4, <1>o
    <3>. QED
      BY <1>4, <1>5, <1>9, <3>1
  <2>2. Gap(tk, x, i)
    BY <1>2, <1>4, <1>9, <2>1, GapLeft
  <2>3. i \in 1 .. Len(lc) /\ i + 0 = i
    BY <1>4, <1>9, <1>o DEF Gap
  <2>4. lc[i] = tc[i]
    BY <1>4, <2>3 DEF Part
  <2>. QED
    BY <2>2, <2>4
<1>10. ASSUME NEW x \in Int, mid <= x, NEW i, Gap(rk, x, i)
       PROVE  \E i2 : Gap(tk, x, i2) /\ rc[i] = tc[i2]
  <2>1. Len(rk) = Len(tk) - split_point /\ tk[split_point] <= x
    BY <1>4, <1>10, <1>o
  <2>2. Gap(tk, x, i + split_point)
    BY <1>2, <1>4, <1>5, <1>10, <2>1, GapRight
  <2>3. i \in 1 .. Len(rc)
    <3>1. i \in 1 .. Len(rk) + 1
      BY <1>10 DEF Gap
    <3>2. Len(rk) = Order - split_point /\ Len(rc) = Order + 1 - split_point
      BY <1>4
    <3>. QED
      BY <1>o, <3>1, <3>2
  <2>4. rc[i] = tc[i + split_point]
    BY <1>4, <2>3 DEF Part
  <2>. QED
    BY <2>2, <2>4
<1>11. \E i \in 1 .. Len(tk) : mid = tk[i]
  BY <1>4, <1>5
<1>12. /\ \A j \in 1 .. Len(l.keys) :
            /\ l.keys[j] \in Int /\ l.keys[j] < mid
            /\ \E i \in 1 .. Len(temp.keys) : l.keys[j] = temp.keys[i]
       /\ \A j \in 1 .. Len(r.keys) :
            /\ r.keys[j] \in Int /\ mid <= r.keys[j]
            /\ \E i \in 1 .. Len(temp.keys) : r.keys[j] = temp.keys[i]
       /\ \E i \in 1 .. Len(temp.keys) : mid = temp.keys[i]
  BY <1>2, <1>7, <1>8, <1>11
<1>13. /\ \A x \in Int : x < mid => \A i : Gap(l.keys, x, i) =>
            \E i2 : Gap(temp.keys, x, i2) /\ l.ch[i] = temp.ch[i2]
       /\ \A x \in Int : mid <= x => \A i : Gap(r.keys, x, i) =>
            \E i2 : Gap(temp.keys, x, i2) /\ r.ch[i] = temp.ch[i2]
  BY <1>2, <1>3, <1>9, <1>10
<1>14. ToSet(l.ch) \cup ToSet(r.ch) = ToSet(temp.ch) /\ ToSet(l.ch) \cap ToSet(r.ch) = {}
  BY <1>3, <1>6
<1>. QED
  BY <1>5, <1>12, <1>13, <1>14 DEF SharedOut

HalvesFilled(l, r, full, b) ==
  /\ NodeOK(l, b) /\ HalfFull(l) /\ NodeOK(r, FALSE)
  /\ ~l.leaf /\ ~r.leaf /\ l.parent = full.parent /\ r.parent = full.parent

LEMMA HalvesOK ==
  ASSUME NEW full, NEW b, NodeOK(full, b), NEW temp \in Nodes, Sorted(temp.keys),
         Distinct(temp.ch), Len(temp.keys) = Order, Len(temp.ch) = Order + 1,
         NEW l, LeftInternal(l, full, temp), NEW r, RightInternal(r, full, temp)
  PROVE  HalvesFilled(l, r, full, b)
<1>o. /\ split_point \in Nat /\ Order \in Nat /\ 2 <= split_point
      /\ split_point <= Order - 2 /\ split_point <= Order - split_point /\ 0 \in Nat
  BY OrderFacts
<1>1. /\ Len(l.keys) = split_point - 1 /\ Part(l.keys, temp.keys, 0)
      /\ Len(l.ch) = split_point /\ Part(l.ch, temp.ch, 0)
      /\ Len(r.keys) = Order - split_point /\ Part(r.keys, temp.keys, split_point)
      /\ Len(r.ch) = Order + 1 - split_point /\ Part(r.ch, temp.ch, split_point)
      /\ l \in Nodes /\ r \in Nodes /\ ~l.leaf /\ ~r.leaf
      /\ l.rootBit = full.rootBit /\ ~r.rootBit
      /\ l.parent = full.parent /\ r.parent = full.parent
  BY DEF LeftInternal, RightInternal
<1>2. /\ temp.keys \in Seq(Int) /\ l.keys \in Seq(Int) /\ r.keys \in Seq(Int)
      /\ temp.ch \in Seq(Entries) /\ l.ch \in Seq(Entries) /\ r.ch \in Seq(Entries)
  BY <1>1, NodeFields, KeysAreInts
<1>3. Sorted(l.keys) /\ Sorted(r.keys)
  BY <1>1, <1>2, <1>o, PartSorted
<1>4. Distinct(l.ch) /\ Distinct(r.ch)
  <2>1. Len(l.ch) = split_point /\ Len(temp.ch) = split_point + Len(r.ch)
    BY <1>1, <1>o
  <2>. QED
    BY <1>1, <1>2, <1>o, <2>1, PartsShare
<1>5. /\ 1 <= split_point - 1 /\ split_point - 1 <= Order - 1
      /\ 1 <= Order - split_point /\ Order - split_point <= Order - 1
      /\ split_point - 1 <= Order - split_point
      /\ split_point = (split_point - 1) + 1
      /\ Order + 1 - split_point = (Order - split_point) + 1
  BY <1>o
<1>6. HalfFull(l) /\ HalfFull(r)
  BY <1>1, <1>5, <1>o DEF HalfFull
<1>7. l.rootBit <=> b
  BY <1>1 DEF NodeOK
<1>8. NodeOK(l, b)
  BY <1>1, <1>3, <1>4, <1>5, <1>6, <1>7 DEF NodeOK
<1>9. NodeOK(r, FALSE)
  BY <1>1, <1>3, <1>4, <1>5, <1>6 DEF NodeOK
<1>. QED
  BY <1>1, <1>6, <1>8, <1>9 DEF HalvesFilled

LEMMA ParentIsFullStep ==
  ASSUME Inv, up # NoCall, ParentIsFull, UNCHANGED last
  PROVE  Inv' /\ Follows /\ LeavesKept
<1>1. /\ Shape /\ Typed /\ root # ERROR_PAGE /\ up.l # root /\ is_full(node[Parent])
      /\ pageCnt \in PageIds /\ root' = root /\ pageCnt' = pageCnt + 1
      /\ last' \in (Keys \X (Records \cup {ERROR_PAGE})) \cup {NoCall}
  BY DEF Inv, Shape, ParentIsFull, Typed, Rooted
<1>w. \E at, ht, h : Heights(ht, h) /\ Owners(at, ht, h)
  BY <1>1 DEF Inv
<1>2. SUFFICES ASSUME NEW at, NEW ht, NEW h, Heights(ht, h), Owners(at, ht, h)
               PROVE  Inv' /\ FollowsFrom(at, h) /\ LeavesKept
  BY <1>w DEF Follows
<1>i. PICK id \in PageIds : id = pageCnt
  BY <1>1
<1>3. PICK P, pl, pr : P = Parent /\ pl = up.l /\ pr = up.r
  OBVIOUS
<1>n. PICK n : n = node[P]
  OBVIOUS
<1>t. PICK temp : temp = InsertedRightOf(n, up.l, up.key, up.r)
  OBVIOUS
<1>4. /\ P \in Pages /\ ~n.leaf /\ NodeOK(n, P = root) /\ pl \in ToSet(n.ch)
      /\ pr \notin ToSet(n.ch) /\ pl \in Pages /\ pr \in Pages /\ pl # pr /\ pr # root
      /\ ht[pr] + 1 = ht[P] /\ ht[P] \in 1 .. h /\ node[pr].parent = P
  BY <1>1, <1>2, <1>3, <1>n, ParentIsPage
<1>5. /\ temp \in Nodes /\ SameHeader(temp, n) /\ ~temp.leaf
      /\ temp.keys \in Seq(Int) /\ temp.ch \in Seq(Entries)
      /\ Sorted(temp.keys) /\ Distinct(temp.ch)
      /\ Len(temp.keys) = Len(n.keys) + 1 /\ Len(temp.ch) = Len(temp.keys) + 1
      /\ ToSet(temp.ch) = ToSet(n.ch) \cup {pr}
      /\ \A j \in 1 .. Len(temp.keys) : at[ht[P]][temp.keys[j]] = P
      /\ \A x \in Int : at[ht[P]][x] = P =>
           \A i : Gap(temp.keys, x, i) => at[ht[P] - 1][x] = temp.ch[i]
  BY <1>1, <1>2, <1>3, <1>n, <1>t, ParentWidened
<1>6. Len(temp.keys) = Order /\ Len(temp.ch) = Order + 1
  <2>1. Len(n.keys) \in Nat /\ Len(n.keys) <= Order - 1 /\ Order \in Nat
    BY <1>4, NodeSeqs, OrderFacts
  <2>2. Len(n.keys) >= Order - 1
    BY <1>1, <1>3, <1>n DEF is_full
  <2>. QED
    BY <1>5, <2>1, <2>2
<1>s. PICK stale \in StaleNext :
        LET halves == InternalHalves(node[Parent], up.l, up.key, up.r, stale)
            divided == [node EXCEPT ![Parent] = halves.left, ![pageCnt] = halves.right]
        IN  /\ node' = [p \in PageIds |->
                          IF p \in ToSet(halves.right.ch)
                          THEN [divided[p] EXCEPT !.parent = pageCnt]
                          ELSE divided[p]]
            /\ up' = [l |-> Parent, key |-> halves.key, r |-> pageCnt]
  BY DEF ParentIsFull
<1>v. PICK v : v = InternalHalves(node[Parent], up.l, up.key, up.r, stale)
  OBVIOUS
<1>lr. PICK l, r, mid : l = v.left /\ r = v.right /\ mid = v.key
  OBVIOUS
<1>d. PICK divided : divided = [node EXCEPT ![Parent] = l, ![pageCnt] = r]
  OBVIOUS
<1>h. /\ divided = [node EXCEPT ![P] = l, ![id] = r]
      /\ node' = [p \in PageIds |-> node'[p]]
      /\ \A p \in PageIds : node'[p] = IF p \in ToSet(r.ch) THEN Moved(divided[p], id)
                                       ELSE divided[p]
      /\ up' = [l |-> P, key |-> mid, r |-> id]
  <2>1. /\ node' = [p \in PageIds |-> IF p \in ToSet(r.ch)
                                      THEN [divided[p] EXCEPT !.parent = pageCnt]
                                      ELSE divided[p]]
        /\ up' = [l |-> Parent, key |-> mid, r |-> pageCnt]
    BY <1>s, <1>v, <1>lr, <1>d
  <2>2. \A p \in PageIds : node'[p] = IF p \in ToSet(r.ch)
                                      THEN [divided[p] EXCEPT !.parent = pageCnt]
                                      ELSE divided[p]
    BY <2>1
  <2>3. \A p \in PageIds : node'[p] = IF p \in ToSet(r.ch) THEN Moved(divided[p], id)
                                      ELSE divided[p]
    BY <1>i, <2>2 DEF Moved
  <2>4. node' = [p \in PageIds |-> node'[p]]
    BY <2>1
  <2>. QED
    BY <1>3, <1>d, <1>i, <2>1, <2>3, <2>4
<1>7. LeftInternal(l, n, temp) /\ RightInternal(r, n, temp) /\ mid = temp.keys[split_point]
      /\ mid \in Keys
  <2>1. PICK key, ul, ur : key = up.key /\ ul = up.l /\ ur = up.r
    OBVIOUS
  <2>2. temp = InsertedRightOf(n, ul, key, ur) /\ n \in Nodes
    BY <1>4, <1>t, <2>1 DEF NodeOK
  <2>3. LET w == InternalHalves(n, ul, key, ur, stale)
        IN  /\ LeftInternal(w.left, n, temp) /\ RightInternal(w.right, n, temp)
            /\ w.key = temp.keys[split_point] /\ w.key \in Keys
    BY <1>4, <1>5, <1>6, <2>2, InternalDivided
  <2>4. v = InternalHalves(n, ul, key, ur, stale)
    BY <1>3, <1>n, <1>v, <2>1
  <2>. QED
    BY <1>lr, <2>3, <2>4
<1>8. SharedOut(l, r, temp, mid)
  BY <1>5, <1>6, <1>7, HalvesShare
<1>9. /\ NodeOK(l, P = root) /\ HalfFull(l) /\ NodeOK(r, FALSE)
      /\ ~l.leaf /\ ~r.leaf /\ l.parent = n.parent /\ r.parent = n.parent
      /\ l \in Nodes /\ r \in Nodes
  <2>1. PICK b : b = (P = root)
    OBVIOUS
  <2>2. HalvesFilled(l, r, n, b)
    BY <1>4, <1>5, <1>6, <1>7, <2>1, HalvesOK
  <2>. QED
    BY <2>1, <2>2 DEF HalvesFilled, NodeOK
<1>10. /\ ToSet(l.ch) \cup ToSet(r.ch) = ToSet(n.ch) \cup {pr}
       /\ ToSet(l.ch) \cap ToSet(r.ch) = {}
  BY <1>5, <1>8 DEF SharedOut
<1>11. /\ Pages \subseteq PageIds /\ Pages' = Pages \cup {id} /\ id \notin Pages
       /\ \A p \in Pages : NodeOK(node[p], p = root) /\ node[p] \in Nodes
       /\ root \in Pages /\ node \in [PageIds -> Nodes \cup {NoNode}]
       /\ ERROR_PAGE \notin Pages /\ pageCnt \in Nat
       /\ \A p \in Pages : ~node[p].leaf =>
            \A c \in ToSet(node[p].ch) : c \in Pages /\ c # root /\ node[c].parent = p
  <2>1. /\ Pages \subseteq PageIds /\ id \notin Pages /\ pageCnt \in Nat
    BY <1>1, <1>i, PagesKnown
  <2>2. Pages' = Pages \cup {id}
    BY <1>1, <1>i, <2>1 DEF Pages, PageIds
  <2>. QED
    BY <1>1, <2>1, <2>2, ShapeFacts
<1>H. /\ ht \in [PageIds -> Nat] /\ h \in Nat /\ ht[root] = h /\ h + 2 <= pageCnt
      /\ \A p \in Pages : (node[p].leaf <=> ht[p] = 0) /\ ht[p] <= h
      /\ \A p \in Pages : ~node[p].leaf => \A c \in ToSet(node[p].ch) : ht[c] + 1 = ht[p]
  BY <1>1, <1>2 DEF Heights
\* The children of both halves.
<1>12. \A c \in ToSet(n.ch) \cup {pr} :
         c \in Pages /\ c # root /\ node[c].parent = P /\ ht[c] + 1 = ht[P] /\ c # P /\ c # id
  <2>1. ASSUME NEW c \in ToSet(n.ch) \cup {pr}
        PROVE  c \in Pages /\ c # root /\ node[c].parent = P /\ ht[c] + 1 = ht[P]
    BY <1>4, <1>11, <1>H, <1>n
  <2>2. ASSUME NEW c \in ToSet(n.ch) \cup {pr} PROVE c # P
    BY <1>4, <2>1
  <2>. QED
    BY <1>11, <2>1, <2>2
<1>13. /\ node'[P] = l /\ node'[id] = r
       /\ \A p \in Pages : p # P /\ p \in ToSet(r.ch) => node'[p] = Moved(node[p], id)
       /\ \A p \in PageIds : p # P /\ p # id /\ p \notin ToSet(r.ch) => node'[p] = node[p]
       /\ node' \in [PageIds -> Nodes \cup {NoNode}]
  <2>1. P \in PageIds /\ P # id /\ P \notin ToSet(r.ch) /\ id \notin ToSet(r.ch)
    BY <1>4, <1>10, <1>11, <1>12
  <2>2. /\ divided[P] = l /\ divided[id] = r
        /\ \A p \in PageIds : p # P /\ p # id => divided[p] = node[p]
        /\ divided \in [PageIds -> Nodes \cup {NoNode}]
    BY <1>9, <1>11, <1>h, <2>1
  <2>3. \A p \in PageIds : node'[p] = IF p \in ToSet(r.ch) THEN Moved(divided[p], id)
                                      ELSE divided[p]
    BY <1>h
  <2>4. \A p \in ToSet(r.ch) : divided[p] = node[p] /\ node[p] \in Nodes /\ p \in PageIds
    BY <1>10, <1>11, <1>12, <2>1, <2>2
  <2>5. \A p \in ToSet(r.ch) : Moved(divided[p], id) \in Nodes
    BY <2>4, PageMoved
  <2>6. node' \in [PageIds -> Nodes \cup {NoNode}]
    <3>1. \A p \in PageIds : node'[p] \in Nodes \cup {NoNode}
      BY <2>2, <2>3, <2>5
    <3>2. node' = [p \in PageIds |-> node'[p]]
      BY <1>h
    <3>. QED
      BY <3>1, <3>2
  <2>. QED
    BY <1>11, <2>1, <2>2, <2>3, <2>4, <2>6

<1>14. /\ \A p \in Pages : p # P => /\ (node'[p].leaf <=> node[p].leaf)
                                    /\ node'[p].keys = node[p].keys
                                    /\ node'[p].ch = node[p].ch
                                    /\ node'[p].next = node[p].next
                                    /\ NodeOK(node'[p], p = root)
       /\ \A p \in Pages : p \notin ToSet(r.ch) => node'[p].parent = node[p].parent
       /\ \A p \in ToSet(r.ch) : node'[p].parent = id
       /\ ~node'[P].leaf
  <2>1. ASSUME NEW p \in Pages, p # P, p \in ToSet(r.ch)
        PROVE  /\ (node'[p].leaf <=> node[p].leaf)
               /\ node'[p].keys = node[p].keys
               /\ node'[p].ch = node[p].ch
               /\ node'[p].next = node[p].next
               /\ NodeOK(node'[p], p = root)
               /\ node'[p].parent = id
    <3>1. node'[p] = Moved(node[p], id) /\ node[p] \in Nodes /\ NodeOK(node[p], p = root)
      BY <1>11, <1>13, <2>1
    <3>2. /\ node'[p] \in Nodes /\ node'[p].leaf = node[p].leaf
          /\ node'[p].rootBit = node[p].rootBit
          /\ node'[p].keys = node[p].keys /\ node'[p].ch = node[p].ch
          /\ node'[p].parent = id /\ node'[p].next = node[p].next
      BY <3>1, PageMoved
    <3>3. (node'[p].rootBit <=> p = root) /\ (p = root \/ HalfFull(node[p]))
      BY <3>1, <3>2 DEF NodeOK
    <3>4. NodeOK(node'[p], p = root)
      BY <3>1, <3>2, <3>3, NodeOKMoved
    <3>. QED
      BY <3>2, <3>4
  <2>2. ASSUME NEW p \in Pages, p # P, p \notin ToSet(r.ch)
        PROVE  node'[p] = node[p]
    BY <1>11, <1>13, <2>2
  <2>3. \A p \in ToSet(r.ch) : p \in Pages /\ p # P
    BY <1>10, <1>12
  <2>4. node'[P].parent = node[P].parent /\ ~node'[P].leaf
    BY <1>9, <1>13, <1>n
  <2>. QED
    BY <1>11, <2>1, <2>2, <2>3, <2>4
<1>u. /\ up' # NoCall /\ up'.l = P /\ up'.key = mid /\ up'.r = id /\ up' \in Calls
  <2>1. up' = [l |-> P, key |-> mid, r |-> id]
    BY <1>h
  <2>2. up' \in Calls
    BY <1>4, <1>7, <1>11, <2>1 DEF Calls
  <2>. QED
    BY <2>1, <2>2, TreeAssumption
<1>15. Typed'
  <2>1. pageCnt' \in 1 .. MaxPage + 1
    BY <1>1, TreeAssumption DEF PageIds
  <2>2. ASSUME NEW p \in PageIds
        PROVE  IF p < pageCnt' THEN NodeOK(node'[p], p = root') ELSE node'[p] = NoNode
    <3>1. CASE p = id
      <4>1. id < pageCnt' /\ (id = root') = FALSE
        BY <1>1, <1>11, <1>i
      <4>. QED
        BY <1>9, <1>13, <3>1, <4>1
    <3>2. CASE p \in Pages
      <4>1. p < pageCnt'
        BY <1>1, <1>11, <1>i, <3>2, PagesKnown
      <4>2. NodeOK(node'[p], p = root)
        BY <1>9, <1>13, <1>14, <3>2
      <4>. QED
        BY <1>1, <4>1, <4>2
    <3>3. CASE p # id /\ p \notin Pages
      <4>1. ~(p < pageCnt) /\ ~(p < pageCnt')
        BY <1>1, <1>11, <1>i, <3>3, PagesKnown DEF PageIds
      <4>2. p # P /\ p \notin ToSet(r.ch)
        BY <1>4, <1>10, <1>12, <3>3
      <4>3. node'[p] = node[p] /\ node[p] = NoNode
        BY <1>1, <1>13, <3>3, <4>1, <4>2 DEF Typed
      <4>. QED
        BY <4>1, <4>3
    <3>. QED
      BY <3>1, <3>2, <3>3
  <2>. QED
    BY <1>1, <1>13, <1>u, <2>1, <2>2, TreeAssumption DEF Typed
<1>16. Rooted'
  <2>1. root \notin ToSet(r.ch)
    BY <1>10, <1>12
  <2>2. node'[root].parent = ERROR_PAGE
    BY <1>1, <1>11, <1>14, <2>1, ShapeFacts
  <2>. QED
    BY <1>1, <1>11, <2>2 DEF Rooted
<1>17. Linked'
  <2>1. ASSUME NEW p \in Pages', ~node'[p].leaf, NEW c \in ToSet(node'[p].ch)
        PROVE  c \in Pages' /\ node'[c].parent = p
    <3>1. CASE p = id
      <4>1. c \in ToSet(r.ch)
        BY <1>13, <2>1, <3>1
      <4>2. c \in Pages
        BY <1>10, <1>12, <4>1
      <4>. QED
        BY <1>11, <1>14, <3>1, <4>1, <4>2
    <3>2. CASE p = P
      <4>1. c \in ToSet(l.ch)
        BY <1>13, <2>1, <3>2
      <4>2. c \notin ToSet(r.ch) /\ c \in Pages /\ node[c].parent = P
        BY <1>10, <1>12, <4>1
      <4>. QED
        BY <1>11, <1>14, <3>2, <4>2
    <3>3. CASE p # id /\ p # P
      <4>1. p \in Pages /\ ~node[p].leaf /\ c \in ToSet(node[p].ch)
        BY <1>11, <1>14, <2>1, <3>3
      <4>2. c \in Pages /\ node[c].parent = p
        BY <1>11, <4>1
      <4>3. c \notin ToSet(r.ch)
        BY <1>10, <1>12, <3>3, <4>2
      <4>. QED
        BY <1>11, <1>14, <4>2, <4>3
    <3>. QED
      BY <3>1, <3>2, <3>3
  <2>. QED
    BY <2>1 DEF Linked
<1>18. Named'
  <2>1. ASSUME NEW c \in Pages', c # root, c # id
        PROVE  /\ node'[c].parent \in Pages' /\ ~node'[node'[c].parent].leaf
               /\ c \in ToSet(node'[node'[c].parent].ch)
    <3>1. c \in Pages
      BY <1>11, <2>1
    <3>2. CASE c \in ToSet(r.ch)
      BY <1>9, <1>11, <1>13, <1>14, <3>2
    <3>3. CASE c \in ToSet(l.ch)
      <4>1. c \notin ToSet(r.ch) /\ node[c].parent = P
        BY <1>10, <1>12, <3>3
      <4>2. node'[c].parent = P
        BY <1>14, <3>1, <4>1
      <4>3. P \in Pages' /\ ~node'[P].leaf /\ c \in ToSet(node'[P].ch)
        BY <1>4, <1>9, <1>11, <1>13, <3>3
      <4>. QED
        BY <4>2, <4>3
    <3>4. CASE c \notin ToSet(l.ch) /\ c \notin ToSet(r.ch)
      <4>1. PICK q : q = node[c].parent
        OBVIOUS
      <4>0. c \notin ToSet(n.ch) /\ c # pr
        BY <1>10, <3>4
      <4>2. q \in Pages /\ ~node[q].leaf /\ c \in ToSet(node[q].ch)
        BY <1>1, <1>3, <2>1, <3>1, <4>0, <4>1 DEF Shape, Named
      <4>3. q # P
        BY <1>n, <4>0, <4>2
      <4>4. q \in Pages' /\ ~node'[q].leaf /\ c \in ToSet(node'[q].ch)
        BY <1>11, <1>14, <4>2, <4>3
      <4>5. node'[c].parent = q
        BY <1>14, <3>1, <3>4, <4>1
      <4>. QED
        BY <4>4, <4>5
    <3>. QED
      BY <3>2, <3>3, <3>4
  <2>. QED
    BY <1>1, <1>u, <2>1 DEF Named
<1>19. Waiting'
  <2>1. ASSUME NEW p \in Pages', ~node'[p].leaf PROVE id \notin ToSet(node'[p].ch)
    <3>1. CASE p = id \/ p = P
      <4>1. id \notin ToSet(l.ch) /\ id \notin ToSet(r.ch)
        BY <1>10, <1>12
      <4>. QED
        BY <1>13, <3>1, <4>1
    <3>2. CASE p # id /\ p # P
      <4>1. p \in Pages /\ ~node[p].leaf /\ node'[p].ch = node[p].ch
        BY <1>11, <1>14, <2>1, <3>2
      <4>. QED
        BY <1>11, <4>1
    <3>. QED
      BY <3>1, <3>2
  <2>2. HalfFull(node'[P]) /\ node'[id].parent = node'[P].parent
    BY <1>9, <1>13
  <2>3. P \in Pages' /\ id \in Pages' /\ P # id /\ id # root'
    BY <1>1, <1>4, <1>11
  <2>. QED
    BY <1>u, <2>1, <2>2, <2>3 DEF Waiting
<1>hp. PICK hp \in 1 .. h : hp = ht[P] /\ hp \in Nat /\ hp \in 0 .. h
  BY <1>4, <1>H
<1> DEFINE low == [x \in Int |-> IF at[hp][x] = P /\ x >= mid THEN id ELSE at[hp][x]]
           at2 == [at EXCEPT ![hp] = low]
           ht2 == [ht EXCEPT ![id] = hp]
<1>20. ht2[id] = hp /\ (\A p \in Pages : ht2[p] = ht[p]) /\ ht2 \in [PageIds -> Nat]
  BY <1>11, <1>H, <1>hp
<1>O. /\ at \in [Nat -> [Int -> PageIds]]
      /\ \A d \in 0 .. h : \A x \in Int : at[d][x] \in Pages /\ ht[at[d][x]] = d
      /\ \A x \in Int : at[h][x] = root
      /\ \A p \in Pages : \A i \in 1 .. Len(node[p].keys) : at[ht[p]][node[p].keys[i]] = p
  BY <1>1, <1>2 DEF Owners, Leads
<1>21. /\ at2 \in [Nat -> [Int -> PageIds]]
       /\ \A d \in Nat : d # hp => at2[d] = at[d]
       /\ \A x \in Int : at2[hp][x] = IF at[hp][x] = P /\ x >= mid THEN id ELSE at[hp][x]
  <2>1. low \in [Int -> PageIds]
    BY <1>O, <1>hp
  <2>2. \A x \in Int : low[x] = IF at[hp][x] = P /\ x >= mid THEN id ELSE at[hp][x]
    OBVIOUS
  <2> HIDE DEF low
  <2>. QED
    BY <1>O, <1>hp, <2>1, <2>2
<1> HIDE DEF low, at2, ht2
<1>22. Heights(ht2, h)'
  <2>1. ASSUME NEW p \in Pages' PROVE (node'[p].leaf <=> ht2[p] = 0) /\ ht2[p] <= h
    <3>1. CASE p = id
      BY <1>9, <1>13, <1>20, <1>H, <1>hp, <3>1
    <3>2. CASE p = P
      BY <1>4, <1>14, <1>20, <1>H, <1>hp, <3>2
    <3>3. CASE p # id /\ p # P
      BY <1>11, <1>14, <1>20, <1>H, <3>3
    <3>. QED
      BY <3>1, <3>2, <3>3
  <2>2. ASSUME NEW p \in Pages', ~node'[p].leaf, NEW c \in ToSet(node'[p].ch)
        PROVE  ht2[c] + 1 = ht2[p]
    <3>1. CASE p = id \/ p = P
      <4>1. c \in Pages /\ ht[c] + 1 = ht[P]
        BY <1>10, <1>12, <1>13, <2>2, <3>1
      <4>2. ht2[p] = ht[P] /\ ht2[c] = ht[c]
        BY <1>4, <1>20, <1>hp, <3>1, <4>1
      <4>. QED
        BY <4>1, <4>2
    <3>2. CASE p # id /\ p # P
      <4>1. p \in Pages /\ ~node[p].leaf /\ c \in ToSet(node[p].ch)
        BY <1>11, <1>14, <2>2, <3>2
      <4>2. c \in Pages /\ ht[c] + 1 = ht[p]
        BY <1>11, <1>H, <4>1
      <4>. QED
        BY <1>20, <4>1, <4>2
    <3>. QED
      BY <3>1, <3>2
  <2>3. ht2[root'] = h /\ h + 2 <= pageCnt'
    BY <1>1, <1>11, <1>20, <1>H
  <2>4. ht2[up'.l] = ht2[up'.r]
    BY <1>4, <1>20, <1>hp, <1>u
  <2>. QED
    BY <1>20, <1>H, <2>1, <2>2, <2>3, <2>4 DEF Heights
<1>23. Owners(at2, ht2, h)'
  <2>1. ASSUME NEW d \in 0 .. h, NEW x \in Int
        PROVE  at2[d][x] \in Pages' /\ ht2[at2[d][x]] = d
    <3>n. d \in Nat
      BY <1>H
    <3>0. at[d][x] \in Pages /\ ht[at[d][x]] = d /\ d \in Nat
      BY <1>O, <3>n
    <3>1. CASE d = hp /\ at[d][x] = P /\ x >= mid
      <4>1. at2[d][x] = id
        BY <1>21, <3>1
      <4>. QED
        BY <1>11, <1>20, <3>1, <4>1
    <3>2. CASE ~(d = hp /\ at[d][x] = P /\ x >= mid)
      <4>1. at2[d][x] = at[d][x]
        BY <1>21, <3>0, <3>2
      <4>. QED
        BY <1>11, <1>20, <3>0, <4>1
    <3>. QED
      BY <3>1, <3>2
  <2>2. ASSUME NEW x \in Int PROVE Leads(root, x, at2[h][x])'
    <3>0. at[h][x] = root /\ h \in Nat
      BY <1>H, <1>O
    <3>1. CASE P = root
      <4>1. hp = h
        BY <1>H, <1>hp, <3>1
      <4>2. at2[h][x] = IF x >= mid THEN id ELSE root
        BY <1>21, <3>0, <3>1, <4>1
      <4>. QED
        BY <1>1, <1>u, <3>1, <4>2 DEF Leads
    <3>2. CASE P # root
      <4>1. at2[h][x] = root
        BY <1>21, <3>0, <3>2
      <4>. QED
        BY <1>1, <1>u, <3>2, <4>1 DEF Leads
    <3>. QED
      BY <3>1, <3>2
  <2>3. ASSUME NEW d \in 1 .. h, NEW x \in Int, NEW i, Gap(node'[at2[d][x]].keys, x, i)
        PROVE  Leads(node[at2[d][x]].ch[i], x, at2[d - 1][x])'
    <3>1. d \in 0 .. h /\ d # 0 /\ d \in Nat /\ d - 1 \in 0 .. h /\ d - 1 \in Nat /\ d - 1 # d
      BY <1>H
    <3>2. PICK q : q = at[d][x] /\ q \in Pages /\ ht[q] = d
      BY <1>O, <3>1
    <3>3. CASE q # P
      <4>1. q = at2[d][x] /\ node'[q].keys = node[q].keys /\ node'[q].ch = node[q].ch
        BY <1>14, <1>21, <3>1, <3>2, <3>3
      <4>2. Gap(node[q].keys, x, i)
        BY <2>3, <4>1
      <4>3. q # Parent
        BY <1>3, <3>3
      <4>4. Direct(at, ht, d, x, q, i)
        BY <1>1, <1>2, <3>2, <4>2, <4>3, LeadsElsewhere
      <4>5. PICK c : c = node[q].ch[i] /\ c = at[d - 1][x]
        BY <4>4 DEF Direct
      <4>6. at2[d - 1][x] = IF c = P /\ x >= mid THEN id ELSE c
        <5>1. CASE d - 1 = hp
          BY <1>21, <4>5, <5>1
        <5>2. CASE d - 1 # hp
          <6>1. c # P
            BY <1>O, <1>hp, <3>1, <4>5, <5>2
          <6>. QED
            BY <1>21, <3>1, <4>5, <5>2, <6>1
        <5>. QED
          BY <5>1, <5>2
      <4>. QED
        BY <1>u, <4>1, <4>5, <4>6 DEF Leads
    <3>4. CASE q = P
      <4>1. d = hp /\ at[hp][x] = P
        BY <1>hp, <3>2, <3>4
      <4>2. at2[d][x] = IF x >= mid THEN id ELSE P
        BY <1>21, <4>1
      <4>m. mid \in Int
        BY <1>8 DEF SharedOut
      <4>3. PICK i2 : /\ Gap(temp.keys, x, i2)
                      /\ node'[at2[d][x]].ch[i] = temp.ch[i2]
        <5>1. CASE x >= mid
          <6>1. at2[d][x] = id /\ Gap(r.keys, x, i) /\ mid <= x
            BY <1>13, <2>3, <4>2, <4>m, <5>1
          <6>2. \E j : Gap(temp.keys, x, j) /\ r.ch[i] = temp.ch[j]
            BY <1>8, <6>1 DEF SharedOut
          <6>. QED
            BY <1>13, <6>1, <6>2
        <5>2. CASE ~(x >= mid)
          <6>1. at2[d][x] = P /\ Gap(l.keys, x, i) /\ x < mid
            BY <1>13, <2>3, <4>2, <4>m, <5>2
          <6>2. \E j : Gap(temp.keys, x, j) /\ l.ch[i] = temp.ch[j]
            BY <1>8, <6>1 DEF SharedOut
          <6>. QED
            BY <1>13, <6>1, <6>2
        <5>. QED
          BY <5>1, <5>2
      <4>4. PICK c : c = temp.ch[i2] /\ c = at[d - 1][x]
        <5>1. at[hp - 1][x] = temp.ch[i2]
          BY <1>5, <1>hp, <4>1, <4>3
        <5>. QED
          BY <4>1, <5>1
      <4>5. c # P
        BY <1>O, <1>hp, <3>1, <4>1, <4>4
      <4>6. at2[d - 1][x] = c
        BY <1>21, <3>1, <4>1, <4>4
      <4>7. node'[at2[d][x]].ch[i] = c
        BY <4>3, <4>4
      <4>. QED
        BY <1>u, <4>5, <4>6, <4>7 DEF Leads
    <3>. QED
      BY <3>3, <3>4
  <2>4. ASSUME NEW p \in Pages', NEW i \in 1 .. Len(node'[p].keys)
        PROVE  at2[ht2[p]][node'[p].keys[i]] = p
    <3>1. CASE p = P
      <4>1. i \in 1 .. Len(l.keys) /\ node'[p].keys[i] = l.keys[i] /\ ht2[p] = hp
        BY <1>4, <1>13, <1>20, <1>hp, <3>1
      <4>2. PICK x \in Int : x = l.keys[i] /\ x < mid /\ mid \in Int
        BY <1>8, <4>1 DEF SharedOut
      <4>3. \E j \in 1 .. Len(temp.keys) : x = temp.keys[j]
        BY <1>8, <4>1, <4>2 DEF SharedOut
      <4>4. at[hp][x] = P /\ ~(x >= mid)
        BY <1>5, <1>hp, <4>2, <4>3
      <4>. QED
        BY <1>21, <3>1, <4>1, <4>2, <4>4
    <3>2. CASE p = id
      <4>1. i \in 1 .. Len(r.keys) /\ node'[p].keys[i] = r.keys[i] /\ ht2[p] = hp
        BY <1>13, <1>20, <3>2
      <4>2. PICK x \in Int : x = r.keys[i] /\ mid <= x /\ mid \in Int
        BY <1>8, <4>1 DEF SharedOut
      <4>3. \E j \in 1 .. Len(temp.keys) : x = temp.keys[j]
        BY <1>8, <4>1, <4>2 DEF SharedOut
      <4>4. at[hp][x] = P /\ x >= mid
        BY <1>5, <1>hp, <4>2, <4>3
      <4>. QED
        BY <1>21, <3>2, <4>1, <4>2, <4>4
    <3>3. CASE p # P /\ p # id
      <4>1. /\ p \in Pages /\ node'[p].keys = node[p].keys /\ ht2[p] = ht[p]
            /\ ht[p] \in Nat
        BY <1>11, <1>14, <1>20, <1>H, <3>3
      <4>2. PICK x \in Int : x = node[p].keys[i]
        <5>1. \A j \in 1 .. Len(node[p].keys) : node[p].keys[j] \in Int
          BY <1>11, <4>1, NodeSeqs
        <5>. QED
          BY <4>1, <5>1
      <4>3. at[ht[p]][x] = p
        BY <1>O, <4>1, <4>2
      <4>. QED
        BY <1>21, <3>3, <4>1, <4>2, <4>3
    <3>. QED
      BY <3>1, <3>2, <3>3
  <2>5. at2[ht2[up'.r]][up'.key] = up'.r
    <3>1. mid \in Int /\ \E j \in 1 .. Len(temp.keys) : mid = temp.keys[j]
      BY <1>8 DEF SharedOut
    <3>2. at[hp][mid] = P
      BY <1>5, <1>hp, <3>1
    <3>3. at2[hp][mid] = id
      BY <1>21, <3>1, <3>2
    <3>. QED
      BY <1>20, <1>u, <3>3
  <2>6. Chained(at2[0])'
    <3>1. PICK own : own = at[0]
      OBVIOUS
    <3>2. ASSUME NEW x \in Int PROVE node'[own[x]].next = node[own[x]].next
      <4>1. own[x] \in Pages /\ ht[own[x]] = 0
        <5>1. 0 \in 0 .. h
          BY <1>H
        <5>. QED
          BY <1>O, <3>1, <5>1
      <4>2. own[x] # P /\ node[own[x]].leaf
        BY <1>4, <1>H, <4>1
      <4>. QED
        BY <1>14, <4>1, <4>2
    <3>4. Chained(own)
      BY <1>2, <3>1 DEF Owners
    <3>5. Chained(own)'
      BY <3>2, <3>4, ChainKept
    <3>6. at2[0] = own
      BY <1>21, <1>hp, <3>1
    <3>. QED
      BY <3>5, <3>6
  <2>. QED
    BY <1>11, <1>21, <2>1, <2>2, <2>3, <2>4, <2>5, <2>6 DEF Owners
<1>f. FollowsFrom(at, h)
  <2>1. ASSUME NEW d \in 0 .. h, NEW x \in Int
        PROVE  at2[d][x] = at[d][x] \/ (at2[d][x] = pageCnt /\ ~(x < mid))
    <3>1. CASE d = hp
      <4>1. mid \in Int
        BY <1>8 DEF SharedOut
      <4>2. at2[hp][x] = IF at[hp][x] = P /\ x >= mid THEN pageCnt ELSE at[hp][x]
        BY <1>21, <1>i
      <4>. QED
        BY <3>1, <4>1, <4>2
    <3>2. CASE d # hp
      <4>1. d \in Nat
        BY <1>H
      <4>. QED
        BY <1>21, <3>2, <4>1
    <3>. QED
      BY <3>1, <3>2
  <2>2. mid \in Int /\ h \in Nat /\ h <= h
    BY <1>8, <1>H DEF SharedOut
  <2>4. Inherits(at, h, at2, h)
    BY <2>1, <2>2, Inherited
  <2>. QED
    BY <1>2, <1>22, <1>23, <2>4 DEF FollowsFrom
<1>inv. Inv'
  BY <1>15, <1>16, <1>17, <1>18, <1>19, <1>22, <1>23 DEF Inv, Shape
<1>kept. LeavesKept
  <2>1. \A p \in Pages' : node'[p].leaf => p \in Pages /\ p # P
    BY <1>9, <1>11, <1>13, <1>14
  <2>2. \A p \in Pages' : node'[p].leaf => node[p].leaf
    BY <1>14, <2>1
  <2>3. \A p \in Pages : node[p].leaf => p # P
    BY <1>4, <1>n
  <2>. QED
    BY <1>11, <1>14, <2>1, <2>2, <2>3 DEF LeavesKept
<1>. QED
  BY <1>f, <1>inv, <1>kept
-----------------------------------------------------------------------------
\* The invariant of the tree.

LEMMA InitInv == Init => Inv
<1> SUFFICES ASSUME Init PROVE Inv
  OBVIOUS
<1>1. /\ node = [p \in PageIds |-> NoNode] /\ root = ERROR_PAGE /\ pageCnt = 1
      /\ up = NoCall /\ last = NoCall
  BY DEF Init
<1>2. Pages = {} /\ MaxPage \in Nat
  BY <1>1, TreeAssumption DEF Pages
<1>3. Typed
  BY <1>1, <1>2 DEF Typed, PageIds
<1>4. Rooted /\ Linked /\ Named /\ Waiting
  BY <1>1, <1>2 DEF Rooted, Linked, Named, Waiting
<1>5. Heights([p \in PageIds |-> 0], 0)
  BY <1>1, <1>2 DEF Heights
<1>. QED
  BY <1>1, <1>3, <1>4, <1>5 DEF Inv, Shape

\* What a step does to the entries of the leaves.
Effect ==
  \/ \E k \in Keys : /\ last' = <<k, ERROR_PAGE>>
                     /\ Entered(k, ERROR_PAGE) \/ (Absent(k) /\ node' = node)
  \/ \E k \in Keys, rec \in Records :
       /\ last' = <<k, rec>>
       /\ (Absent(k) /\ Entered(k, rec)) \/ (Present(k) /\ node' = node)
  \/ LeavesKept /\ last' = last
  \/ UNCHANGED <<node, last>>

LEMMA NextInv == Inv /\ [Next]_vars => Inv' /\ Effect /\ Follows
<1> SUFFICES ASSUME Inv, [Next]_vars PROVE Inv' /\ Effect /\ Follows
  OBVIOUS
<1>1. ASSUME NEW key \in Keys, LazyRemove(key) PROVE Inv' /\ Effect /\ Follows
  <2>1. Inv' /\ Follows /\ (Entered(key, ERROR_PAGE) \/ (Absent(key) /\ node' = node))
    BY <1>1, RemoveStep
  <2>2. last' = <<key, ERROR_PAGE>>
    BY <1>1 DEF LazyRemove
  <2>. QED
    BY <2>1, <2>2 DEF Effect
<1>2. ASSUME NEW key \in Keys, NEW rec \in Records, Add(key, rec) PROVE Inv' /\ Effect /\ Follows
  <2>0. up = NoCall /\ last' = <<key, rec>>
    BY <1>2 DEF Add
  <2>1. CASE AddToEmpty(key, rec)
    <3>1. Follows
      BY <2>1 DEF AddToEmpty, Follows
    <3>. QED
      BY <2>0, <2>1, <3>1, AddToEmptyStep DEF Effect
  <2>2. CASE AddToKey(key, rec)
    <3>1. /\ Inv' /\ Follows
          /\ (Absent(key) /\ Entered(key, rec)) \/ (Present(key) /\ node' = node)
      BY <2>0, <2>2, AddToKeyStep
    <3>. QED
      BY <2>0, <3>1 DEF Effect
  <2>3. CASE AddToLeaf(key, rec)
    BY <2>0, <2>3, AddToLeafStep DEF Effect
  <2>4. CASE AddToFull(key, rec)
    BY <2>0, <2>4, AddToFullStep DEF Effect
  <2>. QED
    BY <1>2, <2>1, <2>2, <2>3, <2>4 DEF Add
<1>3. CASE InsertParent
  <2>0. up # NoCall /\ UNCHANGED last
    BY <1>3 DEF InsertParent
  <2>1. CASE ParentIsNew
    BY <2>0, <2>1, ParentIsNewStep DEF Effect
  <2>2. CASE ParentHasRoom
    BY <2>0, <2>2, ParentHasRoomStep DEF Effect
  <2>3. CASE ParentIsFull
    BY <2>0, <2>3, ParentIsFullStep DEF Effect
  <2>. QED
    BY <1>3, <2>1, <2>2, <2>3 DEF InsertParent
<1>4. CASE UNCHANGED vars
  <2>1. last \in (Keys \X (Records \cup {ERROR_PAGE})) \cup {NoCall}
    BY DEF Inv, Shape, Typed
  <2>. QED
    BY <1>4, <2>1, NothingMoved DEF vars, Effect
<1>. QED
  BY <1>1, <1>2, <1>3, <1>4 DEF Next

\* Whatever is added and removed, and however far a division has climbed,
\* every key has its way: on each level one page owns it.
THEOREM TreeInvariant == Spec => []Inv
<1>1. Init => Inv
  BY InitInv
<1>2. Inv /\ [Next]_vars => Inv'
  BY NextInv
<1>. QED
  BY <1>1, <1>2, PTL DEF Spec

LEMMA InvTypeOK == Inv => TypeOK
<1> SUFFICES ASSUME Inv PROVE TypeOK
  OBVIOUS
<1>1. Typed /\ Rooted
  BY DEF Inv, Shape
<1>2. root \in PageIds \cup {ERROR_PAGE}
  BY <1>1, PagesKnown DEF Rooted
<1>. QED
  BY <1>1, <1>2 DEF Typed, TypeOK, NodeOK

LEMMA InvPagesAreFilled == Inv => PagesAreFilled
<1> SUFFICES ASSUME Inv, NEW p \in Allocated
             PROVE  LET n == node[p] IN
                    /\ Len(n.keys) <= Order - 1
                    /\ Len(n.ch) = IF n.leaf THEN Len(n.keys) ELSE Len(n.keys) + 1
                    /\ Len(n.keys) >= IF p = root THEN 1
                                      ELSE IF n.leaf THEN split_point ELSE split_point - 1
                    /\ n.rootBit <=> p = root
  BY DEF PagesAreFilled
<1>1. NodeOK(node[p], p = root)
  BY PagesKnown DEF Inv, Shape
<1>2. PICK n : n = node[p]
  OBVIOUS
<1>3. Len(n.keys) \in Nat
  BY <1>1, <1>2, NodeSeqs
<1>. QED
  BY <1>1, <1>2, <1>3 DEF NodeOK, HalfFull

LEMMA InvOneTree == Inv => OneTree
<1> SUFFICES ASSUME Inv PROVE OneTree
  OBVIOUS
<1>1. Shape /\ Typed /\ Rooted /\ Linked /\ Named /\ Waiting
  BY DEF Inv, Shape
<1>2. /\ Allocated = Pages /\ \A p \in Pages : NodeOK(node[p], p = root)
      /\ Internals = {p \in Pages : ~node[p].leaf}
      /\ \A p \in Internals : ChildrenOf(p) = ToSet(node[p].ch)
      /\ ERROR_PAGE \notin Pages
  BY <1>1, PagesKnown DEF Internals, Leaves, ChildrenOf
<1>3. ASSUME NEW p \in Internals
      PROVE  /\ IsInjective(node[p].ch)
             /\ \A c \in ChildrenOf(p) : c \in Allocated /\ node[c].parent = p
  <2>1. PICK s \in Seq(Entries) : s = node[p].ch /\ Distinct(s)
    BY <1>2, NodeSeqs
  <2>2. IsInjective(s)
    BY <2>1 DEF IsInjective, Distinct
  <2>. QED
    BY <1>1, <1>2, <2>1, <2>2 DEF Linked
<1>4. ASSUME NEW c \in Allocated, c \in {root} \cup Pending, NEW p \in Internals
      PROVE  c \notin ChildrenOf(p)
  <2>1. root # ERROR_PAGE => c # root \/ c \notin ChildrenOf(p)
    BY <1>1, <1>2, ShapeFacts
  <2>2. c = root => root # ERROR_PAGE
    BY <1>2
  <2>3. c # root => up # NoCall /\ c = up.r
    BY <1>4 DEF Pending
  <2>. QED
    BY <1>1, <1>2, <2>1, <2>2, <2>3 DEF Waiting
<1>5. ASSUME NEW c \in Allocated, c \notin {root} \cup Pending
      PROVE  \E p \in Internals : c \in ChildrenOf(p)
  <2>1. c # root /\ ~(up # NoCall /\ c = up.r)
    BY <1>5 DEF Pending
  <2>. QED
    BY <1>1, <1>2, <2>1 DEF Named
<1>6. \A c \in Pending : c # root /\ node[c].parent = node[up.l].parent
  BY <1>1 DEF Pending, Waiting
<1>. QED
  BY <1>3, <1>4, <1>5, <1>6 DEF OneTree

LEMMA InvSearchable == Inv => Searchable
<1> SUFFICES ASSUME Inv, up = NoCall
             PROVE  /\ \A p \in Allocated : \A i \in 1 .. Len(node[p].keys) - 1 :
                         node[p].keys[i] < node[p].keys[i + 1]
                    /\ \A p \in Leaves : \A k \in ToSet(node[p].keys) : down_to_leaf(k) = p
                    /\ LET level == Levels
                       IN  \A d \in 0 .. MaxPage :
                             level[d] \subseteq Leaves \/ level[d] \cap Leaves = {}
  BY DEF Searchable
<1>1. Shape /\ Typed /\ Linked /\ Named
  BY DEF Inv, Shape
<1>2. /\ Allocated = Pages /\ \A p \in Pages : NodeOK(node[p], p = root)
      /\ Leaves = {p \in Pages : node[p].leaf}
      /\ \A p \in Pages : ChildrenOf(p) = IF node[p].leaf THEN {} ELSE ToSet(node[p].ch)
      /\ ERROR_PAGE \notin Pages /\ Pages \subseteq PageIds
  BY <1>1, PagesKnown DEF Internals, Leaves, ChildrenOf
<1>3. PICK at, ht, h : Heights(ht, h) /\ (root # ERROR_PAGE => Owners(at, ht, h))
  BY DEF Inv
<1>4. ASSUME NEW p \in Allocated, NEW i \in 1 .. Len(node[p].keys) - 1
      PROVE  node[p].keys[i] < node[p].keys[i + 1]
  <2>1. PICK len \in Nat : len = Len(node[p].keys) /\ Sorted(node[p].keys)
    BY <1>2, NodeSeqs
  <2>2. i \in 1 .. len /\ i + 1 \in 1 .. len /\ i < i + 1
    BY <2>1
  <2>. QED
    BY <2>1, <2>2 DEF Sorted
<1>5. ASSUME NEW p \in Leaves, NEW k \in ToSet(node[p].keys)
      PROVE  down_to_leaf(k) = p
  <2>1. root # ERROR_PAGE
    <3>1. p \in Pages
      BY <1>2
    <3>. QED
      BY <1>1, <1>2, <3>1 DEF Shape, Rooted, Pages
  <2>2. p \in Pages /\ ht[p] = 0
    BY <1>2, <1>3 DEF Heights
  <2>3. PICK s \in Seq(Int) : s = node[p].keys
    BY <1>2, <2>2, NodeSeqs
  <2>4. PICK i \in 1 .. Len(s) : s[i] = k
    BY <2>3, InSet
  <2>5. k \in Int
    BY <2>3, <2>4
  <2>6. at[0][k] = p
    BY <1>3, <2>1, <2>2, <2>3, <2>4 DEF Owners
  <2>. QED
    BY <1>1, <1>3, <2>1, <2>5, <2>6, Descent
<1>6. ASSUME NEW d \in 0 .. MaxPage
      PROVE  Levels[d] \subseteq Leaves \/ Levels[d] \cap Leaves = {}
  <2> DEFINE Below == [e \in 0 .. MaxPage |-> {p \in Pages : ht[p] + e = h}]
             step(level, e) ==
               IF e = 0 THEN {root} \ {ERROR_PAGE}
               ELSE UNION {ChildrenOf(p) : p \in level[e - 1]}
             lev == CHOOSE level : level = [e \in 0 .. MaxPage |-> step(level, e)]
  <2>0. /\ MaxPage \in Nat /\ h \in Nat
        /\ \A p \in Pages : ht[p] \in Nat /\ ht[p] <= h /\ (node[p].leaf <=> ht[p] = 0)
        /\ \A p \in Pages : \A c \in ChildrenOf(p) : c \in Pages /\ ht[c] + 1 = ht[p]
        /\ \A c \in Pages : c # root => \E p \in Pages : c \in ChildrenOf(p)
    <3>1. MaxPage \in Nat
      BY TreeAssumption
    <3>2. /\ h \in Nat
          /\ \A p \in Pages : ht[p] \in Nat /\ ht[p] <= h /\ (node[p].leaf <=> ht[p] = 0)
      BY <1>2, <1>3 DEF Heights
    <3>3. \A p \in Pages : \A c \in ChildrenOf(p) : c \in Pages /\ ht[c] + 1 = ht[p]
      BY <1>1, <1>2, <1>3 DEF Heights, Linked
    <3>4. \A c \in Pages : c # root => \E p \in Pages : c \in ChildrenOf(p)
      BY <1>1, <1>2 DEF Named
    <3>. QED
      BY <3>1, <3>2, <3>3, <3>4
  <2>1. Below[0] = {root} \ {ERROR_PAGE}
    <3>1. Below[0] = {p \in Pages : ht[p] = h}
      BY <2>0
    <3>2. ASSUME NEW p \in Pages, ht[p] = h PROVE p = root
      <4>1. ASSUME NEW q \in Pages, p \in ChildrenOf(q) PROVE FALSE
        BY <2>0, <3>2, <4>1
      <4>. QED
        BY <2>0, <4>1
    <3>3. root # ERROR_PAGE => root \in Pages /\ ht[root] = h
      BY <1>1, <1>3 DEF Shape, Rooted, Heights
    <3> HIDE DEF Below
    <3>. QED
      BY <1>2, <3>1, <3>2, <3>3
  <2>2. ASSUME NEW e \in 1 .. MaxPage
        PROVE  Below[e] = UNION {ChildrenOf(p) : p \in Below[e - 1]}
    <3>1. e - 1 \in 0 .. MaxPage /\ e \in 0 .. MaxPage /\ e \in Nat /\ e - 1 \in Nat
      BY <2>0
    <3>2. /\ Below[e] = {p \in Pages : ht[p] + e = h}
          /\ Below[e - 1] = {p \in Pages : ht[p] + (e - 1) = h}
      BY <3>1
    <3>3. ASSUME NEW p \in Pages, ht[p] + (e - 1) = h, NEW c \in ChildrenOf(p)
          PROVE  c \in Pages /\ ht[c] + e = h
      <4>1. c \in Pages /\ ht[c] + 1 = ht[p] /\ ht[c] \in Nat /\ ht[p] \in Nat
        BY <2>0
      <4>. QED
        BY <2>0, <3>1, <3>3, <4>1
    <3>4. ASSUME NEW c \in Pages, ht[c] + e = h
          PROVE  \E p \in Pages : c \in ChildrenOf(p) /\ ht[p] + (e - 1) = h
      <4>1. c # root
        <5>1. c = root => ht[c] = h
          BY <1>1, <1>2, <1>3 DEF Shape, Rooted, Heights
        <5>. QED
          BY <2>0, <3>1, <3>4, <5>1
      <4>2. PICK p \in Pages : c \in ChildrenOf(p)
        BY <2>0, <4>1
      <4>3. ht[c] + 1 = ht[p] /\ ht[c] \in Nat /\ ht[p] \in Nat
        BY <2>0, <4>2
      <4>. QED
        BY <2>0, <3>1, <3>4, <4>2, <4>3
    <3> HIDE DEF Below
    <3>. QED
      BY <3>2, <3>3, <3>4
  <2>3. Below = [e \in 0 .. MaxPage |-> step(Below, e)]
    <3>1. ASSUME NEW e \in 0 .. MaxPage PROVE Below[e] = step(Below, e)
      <4> HIDE DEF Below
      <4>1. CASE e = 0
        BY <2>1, <4>1
      <4>2. CASE e # 0
        <5>1. e \in 1 .. MaxPage
          BY <2>0, <4>2
        <5>. QED
          BY <2>2, <4>2, <5>1
      <4>. QED
        BY <4>1, <4>2
    <3>2. Below = [e \in 0 .. MaxPage |-> Below[e]]
      OBVIOUS
    <3> HIDE DEF Below, step
    <3>. QED
      BY <3>1, <3>2
  <2>4. lev = [e \in 0 .. MaxPage |-> step(lev, e)]
    <3> HIDE DEF Below, step
    <3>. QED
      BY <2>3
  <2>5. Levels = lev
    BY DEF Levels
  <2>6. \A e \in 0 .. MaxPage : lev[e] = Below[e]
    <3> DEFINE Bad == {e \in 0 .. MaxPage : lev[e] # Below[e]}
    <3> SUFFICES ASSUME Bad # {} PROVE FALSE
      OBVIOUS
    <3>1. Bad \in SUBSET Nat
      BY <2>0
    <3>2. PICK e \in Bad : \A f \in Bad : e <= f
      <4> HIDE DEF Bad
      <4>. QED
        BY <3>1, LeastExists
    <3>3. e \in 0 .. MaxPage /\ lev[e] # Below[e]
      BY <3>2
    <3>4. lev[e] = step(lev, e) /\ Below[e] = step(Below, e)
      <4> HIDE DEF Below, step, lev
      <4>. QED
        BY <2>3, <2>4, <3>3
    <3>5. CASE e = 0
      <4> HIDE DEF Below, lev
      <4>. QED
        BY <3>3, <3>4, <3>5
    <3>6. CASE e # 0
      <4>1. e - 1 \in 0 .. MaxPage /\ ~(e <= e - 1)
        BY <2>0, <3>3, <3>6
      <4>2. lev[e - 1] = Below[e - 1]
        <5> HIDE DEF Below, lev
        <5>. QED
          BY <3>2, <4>1
      <4> HIDE DEF Below, lev
      <4>. QED
        BY <3>3, <3>4, <3>6, <4>2
    <3>. QED
      BY <3>5, <3>6
  <2>7. Levels[d] = {p \in Pages : ht[p] + d = h}
    <3>1. Below[d] = {p \in Pages : ht[p] + d = h}
      OBVIOUS
    <3> HIDE DEF Below, lev
    <3>. QED
      BY <2>5, <2>6, <3>1
  <2>8. ASSUME NEW p \in Pages, ht[p] + d = h PROVE p \in Leaves <=> d = h
    BY <1>2, <2>0, <2>8
  <2>. QED
    BY <2>7, <2>8
<1>. QED
  BY <1>4, <1>5, <1>6
-----------------------------------------------------------------------------
\* The invariant says what a run checks, and what the table holds.

LEMMA InvMapped == Inv => EntriesKnown
<1> SUFFICES ASSUME Inv PROVE EntriesKnown
  OBVIOUS
<1>1. Shape /\ Typed
  BY DEF Inv, Shape
<1>2. /\ Allocated = Pages /\ \A p \in Pages : NodeOK(node[p], p = root)
      /\ Leaves = {p \in Pages : node[p].leaf} /\ ERROR_PAGE \notin Records
  BY <1>1, PagesKnown, TreeAssumption DEF Leaves
<1>3. PICK at, ht, h : Heights(ht, h) /\ (root # ERROR_PAGE => Owners(at, ht, h))
  BY DEF Inv
<1>4. Pages # {} => Owners(at, ht, h)
  BY <1>1, <1>3 DEF Shape, Rooted, Pages
<1>5. ASSUME NEW p \in Leaves, NEW x
      PROVE  x \in ToSet(node[p].keys) <=> \E e : Pair(node[p], x, e)
  <2>1. PICK s \in Seq(Int) : s = node[p].keys
    BY <1>2, NodeSeqs
  <2>2. x \in ToSet(s) <=> \E i \in 1 .. Len(s) : s[i] = x
    BY <2>1, InSet
  <2>. QED
    BY <2>1, <2>2 DEF Pair
<1>6. ASSUME NEW p \in Leaves, NEW x, NEW e, Pair(node[p], x, e)
      PROVE  x \in Keys /\ e \in Records \cup {ERROR_PAGE}
  <2>1. PICK s \in Seq(Keys) : s = node[p].keys
    BY <1>2, NodeSeqs
  <2>2. PICK i \in 1 .. Len(s) : s[i] = x /\ node[p].ch[i] = e
    BY <1>6, <2>1 DEF Pair
  <2>3. node[p].ch[i] \in Records \cup {ERROR_PAGE}
    BY <1>2, <2>1, <2>2 DEF NodeOK
  <2>. QED
    BY <2>1, <2>2, <2>3
<1>7. \A x : RecordsUnder(x) = {rec \in Records : \E p \in Leaves : Pair(node[p], x, rec)}
  BY DEF RecordsUnder, Pair
<1>8. \A x \in Keys : Content[x] = IF RecordsUnder(x) = {} THEN ERROR_PAGE
                                   ELSE CHOOSE rec \in RecordsUnder(x) : TRUE
  BY DEF Content
<1>9. ASSUME NEW p \in Leaves, NEW x, NEW e, Pair(node[p], x, e)
      PROVE  Content[x] = e
  <2>1. x \in Keys /\ e \in Records \cup {ERROR_PAGE} /\ p \in Pages
    BY <1>2, <1>6, <1>9
  <2>2. ASSUME NEW rec \in RecordsUnder(x) PROVE rec = e
    <3>1. PICK q \in Leaves : Pair(node[q], x, rec)
      BY <1>7, <2>2
    <3>2. q = p
      BY <1>2, <1>3, <1>4, <1>9, <2>1, <3>1, OneLeaf
    <3>3. PICK b : b = (p = root)
      OBVIOUS
    <3>4. NodeOK(node[p], b)
      BY <1>2, <2>1, <3>3
    <3>. QED
      BY <1>9, <3>1, <3>2, <3>4, OnePair
  <2>3. CASE e \in Records
    <3>1. e \in RecordsUnder(x)
      BY <1>7, <1>9, <2>3
    <3>2. RecordsUnder(x) = {e}
      BY <2>2, <3>1
    <3>. QED
      BY <1>8, <2>1, <3>2
  <2>4. CASE e = ERROR_PAGE
    <3>1. RecordsUnder(x) = {}
      BY <1>2, <1>7, <2>2, <2>4
    <3>. QED
      BY <1>8, <2>1, <2>4, <3>1
  <2>. QED
    BY <2>1, <2>3, <2>4
<1>10. ASSUME NEW x \in Keys, \A p \in Leaves : \A e : ~Pair(node[p], x, e)
       PROVE  Content[x] = ERROR_PAGE
  <2>1. RecordsUnder(x) = {}
    BY <1>7, <1>10
  <2>. QED
    BY <1>8, <2>1
<1>11. Content = [x \in Keys |-> Content[x]]
  BY DEF Content
<1>12. Holds(Content, Leaves, node)
  <2>1. PICK C, L : C = Content /\ L = Leaves
    OBVIOUS
  <2>2. /\ C = [x \in Keys |-> C[x]]
        /\ \A p \in L : \A x, e : Pair(node[p], x, e) => C[x] = e
        /\ \A x \in Keys : (\A p \in L : \A e : ~Pair(node[p], x, e)) => C[x] = ERROR_PAGE
    BY <1>9, <1>10, <1>11, <2>1
  <2>3. Holds(C, L, node)
    BY <2>2 DEF Holds
  <2>. QED
    BY <2>1, <2>3
<1>. QED
  BY <1>2, <1>5, <1>12 DEF EntriesKnown

\* A step that leaves e under k does so in the table, and to no other key.
LEMMA ContentEntered ==
  ASSUME EntriesKnown, EntriesKnown', NEW k \in Keys, NEW e, Entered(k, e)
  PROVE  Content' = [Content EXCEPT ![k] = e]
<1>1. PICK D, L, C, L2 : D = Content /\ L = Leaves /\ C = Content' /\ L2 = Leaves'
  OBVIOUS
<1>2. /\ L = {p \in Pages : node[p].leaf} /\ Holds(D, L, node)
      /\ L2 = {p \in Pages' : node'[p].leaf} /\ Holds(C, L2, node')
  BY <1>1 DEF EntriesKnown
<1>3. /\ \A p \in L : \A x, f : Pair(node[p], x, f) => D[x] = f
      /\ \A x \in Keys : (\A p \in L : \A f : ~Pair(node[p], x, f)) => D[x] = ERROR_PAGE
      /\ \A p \in L2 : \A x, f : Pair(node'[p], x, f) => C[x] = f
      /\ \A x \in Keys : (\A p \in L2 : \A f : ~Pair(node'[p], x, f)) => C[x] = ERROR_PAGE
      /\ D = [x \in Keys |-> D[x]] /\ C = [x \in Keys |-> C[x]]
  BY <1>2 DEF Holds
<1>4. C[k] = e
  <2>1. PICK q : q \in Pages' /\ node'[q].leaf /\ Pair(node'[q], k, e)
    BY DEF Entered
  <2>. QED
    BY <1>2, <1>3, <2>1
<1>5. ASSUME NEW x \in Keys, x # k PROVE C[x] = D[x]
  <2>1. ASSUME NEW p \in L, NEW f, Pair(node[p], x, f) PROVE C[x] = D[x]
    <3>1. p \in Pages /\ node[p].leaf
      BY <1>2, <2>1
    <3>2. \/ p \in Pages' /\ node'[p].leaf /\ Pair(node'[p], x, f)
          \/ /\ node'[p].next \in Pages' /\ node'[node'[p].next].leaf
             /\ Pair(node'[node'[p].next], x, f)
      BY <1>5, <2>1, <3>1 DEF Entered
    <3>3. PICK q \in L2 : Pair(node'[q], x, f)
      BY <1>2, <3>2
    <3>4. C[x] = f /\ D[x] = f
      BY <1>3, <2>1, <3>3
    <3>. QED
      BY <3>4
  <2>2. CASE \A p \in L : \A f : ~Pair(node[p], x, f)
    <3>1. ASSUME NEW q \in L2, NEW f PROVE ~Pair(node'[q], x, f)
      <4>1. q \in Pages' /\ node'[q].leaf
        BY <1>2
      <4>2. Pair(node'[q], x, f) =>
              \E p \in Pages : node[p].leaf /\ \E g : Pair(node[p], x, g)
        BY <1>5, <4>1 DEF Entered
      <4>. QED
        BY <1>2, <2>2, <4>2
    <3>. QED
      BY <1>3, <2>2, <3>1
  <2>. QED
    BY <2>1, <2>2
<1>6. C = [D EXCEPT ![k] = e]
  BY <1>3, <1>4, <1>5
<1>. QED
  BY <1>1, <1>6

LEMMA ContentKept ==
  ASSUME EntriesKnown, EntriesKnown', LeavesKept
  PROVE  Content' = Content
<1>1. PICK D, L, C, L2 : D = Content /\ L = Leaves /\ C = Content' /\ L2 = Leaves'
  OBVIOUS
<1>2. /\ L = {p \in Pages : node[p].leaf} /\ Holds(D, L, node)
      /\ L2 = {p \in Pages' : node'[p].leaf} /\ Holds(C, L2, node')
  BY <1>1 DEF EntriesKnown
<1>3. /\ \A p \in L : \A x, f : Pair(node[p], x, f) => D[x] = f
      /\ \A x \in Keys : (\A p \in L : \A f : ~Pair(node[p], x, f)) => D[x] = ERROR_PAGE
      /\ \A p \in L2 : \A x, f : Pair(node'[p], x, f) => C[x] = f
      /\ \A x \in Keys : (\A p \in L2 : \A f : ~Pair(node'[p], x, f)) => C[x] = ERROR_PAGE
      /\ D = [x \in Keys |-> D[x]] /\ C = [x \in Keys |-> C[x]]
  BY <1>2 DEF Holds
<1>4. L2 = L
  BY <1>2 DEF LeavesKept
<1>5. \A p \in L : \A x, f : Pair(node'[p], x, f) <=> Pair(node[p], x, f)
  <2>1. \A p \in L : node'[p].keys = node[p].keys /\ node'[p].ch = node[p].ch
    BY <1>2 DEF LeavesKept
  <2>. QED
    BY <2>1 DEF Pair
<1>6. ASSUME NEW x \in Keys PROVE C[x] = D[x]
  <2>1. ASSUME NEW p \in L, NEW f, Pair(node[p], x, f) PROVE C[x] = D[x]
    <3>1. C[x] = f /\ D[x] = f
      BY <1>3, <1>4, <1>5, <2>1
    <3>. QED
      BY <3>1
  <2>2. CASE \A p \in L : \A f : ~Pair(node[p], x, f)
    BY <1>3, <1>4, <1>5, <2>2
  <2>. QED
    BY <2>1, <2>2
<1>7. C = D
  BY <1>3, <1>6
<1>. QED
  BY <1>1, <1>7

LEMMA TableStep ==
  ASSUME EntriesKnown, EntriesKnown', Effect
  PROVE  [Table!Next]_(Table!vars)
<1>d. PICK D, L : /\ D = Content /\ L = {p \in Pages : node[p].leaf}
                  /\ Holds(D, L, node)
  BY DEF EntriesKnown
<1>h. /\ \A p \in L : \A x, f : Pair(node[p], x, f) => D[x] = f
      /\ \A x \in Keys : (\A p \in L : \A f : ~Pair(node[p], x, f)) => D[x] = ERROR_PAGE
      /\ D = [x \in Keys |-> D[x]]
  BY <1>d DEF Holds
<1>1. ASSUME NEW k \in Keys, Absent(k) PROVE D[k] = ERROR_PAGE
  <2>1. \A p \in L : \A f : Pair(node[p], k, f) => f = ERROR_PAGE
    BY <1>d, <1>1 DEF Absent
  <2>2. ASSUME NEW p \in L, NEW f, Pair(node[p], k, f) PROVE D[k] = ERROR_PAGE
    BY <1>h, <2>1, <2>2
  <2>. QED
    BY <1>h, <2>2
<1>2. ASSUME NEW k \in Keys, Present(k) PROVE D[k] # ERROR_PAGE
  <2>1. PICK p, e : p \in L /\ e \in Records /\ Pair(node[p], k, e)
    BY <1>d, <1>2 DEF Present
  <2>2. ERROR_PAGE \notin Records
    BY TreeAssumption
  <2>. QED
    BY <1>h, <2>1, <2>2
<1>3. ASSUME node' = node PROVE Content' = Content
  BY <1>3 DEF Content, RecordsUnder, Leaves, Allocated
<1>4. ASSUME NEW k \in Keys, last' = <<k, ERROR_PAGE>>,
             Entered(k, ERROR_PAGE) \/ (Absent(k) /\ node' = node)
      PROVE  Table!Remove(k)
  <2>1. Content' = [Content EXCEPT ![k] = ERROR_PAGE]
    <3>1. CASE Entered(k, ERROR_PAGE)
      BY <3>1, ContentEntered
    <3>2. CASE Absent(k) /\ node' = node
      <4>1. D[k] = ERROR_PAGE
        BY <1>1, <3>2
      <4>2. D = [D EXCEPT ![k] = ERROR_PAGE]
        BY <1>h, <4>1
      <4>. QED
        BY <1>3, <1>d, <3>2, <4>2
    <3>. QED
      BY <1>4, <3>1, <3>2
  <2>. QED
    BY <1>4, <2>1 DEF Table!Remove
<1>5. ASSUME NEW k \in Keys, NEW rec \in Records, last' = <<k, rec>>,
             (Absent(k) /\ Entered(k, rec)) \/ (Present(k) /\ node' = node)
      PROVE  Table!Add(k, rec)
  <2>1. CASE Absent(k) /\ Entered(k, rec)
    <3>1. Content' = [Content EXCEPT ![k] = rec] /\ Content[k] = ERROR_PAGE
      BY <1>1, <1>d, <2>1, ContentEntered
    <3>. QED
      BY <1>5, <3>1 DEF Table!Add
  <2>2. CASE Present(k) /\ node' = node
    <3>1. Content' = Content /\ Content[k] # ERROR_PAGE
      BY <1>2, <1>3, <1>d, <2>2
    <3>. QED
      BY <1>5, <3>1 DEF Table!Add
  <2>. QED
    BY <1>5, <2>1, <2>2
<1>6. CASE LeavesKept /\ last' = last
  BY <1>6, ContentKept DEF Table!vars
<1>7. CASE UNCHANGED <<node, last>>
  BY <1>3, <1>7 DEF Table!vars
<1>. QED
  BY <1>4, <1>5, <1>6, <1>7 DEF Effect, Table!Next

\* The action of KeysMoveRight.
Move ==
  \A p \in Leaves :
    /\ node'[p].leaf
    /\ \A k \in ToSet(node[p].keys) \ ToSet(node'[p].keys) :
         \E q \in Allocated' : q = node'[p].next /\ k \in ToSet(node'[q].keys)

LEMMA MoveStep ==
  ASSUME EntriesKnown, EntriesKnown', Effect
  PROVE  Move
<1>1. /\ Leaves = {p \in Pages : node[p].leaf}
      /\ \A p \in Leaves : \A x : x \in ToSet(node[p].keys) <=> \E e : Pair(node[p], x, e)
  BY DEF EntriesKnown
<1>2. /\ \A p \in Pages' : node'[p].leaf =>
           /\ p \in Allocated'
           /\ \A x : x \in ToSet(node'[p].keys) <=> \E e : Pair(node'[p], x, e)
  BY DEF EntriesKnown, Leaves
<1>3. ASSUME NEW k, NEW e, Entered(k, e) PROVE Move
  <2>1. ASSUME NEW p \in Leaves, NEW x \in ToSet(node[p].keys), x \notin ToSet(node'[p].keys)
        PROVE  \E q \in Allocated' : q = node'[p].next /\ x \in ToSet(node'[q].keys)
    <3>1. PICK f : Pair(node[p], x, f)
      BY <1>1, <2>1
    <3>2. p \in Pages /\ node[p].leaf /\ p \in Pages' /\ node'[p].leaf
      BY <1>1, <1>3 DEF Entered
    <3>3. \A g : ~Pair(node'[p], x, g)
      BY <1>2, <2>1, <3>2
    <3>4. x # k
      BY <1>3, <3>1, <3>2, <3>3 DEF Entered
    <3>5. /\ node'[p].next \in Pages' /\ node'[node'[p].next].leaf
          /\ Pair(node'[node'[p].next], x, f)
      BY <1>3, <3>1, <3>2, <3>3, <3>4 DEF Entered
    <3>. QED
      BY <1>2, <3>5
  <2>2. \A p \in Leaves : node'[p].leaf
    BY <1>1, <1>3 DEF Entered
  <2>. QED
    BY <2>1, <2>2 DEF Move
<1>4. CASE LeavesKept
  BY <1>1, <1>4 DEF LeavesKept, Move
<1>5. CASE node' = node
  BY <1>1, <1>5 DEF Move
<1>. QED
  BY <1>3, <1>4, <1>5 DEF Effect
-----------------------------------------------------------------------------
\* What holds of every run.

\* Every variable has its type.
THEOREM TypeCorrect == Spec => []TypeOK
  BY TreeInvariant, InvTypeOK, PTL

\* No page is overfull or less than half full, and only the root has the ROOT bit.
THEOREM FilledPages == Spec => []PagesAreFilled
  BY TreeInvariant, InvPagesAreFilled, PTL

\* The pages form one tree, also between two calls of insert_parent.
THEOREM TreeShape == Spec => []OneTree
  BY TreeInvariant, InvOneTree, PTL

\* Keys ascend in every page, the descent for a key that is in the index ends
\* in its leaf, and all leaves are equally deep.
THEOREM DescentFinds == Spec => []Searchable
  BY TreeInvariant, InvSearchable, PTL

\* No key leaves the index; one that leaves its page is in the next leaf.
THEOREM MovesRight == Spec => KeysMoveRight
<1>1. Inv /\ Inv' /\ EntriesKnown /\ EntriesKnown' /\ [Next]_vars =>
        [\A p \in Leaves :
           /\ node'[p].leaf
           /\ \A k \in ToSet(node[p].keys) \ ToSet(node'[p].keys) :
                \E q \in Allocated' : q = node'[p].next /\ k \in ToSet(node'[q].keys)]_vars
  BY NextInv, MoveStep DEF Move
<1>. QED
  BY <1>1, TreeInvariant, InvMapped, PTL DEF Spec, KeysMoveRight

\* The tree is a key table: add and remove do to the records what they
\* should, to no key but their own, and insert_parent does nothing to them.
THEOREM KeyTableRefined == Spec => ImplementsKeyTable
<1>1. Init => Table!Init
  <2> SUFFICES ASSUME Init PROVE Table!Init
    OBVIOUS
  <2>1. Leaves = {}
    BY DEF Init, Leaves, Allocated
  <2>2. \A k : RecordsUnder(k) = {}
    BY <2>1 DEF RecordsUnder
  <2>3. Content = [k \in Keys |-> ERROR_PAGE]
    BY <2>2 DEF Content
  <2>. QED
    BY <2>3 DEF Table!Init, Init
<1>2. Inv /\ Inv' /\ EntriesKnown /\ EntriesKnown' /\ [Next]_vars =>
        [Table!Next]_(Table!vars)
  BY NextInv, TableStep
<1>. QED
  BY <1>1, <1>2, TreeInvariant, InvMapped, PTL DEF Spec, ImplementsKeyTable, Table!Spec
=============================================================================
