--------------------------- MODULE BPlusScanProofs ---------------------------
(***************************************************************************)
(* Proofs about the queries of the index: for every tree that BPlusTree    *)
(* can build, every interval and every limit; and about what connections,  *)
(* transactions and divisions leave of them, for every number of each.     *)
(*                                                                         *)
(* Argument. The leaves own intervals of the integers, and `next` leads    *)
(* from each to the next (Chained of BPlusTreeProofs). A scan stands at a  *)
(* position of a leaf, and with it at a number f: what it has passed is    *)
(* less than f, what is before it is not, and it has gathered exactly the  *)
(* live keys of the interval below f. It never comes to a leaf twice, and  *)
(* so ends before the iterations it may use are used up, at the last of    *)
(* them or at a key behind the interval; where there is neither, it does   *)
(* not end (Halts).                                                        *)
(*                                                                         *)
(* The loop of cursor.cpp is the same one over the shared pages, where the *)
(* tree of the last commit is, with the owners at0, while those of the     *)
(* tree that the transaction sees are `at`. A division changes owners in   *)
(* favour of a new page only, and never those of small numbers (Inherits   *)
(* of BPlusTreeProofs). So a descent of the transaction ends in a leaf of  *)
(* the committed tree that owns the same numbers there, or in a new page;  *)
(* an old root stays the first page of its level, from where a descent     *)
(* cannot come out too far right. And where nothing was divided both trees *)
(* have the same owners, so that pages of the one and the other together   *)
(* are again a chain (MixedTree): what a scan meets while a commit         *)
(* replaces the pages one by one.                                          *)
(***************************************************************************)
EXTENDS BPlusTreeProofs, Connections, FiniteSetTheorems, TLAPS

\* The nodes N of the leaves P are a chain, in which own[x] is the owner of
\* x, and hold the table `content`.
Chain(N, own, P, content) ==
  /\ P \subseteq PageIds
  /\ \A x \in Int : own[x] \in P
  /\ \A x \in Int : own[x + 1] # own[x] => N[own[x]].next = own[x + 1]
  /\ \A x, y, z \in Int : x < y /\ y < z /\ own[x] = own[z] => own[y] = own[x]
  /\ \A p \in P : /\ N[p].keys \in Seq(Int) /\ Sorted(N[p].keys)
                  /\ Len(N[p].keys) <= Order - 1
                  /\ N[p].ch \in Seq(Entries)
  /\ \A p \in P : \A i \in 1 .. Len(N[p].keys) :
       /\ N[p].keys[i] \in Keys /\ own[N[p].keys[i]] = p
       /\ content[N[p].keys[i]] = N[p].ch[i] /\ i \in 1 .. Len(N[p].ch)
  /\ \A k \in Keys : content[k] # ERROR_PAGE =>
       \E i \in 1 .. Len(N[own[k]].keys) : N[own[k]].keys[i] = k

\* The scan is at position pos of leaf L.
Stands(N, own, lb, L, pos, g, f) ==
  /\ g \in Int /\ f \in Int /\ lb <= f /\ (f = g \/ f = g + 1)
  /\ own[g] = L
  /\ pos \in 1 .. Len(N[L].keys) + 1
  /\ \A j \in 1 .. pos - 1 : N[L].keys[j] < f
  /\ \A j \in pos .. Len(N[L].keys) : f <= N[L].keys[j]

\* The chain ends, or there is a key not below f that is behind ub.
Halts(N, own, ub, f) ==
  \/ \A x \in Int : (\A y \in Int : x <= y => own[y] = own[x]) =>
                      N[own[x]].next = ERROR_PAGE
  \/ \E k \in Int : /\ ub < k /\ f <= k
                    /\ \E i \in 1 .. Len(N[own[k]].keys) : N[own[k]].keys[i] = k

\* It has gathered the records of the live keys below f.
Gathered(content, live, f, recs) ==
  /\ Len(recs) = Cardinality({k \in live : k < f})
  /\ \A i \in 1 .. Len(recs) :
       \E k \in live : k < f /\ Rank(live, k) = i /\ recs[i] = content[k]

\* It has left the leaves V for ever.
Visited(own, g, V) ==
  V \subseteq PageIds /\ \A x \in Int : g <= x => own[x] \notin V

LEMMA LiveKnown ==
  ASSUME NEW content, NEW lb \in Int, NEW ub \in Int, NEW k
  PROVE  k \in Live(content, lb, ub) <=>
           k \in Keys /\ k \in Int /\ lb <= k /\ k <= ub /\ content[k] # ERROR_PAGE
  BY TreeAssumption DEF Live

\* A live key of the leaf that is not passed is still before the scan.
LEMMA Before ==
  ASSUME NEW N, NEW own, NEW P, NEW content, Chain(N, own, P, content),
         NEW lb \in Int, NEW ub \in Int, NEW L, NEW pos, NEW g, NEW f,
         Stands(N, own, lb, L, pos, g, f),
         NEW k \in Live(content, lb, ub), f <= k, own[k] = L
  PROVE  \E j \in pos .. Len(N[L].keys) : N[L].keys[j] = k
<1>1. k \in Keys /\ k \in Int /\ content[k] # ERROR_PAGE
  BY LiveKnown
<1>2. PICK i \in 1 .. Len(N[L].keys) : N[L].keys[i] = k
  BY <1>1 DEF Chain
<1>3. L \in P /\ Len(N[L].keys) \in Nat
  <2>1. L \in P
    BY DEF Chain, Stands
  <2>. QED
    BY <2>1, LenProperties DEF Chain
<1>4. pos \in Nat /\ f \in Int
  BY <1>3 DEF Stands
<1>5. ~(i \in 1 .. pos - 1)
  <2>1. SUFFICES ASSUME i \in 1 .. pos - 1 PROVE FALSE
    OBVIOUS
  <2>2. N[L].keys[i] < f
    BY <2>1 DEF Stands
  <2>. QED
    BY <1>1, <1>2, <1>4, <2>2
<1>6. i \in pos .. Len(N[L].keys)
  BY <1>3, <1>4, <1>5
<1>. QED
  BY <1>2, <1>6

\* The key at the position is the first that can be live, and is passed.
LEMMA KeyPassed ==
  ASSUME NEW N, NEW own, NEW P, NEW content, Chain(N, own, P, content),
         NEW lb \in Int, NEW ub \in Int, NEW L, NEW pos, NEW g, NEW f,
         Stands(N, own, lb, L, pos, g, f), pos <= Len(N[L].keys)
  PROVE  LET k == N[L].keys[pos]
         IN  /\ k \in Keys /\ k \in Int /\ lb <= k /\ f <= k
             /\ content[k] = N[L].ch[pos] /\ N[L].ch[pos] \in Entries
             /\ Stands(N, own, lb, L, pos + 1, k, k + 1)
             /\ \A y \in Live(content, lb, ub) : f <= y => k <= y
             /\ \A V : Visited(own, g, V) => Visited(own, k, V)
<1>s. PICK s : s = N[L].keys
  OBVIOUS
<1>1. /\ L \in P /\ s \in Seq(Int) /\ Sorted(s) /\ Len(s) \in Nat
      /\ N[L].ch \in Seq(Entries)
  <2>1. L \in P
    BY DEF Chain, Stands
  <2>. QED
    BY <1>s, <2>1, LenProperties DEF Chain
<1>2. pos \in Nat /\ pos \in 1 .. Len(s) /\ f \in Int /\ g \in Int /\ lb <= f /\ g <= f
  BY <1>1, <1>s DEF Stands
<1>k. PICK k \in Int : k = s[pos]
  BY <1>1, <1>2
<1>3. k \in Keys /\ own[k] = L /\ content[k] = N[L].ch[pos] /\ pos \in 1 .. Len(N[L].ch)
  BY <1>1, <1>2, <1>k, <1>s DEF Chain
<1>4. f <= k /\ lb <= k /\ g <= k
  <2>1. pos \in pos .. Len(s)
    BY <1>1, <1>2
  <2>2. f <= k
    BY <1>k, <1>s, <2>1 DEF Stands
  <2>. QED
    BY <1>2, <2>2
<1>5. N[L].ch[pos] \in Entries
  BY <1>1, <1>3
<1>6. Stands(N, own, lb, L, pos + 1, k, k + 1)
  <2>1. ASSUME NEW j \in 1 .. (pos + 1) - 1 PROVE s[j] < k + 1
    <3>1. j \in 1 .. Len(s) /\ (j = pos \/ j < pos)
      BY <1>1, <1>2
    <3>2. s[j] \in Int
      BY <1>1, <3>1
    <3>3. j < pos => s[j] < s[pos]
      BY <1>2, <1>1, <3>1 DEF Sorted
    <3>. QED
      BY <1>k, <3>1, <3>2, <3>3
  <2>2. ASSUME NEW j \in pos + 1 .. Len(s) PROVE k + 1 <= s[j]
    <3>1. j \in 1 .. Len(s) /\ pos < j
      BY <1>1, <1>2
    <3>2. s[j] \in Int /\ s[pos] < s[j]
      BY <1>1, <1>2, <3>1 DEF Sorted
    <3>. QED
      BY <1>k, <3>2
  <2>3. pos + 1 \in 1 .. Len(s) + 1 /\ k + 1 \in Int
    BY <1>1, <1>2
  <2>. QED
    BY <1>3, <1>4, <1>s, <2>1, <2>2, <2>3 DEF Stands
<1>7. ASSUME NEW y \in Live(content, lb, ub), f <= y PROVE k <= y
  <2>0. y \in Int
    BY LiveKnown
  <2>1. SUFFICES ASSUME y < k PROVE FALSE
    BY <2>0
  <2>2. own[y] = L
    <3>1. own[g] = L
      BY DEF Stands
    <3>2. g = y \/ (g < y /\ y < k)
      BY <1>2, <1>7, <2>0, <2>1
    <3>3. CASE g < y /\ y < k
      BY <1>2, <1>3, <2>0, <3>1, <3>3 DEF Chain
    <3>. QED
      BY <3>1, <3>2, <3>3
  <2>3. PICK j \in pos .. Len(s) : s[j] = y
    BY <1>7, <1>s, <2>2, Before
  <2>4. j \in 1 .. Len(s) /\ (j = pos \/ pos < j)
    BY <1>1, <1>2
  <2>5. pos < j => s[pos] < s[j]
    BY <1>1, <1>2, <2>4 DEF Sorted
  <2>. QED
    BY <1>k, <2>0, <2>1, <2>3, <2>4, <2>5
<1>8. ASSUME NEW V, Visited(own, g, V) PROVE Visited(own, k, V)
  <2>1. \A x \in Int : k <= x => g <= x
    BY <1>2, <1>4
  <2>. QED
    BY <1>8, <2>1 DEF Visited
<1>. QED
  BY <1>3, <1>4, <1>5, <1>6, <1>7, <1>8, <1>k, <1>s

\* Behind the last key of leaf L the scan goes to the owner of the first
\* number behind f that L does not own.
MovesOn(N, own, content, lb, ub, L, g, f, x) ==
  /\ x \in Int /\ f <= x + 1
  /\ N[L].next = own[x + 1]
  /\ Stands(N, own, lb, own[x + 1], 1, x + 1, x + 1)
  /\ \A y \in Live(content, lb, ub) : f <= y => x + 1 <= y
  /\ \A V : Visited(own, g, V) => L \notin V /\ Visited(own, x + 1, V \cup {L})
  /\ Halts(N, own, ub, x + 1)

LEMMA LeafPassed ==
  ASSUME NEW N, NEW own, NEW P, NEW content, Chain(N, own, P, content),
         NEW lb \in Int, NEW ub \in Int, NEW L, NEW pos, NEW g, NEW f,
         Stands(N, own, lb, L, pos, g, f), pos > Len(N[L].keys), Halts(N, own, ub, f)
  PROVE  \/ N[L].next = ERROR_PAGE /\ \A y \in Live(content, lb, ub) : y < f
         \/ /\ N[L].next # ERROR_PAGE
            /\ \E x \in Int : MovesOn(N, own, content, lb, ub, L, g, f, x)
<1>1. /\ g \in Int /\ f \in Int /\ lb <= f /\ (f = g \/ f = g + 1) /\ own[g] = L
      /\ pos \in 1 .. Len(N[L].keys) + 1
  BY DEF Stands
<1>2. L \in P /\ L \in PageIds /\ Len(N[L].keys) \in Nat
  <2>1. L \in P
    BY <1>1 DEF Chain
  <2>. QED
    BY <2>1, LenProperties DEF Chain
<1>3. ASSUME NEW y \in Live(content, lb, ub), f <= y, own[y] = L PROVE FALSE
  <2>1. PICK j \in pos .. Len(N[L].keys) : N[L].keys[j] = y
    BY <1>3, Before
  <2>. QED
    BY <1>1, <1>2, <2>1
<1>7. ASSUME NEW k \in Int, f <= k, own[k] = L,
             NEW i \in 1 .. Len(N[L].keys), N[L].keys[i] = k
      PROVE  FALSE
  <2>1. i \in 1 .. pos - 1
    BY <1>1, <1>2
  <2>2. N[L].keys[i] < f
    BY <2>1 DEF Stands
  <2>. QED
    BY <1>1, <1>7, <2>2
<1> DEFINE T == {n \in Nat : own[g + n + 1] # L}
<1>4. CASE T = {}
  <2>1. ASSUME NEW y \in Int, g <= y PROVE own[y] = L
    <3>1. CASE y = g
      BY <1>1, <3>1
    <3>2. CASE y # g
      <4>1. PICK n \in Nat : n = y - g - 1 /\ y = g + n + 1
        BY <1>1, <2>1, <3>2
      <4>2. n \notin T
        BY <1>4
      <4>. QED
        BY <4>1, <4>2
    <3>. QED
      BY <3>1, <3>2
  <2>2. N[L].next = ERROR_PAGE
    <3>1. CASE \A x \in Int : (\A y \in Int : x <= y => own[y] = own[x]) =>
                              N[own[x]].next = ERROR_PAGE
      BY <1>1, <2>1, <3>1
    <3>2. ASSUME NEW k \in Int, ub < k, f <= k,
                 NEW i \in 1 .. Len(N[own[k]].keys), N[own[k]].keys[i] = k
          PROVE  FALSE
      <4>1. own[k] = L
        BY <1>1, <2>1, <3>2
      <4>. QED
        BY <1>7, <3>2, <4>1
    <3>. QED
      BY <3>1, <3>2 DEF Halts
  <2>3. ASSUME NEW y \in Live(content, lb, ub) PROVE y < f
    <3>1. y \in Int
      BY LiveKnown
    <3>2. SUFFICES ASSUME f <= y PROVE FALSE
      BY <1>1, <3>1
    <3>3. own[y] = L
      BY <1>1, <2>1, <3>1, <3>2
    <3>. QED
      BY <1>3, <3>2, <3>3
  <2>. QED
    BY <2>2, <2>3
<1>5. CASE T # {}
  <2>1. PICK n \in T : \A m \in T : n <= m
    <3>1. T \in SUBSET Nat
      OBVIOUS
    <3> HIDE DEF T
    <3>. QED
      BY <1>5, <3>1, LeastExists
  <2>2. PICK x \in Int : x = g + n /\ g <= x /\ x + 1 \in Int
    BY <1>1, <2>1
  <2>3. own[x + 1] # L
    BY <2>1, <2>2
  <2>4. ASSUME NEW y \in Int, g <= y, y <= x PROVE own[y] = L
    <3>1. CASE y = g
      BY <1>1, <3>1
    <3>2. CASE y # g
      <4>1. PICK m \in Nat : m = y - g - 1 /\ y = g + m + 1 /\ ~(n <= m)
        BY <1>1, <2>1, <2>2, <2>4, <3>2
      <4>2. m \notin T
        <5> HIDE DEF T
        <5>. QED
          BY <2>1, <4>1
      <4>. QED
        BY <4>1, <4>2
    <3>. QED
      BY <3>1, <3>2
  <2> HIDE DEF T
  <2>5. own[x] = L /\ N[L].next = own[x + 1] /\ own[x + 1] \in P /\ own[x + 1] # ERROR_PAGE
    <3>1. own[x] = L
      BY <2>2, <2>4
    <3>2. N[own[x]].next = own[x + 1] /\ own[x + 1] \in P
      BY <2>2, <2>3, <3>1 DEF Chain
    <3>3. ERROR_PAGE \notin PageIds
      BY DEF ERROR_PAGE, PageIds
    <3>. QED
      BY <3>1, <3>2, <3>3 DEF Chain
  <2>6. \A y \in Live(content, lb, ub) : f <= y => x + 1 <= y
    <3>1. SUFFICES ASSUME NEW y \in Live(content, lb, ub), f <= y PROVE x + 1 <= y
      OBVIOUS
    <3>2. y \in Int
      BY LiveKnown
    <3>3. y <= x => own[y] = L
      BY <1>1, <2>4, <3>1, <3>2
    <3>4. ~(y <= x)
      BY <1>3, <3>1, <3>3
    <3>. QED
      BY <2>2, <3>2, <3>4
  <2>7. PICK M : M = own[x + 1]
    OBVIOUS
  <2>8. Stands(N, own, lb, M, 1, x + 1, x + 1)
    <3>1. M \in P /\ Len(N[M].keys) \in Nat
      BY <2>5, <2>7, LenProperties DEF Chain
    <3>2. ASSUME NEW j \in 1 .. Len(N[M].keys) PROVE x + 1 <= N[M].keys[j]
      <4>1. PICK k \in Int : k = N[M].keys[j] /\ own[k] = M
        <5>1. N[M].keys[j] \in Int
          BY <3>1, <3>2 DEF Chain
        <5>. QED
          BY <3>1, <5>1 DEF Chain
      <4>2. k # x
        BY <2>3, <2>5, <2>7, <4>1
      <4>3. ~(k < x)
        <5>1. SUFFICES ASSUME k < x PROVE FALSE
          OBVIOUS
        <5>2. x < x + 1 /\ own[k] = own[x + 1]
          BY <2>7, <4>1
        <5>3. own[x] = own[k]
          BY <2>2, <5>1, <5>2 DEF Chain
        <5>. QED
          BY <2>3, <2>5, <5>2, <5>3
      <4>. QED
        BY <4>1, <4>2, <4>3
    <3>3. 1 \in 1 .. Len(N[M].keys) + 1 /\ lb <= x + 1 /\ \A j \in 1 .. 1 - 1 : FALSE
      BY <1>1, <2>2, <3>1
    <3>. QED
      BY <2>2, <2>7, <3>2, <3>3 DEF Stands
  <2>9. ASSUME NEW V, Visited(own, g, V) PROVE L \notin V /\ Visited(own, x + 1, V \cup {L})
    <3>1. V \subseteq PageIds /\ \A y \in Int : g <= y => own[y] \notin V
      BY <2>9 DEF Visited
    <3>2. L \notin V
      BY <1>1, <3>1
    <3>3. ASSUME NEW y \in Int, x + 1 <= y PROVE own[y] \notin V \cup {L}
      <4>1. own[y] \notin V
        BY <1>1, <2>2, <3>1, <3>3
      <4>2. own[y] # L
        <5>1. SUFFICES ASSUME own[y] = L PROVE FALSE
          OBVIOUS
        <5>2. x < x + 1 /\ own[x] = own[y] /\ y # x + 1
          BY <2>3, <2>5, <5>1
        <5>3. x + 1 < y
          BY <2>2, <3>3, <5>2
        <5>4. own[x + 1] = own[x]
          BY <2>2, <5>2, <5>3 DEF Chain
        <5>. QED
          BY <2>3, <2>5, <5>4
      <4>. QED
        BY <4>1, <4>2
    <3>. QED
      BY <1>2, <3>1, <3>2, <3>3 DEF Visited
  <2>10. f <= x + 1
    BY <1>1, <2>2
  <2>12. Halts(N, own, ub, x + 1)
    <3>1. ASSUME NEW k \in Int, ub < k, f <= k,
                 NEW i \in 1 .. Len(N[own[k]].keys), N[own[k]].keys[i] = k
          PROVE  x + 1 <= k
      <4>1. own[k] # L
        BY <1>7, <3>1
      <4>2. ~(k <= x)
        BY <1>1, <2>4, <3>1, <4>1
      <4>. QED
        BY <2>2, <3>1, <4>2
    <3>. QED
      BY <3>1 DEF Halts
  <2>11. MovesOn(N, own, content, lb, ub, L, g, f, x)
    BY <2>2, <2>5, <2>6, <2>7, <2>8, <2>9, <2>10, <2>12 DEF MovesOn
  <2>. QED
    BY <2>5, <2>11
<1>. QED
  BY <1>4, <1>5

\* What is gathered while the scan passes no live key, and one.
LEMMA NothingGathered ==
  ASSUME NEW content, NEW live, live \subseteq Int, NEW f \in Int, NEW f2 \in Int, NEW recs,
         Gathered(content, live, f, recs), f <= f2, \A y \in live : f <= y => f2 <= y
  PROVE  Gathered(content, live, f2, recs)
<1>1. \A k \in live : k < f <=> k < f2
  <2>1. SUFFICES ASSUME NEW k \in live PROVE k < f <=> k < f2
    OBVIOUS
  <2>2. k \in Int
    OBVIOUS
  <2>. QED
    BY <2>2
<1>2. {k \in live : k < f} = {k \in live : k < f2}
  BY <1>1
<1>. QED
  BY <1>1, <1>2 DEF Gathered

LEMMA OneGathered ==
  ASSUME NEW content, NEW live, live \subseteq Int, IsFiniteSet(live), NEW f \in Int, NEW S,
         NEW recs \in Seq(S), Gathered(content, live, f, recs),
         NEW k \in live, f <= k, \A y \in live : f <= y => k <= y, content[k] \in S
  PROVE  /\ Gathered(content, live, k + 1, Append(recs, content[k]))
         /\ Append(recs, content[k]) \in Seq(S)
         /\ Len(Append(recs, content[k])) = Len(recs) + 1
<1> DEFINE A == {y \in live : y < f}
           B == {y \in live : y < k + 1}
<1>1. k \in Int /\ live \subseteq Int
  OBVIOUS
<1>2. B = A \cup {k} /\ k \notin A
  <2>1. ASSUME NEW y \in live PROVE y < k + 1 <=> y < f \/ y = k
    <3>1. y \in Int /\ (f <= y => k <= y)
      OBVIOUS
    <3>. QED
      BY <1>1, <3>1
  <2>2. ~(k < f)
    BY <1>1
  <2>. QED
    BY <2>1, <2>2
<1>3. IsFiniteSet(A)
  BY FS_Subset
<1>4. Cardinality(B) = Cardinality(A) + 1
  <2> HIDE DEF A, B
  <2>. QED
    BY <1>2, <1>3, FS_AddElement
<1>5. Rank(live, k) = Cardinality(B)
  <2>1. {j \in live : j <= k} = B
    <3>1. ASSUME NEW y \in live PROVE y <= k <=> y < k + 1
      <4>1. y \in Int
        OBVIOUS
      <4>. QED
        BY <1>1, <4>1
    <3>. QED
      BY <3>1
  <2>. QED
    BY <2>1 DEF Rank
<1>6. /\ Len(recs) = Cardinality(A)
      /\ \A i \in 1 .. Len(recs) :
           \E y \in live : y < f /\ Rank(live, y) = i /\ recs[i] = content[y]
  BY DEF Gathered
<1>7. PICK t : t = Append(recs, content[k])
  OBVIOUS
<1>8. PICK n \in Nat : n = Len(recs)
  BY LenProperties
<1>9. /\ t \in Seq(S) /\ Len(t) = n + 1 /\ t[n + 1] = content[k]
      /\ \A i \in 1 .. n : t[i] = recs[i]
  BY <1>7, <1>8
<1>10. ASSUME NEW i \in 1 .. n + 1
       PROVE  \E y \in live : y < k + 1 /\ Rank(live, y) = i /\ t[i] = content[y]
  <2>1. CASE i = n + 1
    <3>1. Rank(live, k) = i
      BY <1>4, <1>5, <1>6, <1>8, <2>1
    <3>2. k < k + 1
      BY <1>1
    <3>. QED
      BY <1>9, <2>1, <3>1, <3>2
  <2>2. CASE i # n + 1
    <3>1. i \in 1 .. n
      BY <2>2
    <3>2. PICK y \in live : y < f /\ Rank(live, y) = i /\ recs[i] = content[y]
      BY <1>6, <1>8, <3>1
    <3>3. y < k + 1
      <4>1. y \in Int
        OBVIOUS
      <4>. QED
        BY <1>1, <3>2, <4>1
    <3>. QED
      BY <1>9, <3>1, <3>2, <3>3
  <2>. QED
    BY <2>1, <2>2
<1>11. Gathered(content, live, k + 1, t)
  <2>1. Len(t) = Cardinality(B)
    BY <1>4, <1>6, <1>8, <1>9
  <2>. QED
    BY <1>9, <1>10, <2>1 DEF Gathered
<1>. QED
  BY <1>7, <1>8, <1>9, <1>11

LEMMA RankUnique ==
  ASSUME NEW live, live \subseteq Int, IsFiniteSet(live), NEW j \in live, NEW k \in live,
         Rank(live, j) = Rank(live, k)
  PROVE  j = k
<1>1. ASSUME NEW a \in live, NEW b \in live, Rank(live, a) = Rank(live, b) PROVE ~(a < b)
  <2>1. SUFFICES ASSUME a < b PROVE FALSE
    OBVIOUS
  <2> DEFINE A == {y \in live : y <= a}
             B == {y \in live : y <= b}
  <2>2. a \in Int /\ b \in Int
    OBVIOUS
  <2>3. A \subseteq B /\ b \in B /\ b \notin A
    <3>1. ASSUME NEW y \in live, y <= a PROVE y <= b
      <4>1. y \in Int
        OBVIOUS
      <4>. QED
        BY <2>1, <2>2, <3>1, <4>1
    <3>2. b <= b /\ ~(b <= a)
      BY <2>1, <2>2
    <3>. QED
      BY <3>1, <3>2
  <2>4. IsFiniteSet(B)
    BY FS_Subset
  <2>5. Cardinality(A) = Cardinality(B)
    BY <1>1 DEF Rank
  <2> HIDE DEF A, B
  <2>6. A = B
    BY <2>3, <2>4, <2>5, FS_Subset
  <2>. QED
    BY <2>3, <2>6
<1>2. j \in Int /\ k \in Int
  OBVIOUS
<1>3. ~(j < k) /\ ~(k < j)
  BY <1>1
<1>. QED
  BY <1>2, <1>3

\* What is gathered in the end is the answer.
LEMMA GatheredAll ==
  ASSUME NEW content, NEW lb \in Int, NEW ub \in Int, NEW need \in Nat,
         NEW live, live = Live(content, lb, ub), live \subseteq Int, IsFiniteSet(live),
         NEW S, NEW recs \in Seq(S), NEW f \in Int, Gathered(content, live, f, recs),
         Len(recs) = need \/ (Len(recs) <= need /\ \A y \in live : y < f)
  PROVE  recs = Answer(content, lb, ub, need)
<1> DEFINE A == {y \in live : y < f}
           way == [i \in 1 .. Len(recs) |-> content[CHOOSE k \in live : Rank(live, k) = i]]
<1>1. PICK c \in Nat : c = Cardinality(live)
  BY FS_CardinalityType
<1>2. PICK n \in Nat : n = Len(recs)
  BY LenProperties
<1>3. n = Cardinality(A) /\ n <= c
  <2>1. A \in SUBSET live
    OBVIOUS
  <2>2. n = Cardinality(A)
    BY <1>2 DEF Gathered
  <2> HIDE DEF A
  <2>3. Cardinality(A) <= Cardinality(live)
    BY <2>1, FS_Subset
  <2>. QED
    BY <1>1, <2>2, <2>3
<1>4. n = need \/ (n <= need /\ n = c)
  <2>1. CASE Len(recs) = need
    BY <1>2, <2>1
  <2>2. CASE Len(recs) <= need /\ \A y \in live : y < f
    <3>1. A = live
      BY <2>2
    <3>. QED
      BY <1>1, <1>2, <1>3, <2>2, <3>1
  <2>. QED
    BY <2>1, <2>2
<1>5. Min({need, c}) = n
  <2>1. n \in {need, c} /\ \A y \in {need, c} : n <= y
    BY <1>3, <1>4
  <2>2. \A m \in {need, c} : (\A y \in {need, c} : m <= y) => m = n
    BY <1>1, <1>2, <2>1
  <2>. QED
    BY <2>1, <2>2 DEF Min
<1>6. ASSUME NEW i \in 1 .. n
      PROVE  recs[i] = content[CHOOSE k \in live : Rank(live, k) = i]
  <2>1. PICK k \in live : Rank(live, k) = i /\ recs[i] = content[k]
    BY <1>2 DEF Gathered
  <2>2. PICK j : j = CHOOSE y \in live : Rank(live, y) = i
    OBVIOUS
  <2>3. j \in live /\ Rank(live, j) = i
    BY <2>1, <2>2
  <2>4. j = k
    BY <2>1, <2>3, RankUnique
  <2>. QED
    BY <2>1, <2>2, <2>4
<1>7. recs = way
  <2>1. recs = [i \in 1 .. n |-> recs[i]]
    BY <1>2
  <2>. QED
    BY <1>2, <1>6, <2>1
<1>8. Answer(content, lb, ub, need) =
        [i \in 1 .. Min({need, c}) |-> content[CHOOSE k \in live : Rank(live, k) = i]]
  BY <1>1 DEF Answer
<1>. QED
  BY <1>2, <1>5, <1>7, <1>8

-----------------------------------------------------------------------------
\* The loop of a scan. After i iterations it is on its way, or at the end.

OnTheWay(N, own, content, lb, ub, leaf, pos, recs, i) ==
  \E g, f, V :
    /\ Stands(N, own, lb, leaf, pos, g, f)
    /\ Gathered(content, Live(content, lb, ub), f, recs)
    /\ Visited(own, g, V)
    /\ Halts(N, own, ub, f)
    /\ i <= Cardinality(V) * Order + (pos - 1)

AtTheEnd(content, lb, ub, recs) ==
  \E f \in Int : /\ Gathered(content, Live(content, lb, ub), f, recs)
                 /\ \A y \in Live(content, lb, ub) : y < f

LEMMA VisitedFinite ==
  ASSUME NEW own, NEW g, NEW V, Visited(own, g, V)
  PROVE  IsFiniteSet(V) /\ Cardinality(V) \in Nat /\ Cardinality(V) <= MaxPage
<1>1. MaxPage \in Nat /\ V \in SUBSET PageIds
  BY TreeAssumption DEF Visited
<1>2. IsFiniteSet(PageIds) /\ Cardinality(PageIds) = MaxPage
  BY <1>1, FS_Interval DEF PageIds
<1>. QED
  BY <1>1, <1>2, FS_Subset, FS_CardinalityType

LEMMA TimesOrder ==
  ASSUME NEW a \in Nat, NEW b \in Nat, a < b
  PROVE  a * Order + Order <= b * Order /\ (a + 1) * Order = a * Order + Order
<1>1. Order \in Nat
  BY OrderFacts
<1>2. PICK d \in Nat : b = a + 1 + d
  <2>1. b - a - 1 \in Nat /\ b = a + 1 + (b - a - 1)
    OBVIOUS
  <2>. QED
    BY <2>1
<1>3. b * Order = a * Order + Order + d * Order
  BY <1>1, <1>2
<1>4. d * Order \in Nat /\ a * Order \in Nat
  BY <1>1, <1>2
<1>5. (a + 1) * Order = a * Order + Order
  BY <1>1
<1>. QED
  BY <1>1, <1>3, <1>4, <1>5

\* A scan that is on its way has not used up its iterations.
LEMMA InTime ==
  ASSUME NEW N, NEW own, NEW P, NEW content, Chain(N, own, P, content),
         NEW lb \in Int, NEW ub \in Int, NEW L, NEW pos, NEW recs, NEW i \in Nat,
         OnTheWay(N, own, content, lb, ub, L, pos, recs, i)
  PROVE  L \in P /\ i < MaxSteps
<1>1. PICK g, f, V :
        /\ Stands(N, own, lb, L, pos, g, f)
        /\ Visited(own, g, V)
        /\ i <= Cardinality(V) * Order + (pos - 1)
  BY DEF OnTheWay
<1>2. /\ L \in P /\ Len(N[L].keys) \in Nat /\ Len(N[L].keys) <= Order - 1
      /\ pos \in 1 .. Len(N[L].keys) + 1 /\ g \in Int /\ own[g] = L /\ L \in PageIds
  <2>1. L \in P /\ g \in Int /\ own[g] = L /\ pos \in 1 .. Len(N[L].keys) + 1
    BY <1>1 DEF Chain, Stands
  <2>. QED
    BY <2>1, LenProperties DEF Chain
<1>3. L \notin V
  BY <1>1, <1>2 DEF Visited
<1>4. Cardinality(V) < MaxPage /\ Cardinality(V) \in Nat /\ MaxPage \in Nat
  <2>1. Cardinality(V) \in Nat /\ IsFiniteSet(V)
    BY <1>1, VisitedFinite
  <2>2. MaxPage \in Nat
    BY TreeAssumption
  <2>3. V \cup {L} \in SUBSET PageIds
    BY <1>1, <1>2 DEF Visited
  <2>4. IsFiniteSet(PageIds) /\ Cardinality(PageIds) = MaxPage
    BY <2>2, FS_Interval DEF PageIds
  <2>5. Cardinality(V \cup {L}) <= MaxPage
    BY <2>3, <2>4, FS_Subset
  <2>6. Cardinality(V \cup {L}) = Cardinality(V) + 1
    BY <1>3, <2>1, FS_AddElement
  <2>. QED
    BY <2>1, <2>2, <2>5, <2>6
<1>5. PICK c \in Nat : c = Cardinality(V)
  BY <1>4
<1>6. c * Order + Order <= MaxPage * Order
  BY <1>4, <1>5, TimesOrder
<1>7. MaxSteps = MaxPage * Order + MaxPage + 1
  BY <1>4, OrderFacts DEF MaxSteps
<1>8. PICK co, mo \in Nat : co = c * Order /\ mo = MaxPage * Order
  BY <1>4, OrderFacts
<1>9. i <= co + (pos - 1) /\ co + Order <= mo /\ MaxSteps = mo + MaxPage + 1
  BY <1>1, <1>5, <1>6, <1>7, <1>8
<1>10. i < MaxSteps
  <2>1. Order \in Nat /\ pos \in Nat /\ pos <= Order
    BY <1>2, OrderFacts
  <2>. QED
    BY <1>4, <1>9, <2>1
<1>. QED
  BY <1>2, <1>10

\* What each iteration may meet, and how the scan goes on.
Onward(N, own, content, lb, ub, L, pos, recs, i) ==
  /\ pos \in Nat
  /\ pos > Len(N[L].keys) =>
       /\ N[L].next = ERROR_PAGE => AtTheEnd(content, lb, ub, recs)
       /\ N[L].next # ERROR_PAGE => OnTheWay(N, own, content, lb, ub, N[L].next, 1, recs, i + 1)
  /\ pos <= Len(N[L].keys) =>
       /\ N[L].keys[pos] > ub => AtTheEnd(content, lb, ub, recs)
       /\ ~(N[L].keys[pos] > ub) /\ N[L].ch[pos] = ERROR_PAGE =>
            OnTheWay(N, own, content, lb, ub, L, pos + 1, recs, i + 1)
       /\ ~(N[L].keys[pos] > ub) /\ N[L].ch[pos] # ERROR_PAGE =>
            OnTheWay(N, own, content, lb, ub, L, pos + 1, Append(recs, N[L].ch[pos]), i + 1)

LEMMA Iteration ==
  ASSUME NEW N, NEW own, NEW P, NEW content, Chain(N, own, P, content), IsFiniteSet(Keys),
         NEW lb \in Int, NEW ub \in Int, NEW L, NEW pos, NEW recs \in Seq(Entries),
         NEW i \in Nat, OnTheWay(N, own, content, lb, ub, L, pos, recs, i)
  PROVE  Onward(N, own, content, lb, ub, L, pos, recs, i)
<1>l. PICK live : live = Live(content, lb, ub)
  OBVIOUS
<1>0. live \subseteq Int /\ IsFiniteSet(live)
  <2>1. live \in SUBSET Keys /\ live \subseteq Int
    BY <1>l, TreeAssumption DEF Live
  <2>. QED
    BY <2>1, FS_Subset
<1>1. PICK g, f, V :
        /\ Stands(N, own, lb, L, pos, g, f)
        /\ Gathered(content, live, f, recs)
        /\ Visited(own, g, V) /\ Halts(N, own, ub, f)
        /\ i <= Cardinality(V) * Order + (pos - 1)
  BY <1>l DEF OnTheWay
<1>2. /\ L \in P /\ Len(N[L].keys) \in Nat /\ Len(N[L].keys) <= Order - 1
      /\ pos \in 1 .. Len(N[L].keys) + 1 /\ pos \in Nat /\ f \in Int /\ g \in Int
  <2>1. L \in P /\ g \in Int /\ f \in Int /\ own[g] = L /\ pos \in 1 .. Len(N[L].keys) + 1
    BY <1>1 DEF Chain, Stands
  <2>2. Len(N[L].keys) \in Nat
    BY <2>1, LenProperties DEF Chain
  <2>. QED
    BY <2>1, <2>2 DEF Chain
<1>3. Cardinality(V) \in Nat /\ IsFiniteSet(V) /\ Order \in Nat
  BY <1>1, VisitedFinite, OrderFacts
<1>4. PICK c \in Nat : c = Cardinality(V) * Order
  BY <1>3
<1>5. ASSUME pos > Len(N[L].keys)
      PROVE  /\ N[L].next = ERROR_PAGE => AtTheEnd(content, lb, ub, recs)
             /\ N[L].next # ERROR_PAGE =>
                  OnTheWay(N, own, content, lb, ub, N[L].next, 1, recs, i + 1)
  <2>1. \/ N[L].next = ERROR_PAGE /\ \A y \in live : y < f
        \/ /\ N[L].next # ERROR_PAGE
           /\ \E x \in Int : MovesOn(N, own, content, lb, ub, L, g, f, x)
    BY <1>1, <1>5, <1>l, LeafPassed
  <2>2. CASE N[L].next = ERROR_PAGE /\ \A y \in live : y < f
    BY <1>1, <1>2, <1>l, <2>2 DEF AtTheEnd
  <2>3. CASE N[L].next # ERROR_PAGE /\ \E x \in Int : MovesOn(N, own, content, lb, ub, L, g, f, x)
    <3>1. PICK x \in Int : MovesOn(N, own, content, lb, ub, L, g, f, x)
      BY <2>3
    <3>2. /\ f <= x + 1 /\ x + 1 \in Int
          /\ N[L].next = own[x + 1]
          /\ Stands(N, own, lb, own[x + 1], 1, x + 1, x + 1)
          /\ \A y \in live : f <= y => x + 1 <= y
          /\ L \notin V /\ Visited(own, x + 1, V \cup {L})
          /\ Halts(N, own, ub, x + 1)
      <4>1. /\ f <= x + 1 /\ x + 1 \in Int
            /\ N[L].next = own[x + 1]
            /\ Stands(N, own, lb, own[x + 1], 1, x + 1, x + 1)
            /\ Halts(N, own, ub, x + 1)
        BY <3>1 DEF MovesOn
      <4>2. \A y \in live : f <= y => x + 1 <= y
        BY <1>l, <3>1 DEF MovesOn
      <4>3. L \notin V /\ Visited(own, x + 1, V \cup {L})
        BY <1>1, <3>1 DEF MovesOn
      <4>. QED
        BY <4>1, <4>2, <4>3
    <3>3. Gathered(content, live, x + 1, recs)
      BY <1>0, <1>1, <1>2, <3>2, NothingGathered
    <3>4. Cardinality(V \cup {L}) = Cardinality(V) + 1
      BY <1>3, <3>2, FS_AddElement
    <3>5. i + 1 <= Cardinality(V \cup {L}) * Order + (1 - 1)
      <4>1. (Cardinality(V) + 1) * Order = c + Order
        <5>1. Cardinality(V) + 1 \in Nat /\ Cardinality(V) < Cardinality(V) + 1
          BY <1>3
        <5>2. (Cardinality(V) + 1) * Order = Cardinality(V) * Order + Order
          BY <1>3, <5>1, TimesOrder
        <5>. QED
          BY <1>4, <5>2
      <4>2. i + 1 <= c + Order
        <5>1. i <= c + (pos - 1)
          BY <1>1, <1>4
        <5>2. pos - 1 <= Order - 1 /\ pos \in Nat /\ c \in Nat /\ Order \in Nat
          BY <1>2, <1>3
        <5>. QED
          BY <5>1, <5>2
      <4>. QED
        BY <1>3, <3>4, <4>1, <4>2
    <3>6. OnTheWay(N, own, content, lb, ub, N[L].next, 1, recs, i + 1)
      BY <1>l, <3>2, <3>3, <3>5 DEF OnTheWay
    <3>. QED
      BY <2>3, <3>6
  <2>. QED
    BY <2>1, <2>2, <2>3
<1>6. ASSUME pos <= Len(N[L].keys)
      PROVE  /\ N[L].keys[pos] > ub => AtTheEnd(content, lb, ub, recs)
             /\ ~(N[L].keys[pos] > ub) /\ N[L].ch[pos] = ERROR_PAGE =>
                  OnTheWay(N, own, content, lb, ub, L, pos + 1, recs, i + 1)
             /\ ~(N[L].keys[pos] > ub) /\ N[L].ch[pos] # ERROR_PAGE =>
                  OnTheWay(N, own, content, lb, ub, L, pos + 1,
                           Append(recs, N[L].ch[pos]), i + 1)
  <2>k. PICK k : k = N[L].keys[pos]
    OBVIOUS
  <2>1. /\ k \in Keys /\ k \in Int /\ lb <= k /\ f <= k
        /\ content[k] = N[L].ch[pos] /\ N[L].ch[pos] \in Entries
        /\ Stands(N, own, lb, L, pos + 1, k, k + 1)
        /\ \A y \in live : f <= y => k <= y
        /\ \A W : Visited(own, g, W) => Visited(own, k, W)
    BY <1>1, <1>6, <1>l, <2>k, KeyPassed
  <2>2. Visited(own, k, V)
    BY <1>1, <2>1
  <2>3. i + 1 <= Cardinality(V) * Order + ((pos + 1) - 1)
    BY <1>1, <1>2, <1>4
  <2>h. ASSUME ~(k > ub) PROVE Halts(N, own, ub, k + 1)
    <3>1. ASSUME NEW y \in Int, ub < y PROVE k + 1 <= y
      BY <2>1, <2>h, <3>1
    <3>. QED
      BY <1>1, <3>1 DEF Halts
  <2>4. ASSUME k > ub PROVE AtTheEnd(content, lb, ub, recs)
    <3>1. ASSUME NEW y \in live PROVE y < f
      <4>1. y \in Int /\ y <= ub
        BY <1>l, LiveKnown
      <4>2. ~(f <= y)
        BY <2>1, <2>4, <4>1
      <4>. QED
        BY <1>2, <4>1, <4>2
    <3>. QED
      BY <1>1, <1>2, <1>l, <3>1 DEF AtTheEnd
  <2>5. ASSUME ~(k > ub), N[L].ch[pos] = ERROR_PAGE
        PROVE  OnTheWay(N, own, content, lb, ub, L, pos + 1, recs, i + 1)
    <3>1. k \notin live
      BY <1>l, <2>1, <2>5, LiveKnown
    <3>2. ASSUME NEW y \in live, f <= y PROVE k + 1 <= y
      <4>1. y \in Int /\ k <= y /\ y # k
        BY <1>0, <2>1, <3>1, <3>2
      <4>. QED
        BY <2>1, <4>1
    <3>3. f <= k + 1 /\ k + 1 \in Int
      BY <1>2, <2>1
    <3>4. Gathered(content, live, k + 1, recs)
      BY <1>0, <1>1, <1>2, <3>2, <3>3, NothingGathered
    <3>5. Halts(N, own, ub, k + 1)
      BY <2>5, <2>h
    <3>. QED
      BY <1>l, <2>1, <2>2, <2>3, <3>4, <3>5 DEF OnTheWay
  <2>6. ASSUME ~(k > ub), N[L].ch[pos] # ERROR_PAGE
        PROVE  OnTheWay(N, own, content, lb, ub, L, pos + 1, Append(recs, N[L].ch[pos]), i + 1)
    <3>1. k \in live
      <4>1. k <= ub
        BY <2>1, <2>6
      <4>. QED
        BY <1>l, <2>1, <2>6, <4>1, LiveKnown
    <3>2. content[k] \in Entries
      BY <2>1
    <3>3. Gathered(content, live, k + 1, Append(recs, content[k]))
      BY <1>0, <1>1, <1>2, <2>1, <3>1, <3>2, OneGathered
    <3>4. Gathered(content, live, k + 1, Append(recs, N[L].ch[pos]))
      BY <2>1, <3>3
    <3>5. Halts(N, own, ub, k + 1)
      BY <2>6, <2>h
    <3>. QED
      BY <1>l, <2>1, <2>2, <2>3, <3>4, <3>5 DEF OnTheWay
  <2>. QED
    BY <2>4, <2>5, <2>6, <2>k
<1>. QED
  BY <1>2, <1>5, <1>6 DEF Onward

-----------------------------------------------------------------------------
\* The iterations of traverse as one function.

States == [leaf : Nat, pos : Nat, need : Int, records : Seq(Entries), done : BOOLEAN]

\* Loop state u has these fields.
Goes(u, leaf, pos, need, records) ==
  u \in States /\ u.leaf = leaf /\ u.pos = pos /\ u.need = need /\ u.records = records

Stepped(t, ub) == IF t.done \/ t.leaf \notin Leaves THEN t ELSE Traversed(t, ub)

\* An iteration of query().
ScanStepped(t, ub) == IF t.done THEN t ELSE Advanced(t, ub)

\* One step of a descent through the shared pages.
Lower(p, key) ==
  IF shared[p].leaf THEN p ELSE shared[p].ch[find_first_gt(shared[p], key)]

\* An iteration: of the loop of traverse, of that of query(), of a descent.
LoopStepped(inTree, down, t, z) ==
  IF inTree THEN Stepped(t, z) ELSE IF down THEN Lower(t, z) ELSE ScanStepped(t, z)

Over(t, z) == [t EXCEPT !.done = z]
Crossed(t, w) == [t EXCEPT !.leaf = w, !.pos = 1]
Passed(t, x) == [t EXCEPT !.pos = x]
Taken(t, x, y, n, z) == [t EXCEPT !.pos = x, !.records = y, !.need = n, !.done = z]

LEMMA StateOver ==
  ASSUME NEW t \in States, NEW z \in BOOLEAN
  PROVE  Goes(Over(t, z), t.leaf, t.pos, t.need, t.records) /\ Over(t, z).done = z
<1>1. PICK m : m = [t EXCEPT !.done = z]
  OBVIOUS
<1>2. Goes(m, t.leaf, t.pos, t.need, t.records) /\ m.done = z
  BY <1>1 DEF Goes, States
<1>. QED
  BY <1>1, <1>2 DEF Over

LEMMA StateCrossed ==
  ASSUME NEW t \in States, NEW w \in Nat
  PROVE  Goes(Crossed(t, w), w, 1, t.need, t.records) /\ Crossed(t, w).done = t.done
<1>1. PICK m : m = [t EXCEPT !.leaf = w, !.pos = 1]
  OBVIOUS
<1>2. Goes(m, w, 1, t.need, t.records) /\ m.done = t.done
  BY <1>1 DEF Goes, States
<1>. QED
  BY <1>1, <1>2 DEF Crossed

LEMMA StatePassed ==
  ASSUME NEW t \in States, NEW x \in Nat
  PROVE  Goes(Passed(t, x), t.leaf, x, t.need, t.records) /\ Passed(t, x).done = t.done
<1>1. PICK m : m = [t EXCEPT !.pos = x]
  OBVIOUS
<1>2. Goes(m, t.leaf, x, t.need, t.records) /\ m.done = t.done
  BY <1>1 DEF Goes, States
<1>. QED
  BY <1>1, <1>2 DEF Passed

LEMMA StateTaken ==
  ASSUME NEW t \in States, NEW x \in Nat, NEW y \in Seq(Entries),
         NEW n \in Int, NEW z \in BOOLEAN
  PROVE  Goes(Taken(t, x, y, n, z), t.leaf, x, n, y) /\ Taken(t, x, y, n, z).done = z
<1>1. PICK m : m = [t EXCEPT !.pos = x, !.records = y, !.need = n, !.done = z]
  OBVIOUS
<1>2. Goes(m, t.leaf, x, n, y) /\ m.done = z
  BY <1>1 DEF Goes, States
<1>. QED
  BY <1>1, <1>2 DEF Taken

\* The ways of going on from leaf m.
LEMMA SteppedStates ==
  ASSUME NEW t \in States, t.leaf \in Leaves, ~t.done, NEW ub,
         NEW m, m = node[t.leaf], m.next \in Nat,
         t.pos \in 1 .. Len(m.keys) => m.ch[t.pos] \in Entries,
         NEW u, u = Stepped(t, ub), t.pos \in 1 .. Len(m.keys) + 1, Len(m.keys) \in Nat
  PROVE  /\ t.pos > Len(m.keys) /\ m.next = ERROR_PAGE =>
              Goes(u, t.leaf, t.pos, t.need, t.records) /\ u.done
         /\ t.pos > Len(m.keys) /\ m.next # ERROR_PAGE =>
              Goes(u, m.next, 1, t.need, t.records) /\ ~u.done
         /\ t.pos <= Len(m.keys) /\ m.keys[t.pos] > ub =>
              Goes(u, t.leaf, t.pos, t.need, t.records) /\ u.done
         /\ t.pos <= Len(m.keys) /\ ~(m.keys[t.pos] > ub) /\ m.ch[t.pos] = ERROR_PAGE =>
              Goes(u, t.leaf, t.pos + 1, t.need, t.records) /\ ~u.done
         /\ t.pos <= Len(m.keys) /\ ~(m.keys[t.pos] > ub) /\ m.ch[t.pos] # ERROR_PAGE =>
              /\ Goes(u, t.leaf, t.pos + 1, t.need - 1, Append(t.records, m.ch[t.pos]))
              /\ u.done <=> t.need = 1
<1>1. u = Traversed(t, ub)
  BY DEF Stepped
<1>2. PICK yes \in BOOLEAN, one \in BOOLEAN : yes = TRUE /\ one = (t.need = 1)
  OBVIOUS
<1>3. u = IF t.pos > Len(m.keys)
          THEN IF m.next = ERROR_PAGE THEN Over(t, yes) ELSE Crossed(t, m.next)
          ELSE IF m.keys[t.pos] > ub THEN Over(t, yes)
          ELSE IF m.ch[t.pos] = ERROR_PAGE THEN Passed(t, t.pos + 1)
          ELSE Taken(t, t.pos + 1, Append(t.records, m.ch[t.pos]), t.need - 1, one)
  BY <1>1, <1>2 DEF Traversed, Over, Crossed, Passed, Taken
<1>4. t.pos \in Nat /\ t.pos + 1 \in Nat /\ t.need \in Int /\ t.need - 1 \in Int
      /\ t.records \in Seq(Entries) /\ 1 \in Nat
  BY DEF States
<1>5. CASE t.pos > Len(m.keys)
  <2>1. CASE m.next = ERROR_PAGE
    <3>1. u = Over(t, yes)
      BY <1>3, <1>5, <2>1
    <3>2. Goes(u, t.leaf, t.pos, t.need, t.records) /\ u.done = yes
      BY <1>4, <3>1, StateOver
    <3>. QED
      BY <1>2, <1>4, <1>5, <2>1, <3>2
  <2>2. CASE m.next # ERROR_PAGE
    <3>1. u = Crossed(t, m.next)
      BY <1>3, <1>5, <2>2
    <3>2. Goes(u, m.next, 1, t.need, t.records) /\ u.done = t.done
      BY <1>4, <3>1, StateCrossed
    <3>. QED
      BY <1>4, <1>5, <2>2, <3>2
  <2>. QED
    BY <2>1, <2>2
<1>6. CASE t.pos <= Len(m.keys)
  <2>0. ~(t.pos > Len(m.keys)) /\ t.pos \in 1 .. Len(m.keys)
    BY <1>4, <1>6
  <2>1. CASE m.keys[t.pos] > ub
    <3>1. u = Over(t, yes)
      BY <1>3, <2>0, <2>1
    <3>2. Goes(u, t.leaf, t.pos, t.need, t.records) /\ u.done = yes
      BY <1>4, <3>1, StateOver
    <3>. QED
      BY <1>2, <2>0, <2>1, <3>2
  <2>2. CASE ~(m.keys[t.pos] > ub) /\ m.ch[t.pos] = ERROR_PAGE
    <3>1. u = Passed(t, t.pos + 1)
      BY <1>3, <2>0, <2>2
    <3>2. Goes(u, t.leaf, t.pos + 1, t.need, t.records) /\ u.done = t.done
      BY <1>4, <3>1, StatePassed
    <3>. QED
      BY <2>0, <2>2, <3>2
  <2>3. CASE ~(m.keys[t.pos] > ub) /\ m.ch[t.pos] # ERROR_PAGE
    <3>1. PICK more \in Seq(Entries) : more = Append(t.records, m.ch[t.pos])
      <4>1. PICK e \in Entries : e = m.ch[t.pos]
        BY <2>0
      <4>2. Append(t.records, e) \in Seq(Entries)
        BY <1>4
      <4>. QED
        BY <4>1, <4>2
    <3>2. u = Taken(t, t.pos + 1, more, t.need - 1, one)
      BY <1>3, <2>0, <2>3, <3>1
    <3>3. Goes(u, t.leaf, t.pos + 1, t.need - 1, more) /\ u.done = one
      BY <1>4, <3>2, StateTaken
    <3>. QED
      BY <1>2, <2>0, <2>3, <3>1, <3>3
  <2>. QED
    BY <2>1, <2>2, <2>3
<1>. QED
  BY <1>4, <1>5, <1>6

\* The loop has a state after every number of iterations.
IsWay(g, inTree, down, x, ub, n) ==
  g = [i \in 0 .. n |-> IF i = 0 THEN x ELSE LoopStepped(inTree, down, g[i - 1], ub)]

LEMMA Iterates ==
  ASSUME NEW inTree, NEW down, NEW x, NEW ub, NEW n \in Nat
  PROVE  \E g : IsWay(g, inTree, down, x, ub, n)
<1> SUFFICES \E g : g = [i \in 0 .. n |-> IF i = 0 THEN x ELSE LoopStepped(inTree, down, g[i - 1], ub)]
  BY DEF IsWay
<1> DEFINE Bad == {m \in Nat :
                     ~\E g : g = [i \in 0 .. m |-> IF i = 0 THEN x ELSE LoopStepped(inTree, down, g[i - 1], ub)]}
<1> SUFFICES ASSUME Bad # {} PROVE FALSE
  OBVIOUS
<1>1. PICK m \in Bad : \A y \in Bad : m <= y
  <2>1. Bad \in SUBSET Nat
    OBVIOUS
  <2> HIDE DEF Bad
  <2>. QED
    BY <2>1, LeastExists
<1>2. m \in Nat /\ ~\E g : g = [i \in 0 .. m |-> IF i = 0 THEN x ELSE LoopStepped(inTree, down, g[i - 1], ub)]
  BY <1>1
<1>3. CASE m = 0
  <2>1. PICK g : g = [i \in 0 .. m |-> x]
    OBVIOUS
  <2>2. g = [i \in 0 .. m |-> IF i = 0 THEN x ELSE LoopStepped(inTree, down, g[i - 1], ub)]
    BY <1>3, <2>1
  <2>. QED
    BY <1>2, <2>2
<1>4. CASE m # 0
  <2>1. m - 1 \in Nat /\ ~(m <= m - 1)
    BY <1>2, <1>4
  <2>2. m - 1 \notin Bad
    <3> HIDE DEF Bad
    <3>. QED
      BY <1>1, <2>1
  <2>3. PICK g : g = [i \in 0 .. m - 1 |-> IF i = 0 THEN x ELSE LoopStepped(inTree, down, g[i - 1], ub)]
    BY <2>1, <2>2
  <2>4. PICK f : f = [i \in 0 .. m |-> IF i <= m - 1 THEN g[i] ELSE LoopStepped(inTree, down, g[m - 1], ub)]
    OBVIOUS
  <2>5. ASSUME NEW i \in 0 .. m PROVE f[i] = IF i = 0 THEN x ELSE LoopStepped(inTree, down, f[i - 1], ub)
    <3>1. CASE i = 0
      <4>1. i \in 0 .. m - 1 /\ i <= m - 1
        BY <2>1, <3>1
      <4>2. g[i] = x
        BY <2>3, <3>1, <4>1
      <4>. QED
        BY <2>4, <3>1, <4>1, <4>2
    <3>2. CASE i # 0 /\ i <= m - 1
      <4>1. i \in 0 .. m - 1 /\ i - 1 \in 0 .. m /\ i - 1 <= m - 1
        BY <2>1, <3>2
      <4>2. g[i] = LoopStepped(inTree, down, g[i - 1], ub)
        BY <2>3, <3>2, <4>1
      <4>3. f[i] = g[i] /\ f[i - 1] = g[i - 1]
        BY <2>4, <3>2, <4>1
      <4>. QED
        BY <3>2, <4>2, <4>3
    <3>3. CASE i # 0 /\ ~(i <= m - 1)
      <4>1. i = m /\ m - 1 \in 0 .. m /\ m - 1 <= m - 1
        BY <2>1, <1>2, <3>3
      <4>2. f[i] = LoopStepped(inTree, down, g[m - 1], ub) /\ f[m - 1] = g[m - 1]
        BY <2>4, <3>3, <4>1
      <4>. QED
        BY <3>3, <4>1, <4>2
    <3>. QED
      BY <3>1, <3>2, <3>3
  <2>6. f = [i \in 0 .. m |-> f[i]]
    BY <2>4
  <2>7. f = [i \in 0 .. m |-> IF i = 0 THEN x ELSE LoopStepped(inTree, down, f[i - 1], ub)]
    BY <2>5, <2>6
  <2>. QED
    BY <1>2, <2>7
<1>. QED
  BY <1>3, <1>4

-----------------------------------------------------------------------------
\* What is true of the loop after i iterations.
Reached(own, content, lb, ub, need, t, i) ==
  /\ t \in States
  /\ t.done =>
       \E f \in Int :
         /\ Gathered(content, Live(content, lb, ub), f, t.records)
         /\ \/ Len(t.records) = need
            \/ Len(t.records) <= need /\ \A y \in Live(content, lb, ub) : y < f
  /\ ~t.done =>
       /\ OnTheWay(node, own, content, lb, ub, t.leaf, t.pos, t.records, i)
       /\ 1 <= t.need /\ t.need + Len(t.records) = need

LEMMA ReachedNext ==
  ASSUME NEW own, NEW content, Chain(node, own, Leaves, content), IsFiniteSet(Keys),
         \A p \in Leaves : node[p].next \in Nat,
         NEW lb \in Int, NEW ub \in Int, NEW need \in Nat, NEW t, NEW i \in Nat,
         Reached(own, content, lb, ub, need, t, i)
  PROVE  Reached(own, content, lb, ub, need, Stepped(t, ub), i + 1)
<1>u. PICK u : u = Stepped(t, ub)
  OBVIOUS
<1>0. t \in States /\ t.done \in BOOLEAN /\ t.records \in Seq(Entries) /\ Len(t.records) \in Nat
      /\ t.need \in Int
  BY DEF Reached, States
<1>1. CASE t.done
  <2>1. u = t
    BY <1>1, <1>u DEF Stepped
  <2>2. Reached(own, content, lb, ub, need, t, i + 1)
    BY <1>1 DEF Reached
  <2>. QED
    BY <1>u, <2>1, <2>2
<1>2. CASE ~t.done
  <2>1. /\ OnTheWay(node, own, content, lb, ub, t.leaf, t.pos, t.records, i)
        /\ 1 <= t.need /\ t.need + Len(t.records) = need
    BY <1>2 DEF Reached
  <2>2. Onward(node, own, content, lb, ub, t.leaf, t.pos, t.records, i)
    BY <1>0, <2>1, Iteration
  <2>3. t.leaf \in Leaves
    BY <2>1, InTime
  <2>m. PICK m : m = node[t.leaf]
    OBVIOUS
  <2>4. t.pos \in 1 .. Len(m.keys) + 1
    BY <2>1, <2>m DEF OnTheWay, Stands
  <2>5. /\ m.next \in Nat /\ Len(m.keys) \in Nat
        /\ t.pos \in 1 .. Len(m.keys) => m.ch[t.pos] \in Entries
    <3>1. m.keys \in Seq(Int) /\ m.ch \in Seq(Entries)
      BY <2>3, <2>m DEF Chain
    <3>2. ASSUME t.pos \in 1 .. Len(m.keys) PROVE m.ch[t.pos] \in Entries
      <4>1. t.pos \in 1 .. Len(m.ch)
        BY <2>3, <2>m, <3>2 DEF Chain
      <4>. QED
        BY <3>1, <4>1
    <3>. QED
      BY <2>3, <2>m, <3>1, <3>2
  <2>6. Live(content, lb, ub) \subseteq Int
    BY LiveKnown
  <2>7. CASE t.pos > Len(m.keys) /\ m.next = ERROR_PAGE
    <3>1. AtTheEnd(content, lb, ub, t.records)
      BY <2>2, <2>7, <2>m DEF Onward
    <3>2. Goes(u, t.leaf, t.pos, t.need, t.records) /\ u.done
      BY <1>0, <1>2, <1>u, <2>3, <2>4, <2>5, <2>7, <2>m, SteppedStates
    <3>3. u \in States /\ u.records = t.records /\ u.done /\ Len(t.records) <= need
      BY <1>0, <2>1, <3>2 DEF Goes
    <3>. QED
      BY <1>u, <3>1, <3>3 DEF Reached, AtTheEnd
  <2>8. CASE t.pos > Len(m.keys) /\ m.next # ERROR_PAGE
    <3>1. OnTheWay(node, own, content, lb, ub, m.next, 1, t.records, i + 1)
      BY <2>2, <2>8, <2>m DEF Onward
    <3>2. Goes(u, m.next, 1, t.need, t.records) /\ ~u.done
      BY <1>0, <1>2, <1>u, <2>3, <2>4, <2>5, <2>8, <2>m, SteppedStates
    <3>3. u \in States /\ u.records = t.records /\ ~u.done /\ u.leaf = m.next /\ u.pos = 1
          /\ u.need = t.need
      BY <3>2 DEF Goes
    <3>. QED
      BY <1>u, <2>1, <3>1, <3>3 DEF Reached
  <2>9. CASE t.pos <= Len(m.keys) /\ m.keys[t.pos] > ub
    <3>1. AtTheEnd(content, lb, ub, t.records)
      BY <2>2, <2>9, <2>m DEF Onward
    <3>2. Goes(u, t.leaf, t.pos, t.need, t.records) /\ u.done
      BY <1>0, <1>2, <1>u, <2>3, <2>4, <2>5, <2>9, <2>m, SteppedStates
    <3>3. u \in States /\ u.records = t.records /\ u.done /\ Len(t.records) <= need
      BY <1>0, <2>1, <3>2 DEF Goes
    <3>. QED
      BY <1>u, <3>1, <3>3 DEF Reached, AtTheEnd
  <2>10. CASE t.pos <= Len(m.keys) /\ ~(m.keys[t.pos] > ub) /\ m.ch[t.pos] = ERROR_PAGE
    <3>1. OnTheWay(node, own, content, lb, ub, t.leaf, t.pos + 1, t.records, i + 1)
      BY <2>2, <2>10, <2>m DEF Onward
    <3>2. Goes(u, t.leaf, t.pos + 1, t.need, t.records) /\ ~u.done
      BY <1>0, <1>2, <1>u, <2>3, <2>4, <2>5, <2>10, <2>m, SteppedStates
    <3>3. u \in States /\ u.records = t.records /\ ~u.done /\ u.leaf = t.leaf /\ u.pos = t.pos + 1
          /\ u.need = t.need
      BY <3>2 DEF Goes
    <3>. QED
      BY <1>u, <2>1, <3>1, <3>3 DEF Reached
  <2>11. CASE t.pos <= Len(m.keys) /\ ~(m.keys[t.pos] > ub) /\ m.ch[t.pos] # ERROR_PAGE
    <3>r. PICK more : more = Append(t.records, m.ch[t.pos])
      OBVIOUS
    <3>1. OnTheWay(node, own, content, lb, ub, t.leaf, t.pos + 1, more, i + 1)
      BY <2>2, <2>11, <2>m, <3>r DEF Onward
    <3>2. Goes(u, t.leaf, t.pos + 1, t.need - 1, more) /\ (u.done <=> t.need = 1)
      BY <1>0, <1>2, <1>u, <2>3, <2>4, <2>5, <2>11, <2>m, <3>r, SteppedStates
    <3>3. u \in States /\ u.records = more /\ u.leaf = t.leaf /\ u.pos = t.pos + 1
          /\ u.need = t.need - 1
      BY <3>2 DEF Goes
    <3>4. Len(more) = Len(t.records) + 1
      <4>1. PICK e \in Entries : e = m.ch[t.pos]
        <5>1. t.pos \in 1 .. Len(m.keys)
          BY <2>4, <2>5, <2>11
        <5>. QED
          BY <2>5, <5>1
      <4>2. Len(Append(t.records, e)) = Len(t.records) + 1
        BY <1>0
      <4>. QED
        BY <3>r, <4>1, <4>2
    <3>5. CASE t.need = 1
      <4>1. u.done /\ Len(more) = need
        BY <1>0, <2>1, <3>2, <3>4, <3>5
      <4>2. \E f \in Int : Gathered(content, Live(content, lb, ub), f, more)
        BY <3>1 DEF OnTheWay, Stands
      <4>. QED
        BY <1>u, <3>3, <4>1, <4>2 DEF Reached
    <3>6. CASE t.need # 1
      <4>1. ~u.done /\ 1 <= t.need - 1 /\ (t.need - 1) + Len(more) = need
        <5>1. ~u.done
          BY <3>2, <3>6
        <5>2. PICK n \in Int, l \in Nat : n = t.need /\ l = Len(t.records)
          BY <1>0
        <5>3. 1 <= n - 1 /\ (n - 1) + (l + 1) = need
          BY <2>1, <3>6, <5>2
        <5>. QED
          BY <3>4, <5>1, <5>2, <5>3
      <4>. QED
        BY <1>u, <3>1, <3>3, <4>1 DEF Reached
    <3>. QED
      BY <3>5, <3>6
  <2>. QED
    <3>1. t.pos > Len(m.keys) \/ t.pos <= Len(m.keys)
      BY <2>4, <2>5
    <3>. QED
      BY <2>7, <2>8, <2>9, <2>10, <2>11, <3>1
<1>. QED
  BY <1>0, <1>1, <1>2

\* The start of a scan.
LEMMA ReachedFirst ==
  ASSUME NEW own, NEW content, Chain(node, own, Leaves, content),
         NEW lb \in Int, NEW ub \in Int, Halts(node, own, ub, lb), NEW need \in Nat, NEW t,
         t = [leaf |-> own[lb], pos |-> find_first_ge(node[own[lb]], lb), need |-> need,
              records |-> <<>>, done |-> need = 0]
  PROVE  Reached(own, content, lb, ub, need, t, 0)
<1>l. PICK leaf : leaf = own[lb]
  OBVIOUS
<1>m. PICK m : m = node[leaf]
  OBVIOUS
<1>p. PICK pos : pos = find_first_ge(m, lb)
  OBVIOUS
<1>b. PICK b \in BOOLEAN : b = (need = 0)
  OBVIOUS
<1>e. PICK r \in Seq(Entries) : r = <<>> /\ Len(r) = 0
  <2>1. <<>> \in Seq(Entries) /\ Len(<<>>) = 0
    OBVIOUS
  <2>. QED
    BY <2>1
<1>1. leaf \in Leaves /\ leaf \in Nat /\ m.keys \in Seq(Int) /\ Sorted(m.keys)
  <2>1. leaf \in Leaves /\ leaf \in PageIds
    BY <1>l DEF Chain
  <2>. QED
    BY <1>m, <2>1 DEF Chain, PageIds
<1>2. /\ pos \in 1 .. Len(m.keys) + 1 /\ pos \in Nat
      /\ \A j \in 1 .. pos - 1 : m.keys[j] < lb
      /\ \A j \in pos .. Len(m.keys) : lb <= m.keys[j]
  <2>1. /\ find_first_ge(m, lb) \in 1 .. Len(m.keys) + 1
        /\ \A j \in 1 .. find_first_ge(m, lb) - 1 : m.keys[j] < lb
        /\ \A j \in find_first_ge(m, lb) .. Len(m.keys) : lb <= m.keys[j]
    BY <1>1, PlaceFound, Zenon
  <2>2. Len(m.keys) \in Nat
    BY <1>1, LenProperties
  <2>3. \A j \in 1 .. Len(m.keys) + 1 : j \in Nat
    BY <2>2
  <2>. QED
    BY <1>p, <2>1, <2>3, Zenon
<1>3. t = [leaf |-> leaf, pos |-> pos, need |-> need, records |-> r, done |-> b]
  BY <1>l, <1>m, <1>p, <1>b, <1>e
<1>4. t \in States /\ t.leaf = leaf /\ t.pos = pos /\ t.need = need /\ t.records = r /\ t.done = b
  BY <1>1, <1>2, <1>3 DEF States
<1>5. Gathered(content, Live(content, lb, ub), lb, r)
  <2>1. {k \in Live(content, lb, ub) : k < lb} = {}
    BY LiveKnown
  <2>2. Cardinality({k \in Live(content, lb, ub) : k < lb}) = 0
    BY <2>1, FS_EmptySet
  <2>. QED
    BY <1>e, <2>2 DEF Gathered
<1>6. OnTheWay(node, own, content, lb, ub, leaf, pos, r, 0)
  <2>1. Stands(node, own, lb, leaf, pos, lb, lb)
    BY <1>l, <1>m, <1>2 DEF Stands
  <2>2. Visited(own, lb, {})
    BY DEF Visited
  <2>3. Cardinality({}) = 0 /\ 0 * Order = 0
    BY FS_EmptySet, OrderFacts
  <2>4. 0 <= Cardinality({}) * Order + (pos - 1)
    BY <1>2, <2>3
  <2>. QED
    BY <1>5, <2>1, <2>2, <2>4 DEF OnTheWay
<1>7. CASE need = 0
  <2>1. t.done
    BY <1>b, <1>4, <1>7
  <2>2. Len(t.records) = need /\ Gathered(content, Live(content, lb, ub), lb, t.records)
    BY <1>e, <1>4, <1>5, <1>7
  <2>. QED
    BY <1>4, <2>1, <2>2 DEF Reached
<1>8. CASE need # 0
  <2>1. ~t.done
    BY <1>b, <1>4, <1>8
  <2>2. 1 <= need /\ need + Len(r) = need
    BY <1>e, <1>8
  <2>3. 1 <= t.need /\ t.need + Len(t.records) = need
    BY <1>4, <2>2
  <2>. QED
    BY <1>4, <1>6, <2>1, <2>3 DEF Reached
<1>. QED
  BY <1>7, <1>8


\* traverse comes to its end, with the answer.
LEMMA TraverseAnswers ==
  ASSUME NEW own, NEW content, Chain(node, own, Leaves, content), IsFiniteSet(Keys),
         \A p \in Leaves : node[p].next \in Nat,
         NEW lb \in Int, NEW ub \in Int, Halts(node, own, ub, lb),
         NEW need \in Nat, NEW leaf, leaf = own[lb],
         NEW pos, pos = find_first_ge(node[leaf], lb)
  PROVE  traverse(leaf, pos, ub, need) = Answer(content, lb, ub, need)
<1> DEFINE first == [leaf |-> leaf, pos |-> pos, need |-> need,
                     records |-> <<>>, done |-> need = 0]
           way == CHOOSE g : g = [i \in 0 .. MaxSteps |->
                                    IF i = 0 THEN first ELSE Stepped(g[i - 1], ub)]
<1>0. MaxSteps \in Nat
  <2>1. MaxPage \in Nat /\ Order + 1 \in Nat
    BY TreeAssumption, OrderFacts
  <2>2. MaxPage * (Order + 1) \in Nat
    BY <2>1
  <2>. QED
    BY <2>2 DEF MaxSteps
<1>1. traverse(leaf, pos, ub, need) =
        IF way[MaxSteps].done THEN way[MaxSteps].records ELSE Undefined
  BY DEF traverse, Stepped
<1>2. Reached(own, content, lb, ub, need, first, 0)
  BY ReachedFirst
<1>3. way = [i \in 0 .. MaxSteps |-> IF i = 0 THEN first ELSE Stepped(way[i - 1], ub)]
  <2> HIDE DEF first
  <2>1. \E g : g = [i \in 0 .. MaxSteps |-> IF i = 0 THEN first ELSE Stepped(g[i - 1], ub)]
    <3>1. PICK g : IsWay(g, TRUE, FALSE, first, ub, MaxSteps)
      BY <1>0, Iterates
    <3>. QED
      BY <3>1 DEF IsWay, LoopStepped
  <2>. QED
    BY <2>1
<1> HIDE DEF first, way
<1>4. ASSUME NEW i \in 0 .. MaxSteps PROVE Reached(own, content, lb, ub, need, way[i], i)
  <2> DEFINE Bad == {j \in 0 .. MaxSteps : ~Reached(own, content, lb, ub, need, way[j], j)}
  <2> SUFFICES ASSUME Bad # {} PROVE FALSE
    OBVIOUS
  <2>1. Bad \in SUBSET Nat
    BY <1>0
  <2>2. PICK j \in Bad : \A k \in Bad : j <= k
    <3> HIDE DEF Bad
    <3>. QED
      BY <2>1, LeastExists
  <2>3. j \in 0 .. MaxSteps /\ ~Reached(own, content, lb, ub, need, way[j], j)
    BY <2>2
  <2>4. CASE j = 0
    <3>1. way[j] = first
      BY <1>3, <2>3, <2>4
    <3>. QED
      BY <1>2, <2>3, <2>4, <3>1
  <2>5. CASE j # 0
    <3>1. j - 1 \in 0 .. MaxSteps /\ ~(j <= j - 1) /\ j - 1 \in Nat /\ (j - 1) + 1 = j
      BY <1>0, <2>3, <2>5
    <3>2. j - 1 \notin Bad
      <4> HIDE DEF Bad
      <4>. QED
        BY <2>2, <3>1
    <3>3. Reached(own, content, lb, ub, need, way[j - 1], j - 1)
      BY <3>1, <3>2
    <3>4. Reached(own, content, lb, ub, need, Stepped(way[j - 1], ub), (j - 1) + 1)
      BY <3>1, <3>3, ReachedNext
    <3>5. way[j] = Stepped(way[j - 1], ub)
      BY <1>3, <2>3, <2>5
    <3>. QED
      BY <2>3, <3>1, <3>4, <3>5
  <2>. QED
    BY <2>4, <2>5
<1>l. PICK t : t = way[MaxSteps]
  OBVIOUS
<1>5. Reached(own, content, lb, ub, need, t, MaxSteps)
  BY <1>0, <1>4, <1>l
<1>6. t.done
  <2> SUFFICES ASSUME ~t.done PROVE FALSE
    OBVIOUS
  <2>1. OnTheWay(node, own, content, lb, ub, t.leaf, t.pos, t.records, MaxSteps)
    BY <1>5 DEF Reached
  <2>2. MaxSteps < MaxSteps
    BY <1>0, <2>1, InTime
  <2>. QED
    BY <1>0, <2>2
<1>v. PICK live : live = Live(content, lb, ub)
  OBVIOUS
<1>7. live \subseteq Int /\ IsFiniteSet(live)
  <2>1. live \in SUBSET Keys /\ live \subseteq Int
    BY <1>v, LiveKnown
  <2>. QED
    BY <2>1, FS_Subset
<1>8. PICK f \in Int :
        /\ Gathered(content, live, f, t.records)
        /\ Len(t.records) = need \/ (Len(t.records) <= need /\ \A y \in live : y < f)
  BY <1>5, <1>6, <1>v DEF Reached
<1>9. t.records \in Seq(Entries)
  BY <1>5 DEF Reached, States
<1>10. t.records = Answer(content, lb, ub, need)
  BY <1>v, <1>7, <1>8, <1>9, GatheredAll
<1>. QED
  BY <1>1, <1>6, <1>10, <1>l
-----------------------------------------------------------------------------
\* The tree that BPlusTree maintains is such a chain.

LEMMA TreeIsChain ==
  ASSUME Shape, EntriesKnown, root # ERROR_PAGE,
         NEW at, NEW ht, NEW h, Heights(ht, h), Owners(at, ht, h)
  PROVE  Chain(node, at[0], Leaves, Content) /\ \A p \in Leaves : node[p].next \in Nat
<1>1. /\ Allocated = Pages /\ Pages \subseteq PageIds
      /\ \A p \in Pages : NodeOK(node[p], p = root)
      /\ Leaves = {p \in Pages : node[p].leaf}
  BY PagesKnown DEF Shape, Leaves
<1>2. PICK own : own = at[0]
  OBVIOUS
<1>3. /\ \A x \in Int : own[x + 1] # own[x] => node[own[x]].next = own[x + 1]
      /\ \A x, y, z \in Int : x < y /\ y < z /\ own[x] = own[z] => own[y] = own[x]
  BY <1>2 DEF Owners, Chained
<1>4. ASSUME NEW x \in Int PROVE own[x] \in Leaves
  <2>1. 0 \in 0 .. h
    BY DEF Heights
  <2>2. own[x] \in Pages /\ ht[own[x]] = 0
    BY <1>2, <2>1 DEF Owners
  <2>. QED
    BY <1>1, <2>2 DEF Heights
<1>5. ASSUME NEW p \in Leaves
      PROVE  /\ node[p] \in Nodes /\ node[p].keys \in Seq(Keys)
             /\ node[p].keys \in Seq(Int) /\ Sorted(node[p].keys)
             /\ Len(node[p].keys) <= Order - 1 /\ Len(node[p].ch) = Len(node[p].keys)
             /\ node[p].ch \in Seq(Entries)
             /\ node[p].next \in Nat
  <2>1. PICK b : b = (p = root)
    OBVIOUS
  <2>2. NodeOK(node[p], b) /\ node[p].leaf
    BY <1>1, <2>1
  <2>3. node[p] \in Nodes /\ Len(node[p].ch) = Len(node[p].keys)
    BY <2>2 DEF NodeOK
  <2>4. node[p].next \in StaleNext \cup PageIds
    BY <2>3, NodeFields
  <2>5. node[p].next \in Nat
    BY <2>4, TreeAssumption DEF PageIds
  <2>. QED
    BY <2>2, <2>3, <2>5, NodeSeqs
<1>6. ASSUME NEW p \in Leaves, NEW i \in 1 .. Len(node[p].keys)
      PROVE  /\ node[p].keys[i] \in Keys /\ own[node[p].keys[i]] = p
             /\ Content[node[p].keys[i]] = node[p].ch[i] /\ i \in 1 .. Len(node[p].ch)
  <2>1. node[p].keys[i] \in Keys
    BY <1>5
  <2>2. own[node[p].keys[i]] = p
    <3>1. p \in Pages /\ ht[p] = 0
      BY <1>1 DEF Heights
    <3>. QED
      BY <1>2, <3>1 DEF Owners
  <2>3. PICK k, e : k = node[p].keys[i] /\ e = node[p].ch[i]
    OBVIOUS
  <2>4. Content[k] = e
    <3>1. Pair(node[p], k, e)
      BY <2>3 DEF Pair
    <3>. QED
      BY <3>1 DEF EntriesKnown, Holds
  <2>. QED
    BY <1>5, <2>1, <2>2, <2>3, <2>4
<1>7. ASSUME NEW k \in Keys, Content[k] # ERROR_PAGE
      PROVE  \E i \in 1 .. Len(node[own[k]].keys) : node[own[k]].keys[i] = k
  <2>1. PICK p \in Leaves : \E e : Pair(node[p], k, e)
    BY <1>7 DEF EntriesKnown, Holds
  <2>2. PICK i \in 1 .. Len(node[p].keys) : node[p].keys[i] = k
    BY <2>1 DEF Pair
  <2>3. own[k] = p
    BY <1>6, <2>2
  <2>. QED
    BY <2>2, <2>3
<1>8. Chain(node, own, Leaves, Content)
  <2>1. Leaves \subseteq PageIds
    BY <1>1
  <2>. QED
    BY <1>3, <1>4, <1>5, <1>6, <1>7, <2>1 DEF Chain
<1>. QED
  BY <1>2, <1>5, <1>8

\* A scan that ComesToEnd does: the leaf without `next` is the last, for it
\* owns a number, and what follows it without end is its own.
LEMMA EndHalts ==
  ASSUME NEW N, NEW own, NEW P, NEW content, Chain(N, own, P, content),
         NEW lb \in Int, NEW ub \in Int, ComesToEnd(N, P, lb, ub),
         \A p \in P : N[p].keys # <<>>
  PROVE  Halts(N, own, ub, lb)
<1>1. PICK p \in P : N[p].next = ERROR_PAGE \/ \E k \in ToSet(N[p].keys) : lb <= k /\ ub < k
  BY DEF ComesToEnd
<1>2. PICK s \in Seq(Int) : s = N[p].keys /\ s # <<>>
  BY DEF Chain
<1>3. Len(s) \in Nat /\ Len(s) # 0 /\ \A i \in 1 .. Len(s) : s[i] \in Int /\ own[s[i]] = p
  <2>1. Len(s) \in Nat /\ Len(s) # 0
    BY <1>2
  <2>2. ASSUME NEW i \in 1 .. Len(s) PROVE s[i] \in Int /\ own[s[i]] = p
    BY <1>2, <2>2 DEF Chain
  <2>. QED
    BY <2>1, <2>2
<1>4. CASE N[p].next = ERROR_PAGE
  <2>1. PICK g \in Int : own[g] = p
    <3>1. 1 \in 1 .. Len(s)
      BY <1>3
    <3>. QED
      BY <1>3, <3>1
  <2>2. ASSUME NEW y \in Int, g <= y PROVE own[y] = p
    <3> DEFINE T == {n \in Nat : own[g + n] # p}
    <3>1. SUFFICES ASSUME T # {} PROVE FALSE
      <4>1. PICK m \in Nat : m = y - g /\ y = g + m
        BY <2>2
      <4>. QED
        BY <4>1
    <3>2. PICK n \in T : \A m \in T : n <= m
      <4>1. T \in SUBSET Nat
        OBVIOUS
      <4> HIDE DEF T
      <4>. QED
        BY <3>1, <4>1, LeastExists
    <3>3. n \in Nat /\ own[g + n] # p
      BY <3>2
    <3>4. n # 0
      BY <2>1, <3>3
    <3>5. PICK m \in Nat : m = n - 1 /\ n = m + 1 /\ ~(n <= m)
      BY <3>3, <3>4
    <3>6. m \notin T
      <4> HIDE DEF T
      <4>. QED
        BY <3>2, <3>5
    <3>7. PICK x \in Int : x = g + m /\ x + 1 = g + n
      BY <3>5
    <3>8. own[x] = p /\ own[x + 1] # p
      BY <3>3, <3>6, <3>7
    <3>9. N[p].next = own[x + 1] /\ own[x + 1] \in PageIds
      <4>1. x + 1 \in Int
        BY <3>7
      <4>. QED
        BY <3>8, <4>1 DEF Chain
    <3>. QED
      BY <1>4, <3>9 DEF ERROR_PAGE, PageIds
  <2>3. ASSUME NEW x \in Int, \A y \in Int : x <= y => own[y] = own[x]
        PROVE  N[own[x]].next = ERROR_PAGE
    <3>1. PICK y \in Int : x <= y /\ g <= y
      <4>1. x <= g \/ g <= x
        OBVIOUS
      <4>2. x <= x /\ g <= g
        OBVIOUS
      <4>. QED
        BY <4>1, <4>2
    <3>2. own[x] = p
      BY <2>2, <2>3, <3>1
    <3>. QED
      BY <1>4, <3>2
  <2>. QED
    BY <2>3 DEF Halts
<1>5. CASE \E k \in ToSet(N[p].keys) : lb <= k /\ ub < k
  <2>1. PICK k \in ToSet(s) : lb <= k /\ ub < k
    BY <1>2, <1>5
  <2>2. PICK i \in 1 .. Len(s) : s[i] = k
    BY <1>2, <2>1, InSet
  <2>3. k \in Int /\ own[k] = p
    BY <1>3, <2>2
  <2>. QED
    BY <1>2, <2>1, <2>2, <2>3 DEF Halts
<1>. QED
  BY <1>1, <1>4, <1>5

LEMMA InvScanCorrect == Inv => ScanCorrect
<1> SUFFICES ASSUME Inv, up = NoCall, NEW lb \in Bounds, NEW ub \in Bounds,
                    root = ERROR_PAGE \/ ComesToEnd(node, Leaves, lb, ub), NEW need \in Needs
             PROVE  find_range(lb, ub, need) = Answer(Content, lb, ub, need)
  BY DEF ScanCorrect
<1>0. lb \in Int /\ ub \in Int /\ need \in Nat /\ IsFiniteSet(Keys)
  BY ScanAssumption
<1>1. Shape /\ EntriesKnown
  BY InvMapped DEF Inv
<1>2. CASE root = ERROR_PAGE
  <2>1. Leaves = {}
    BY <1>1, <1>2 DEF EntriesKnown, Shape, Rooted, Pages
  <2>2. \A k \in Keys : Content[k] = ERROR_PAGE
    BY <1>1, <2>1 DEF EntriesKnown, Holds
  <2>3. PICK live : live = Live(Content, lb, ub)
    OBVIOUS
  <2>4. live = {}
    BY <1>0, <2>2, <2>3, LiveKnown
  <2>5. PICK r \in Seq(Entries) : r = <<>> /\ Len(r) = 0
    <3>1. <<>> \in Seq(Entries) /\ Len(<<>>) = 0
      OBVIOUS
    <3>. QED
      BY <3>1
  <2>6. Gathered(Content, live, lb, r)
    <3>1. {k \in live : k < lb} = {}
      BY <2>4
    <3>2. Cardinality({k \in live : k < lb}) = 0
      BY <3>1, FS_EmptySet
    <3>. QED
      BY <2>5, <3>2 DEF Gathered
  <2>7. live \subseteq Int /\ IsFiniteSet(live) /\ Len(r) <= need /\ \A y \in live : y < lb
    BY <1>0, <2>4, <2>5, FS_EmptySet
  <2>8. r = Answer(Content, lb, ub, need)
    BY <1>0, <2>3, <2>6, <2>7, GatheredAll
  <2>. QED
    BY <1>2, <2>5, <2>8 DEF find_range
<1>3. CASE root # ERROR_PAGE
  <2>1. PICK at, ht, h : Heights(ht, h) /\ Owners(at, ht, h)
    BY <1>3 DEF Inv
  <2>2. PICK own : own = at[0]
    OBVIOUS
  <2>3. Chain(node, own, Leaves, Content) /\ \A p \in Leaves : node[p].next \in Nat
    BY <1>1, <1>3, <2>1, <2>2, TreeIsChain
  <2>4. PICK leaf : leaf = own[lb]
    OBVIOUS
  <2>5. down_to_leaf(lb) = leaf
    BY <1>0, <1>1, <1>3, <2>1, <2>2, <2>4, Descent
  <2>6. PICK pos : pos = find_first_ge(node[leaf], lb)
    OBVIOUS
  <2>9. Halts(node, own, ub, lb)
    <3>1. ASSUME NEW p \in Leaves PROVE node[p].keys # <<>>
      <4>1. p \in Pages /\ NodeOK(node[p], p = root)
        BY <1>1, PagesKnown DEF Shape, Leaves
      <4>2. 1 <= Len(node[p].keys) /\ Len(<<>>) = 0
        BY <4>1 DEF NodeOK
      <4>. QED
        BY <4>2
    <3>. QED
      BY <1>0, <1>3, <2>3, <3>1, EndHalts
  <2>7. traverse(leaf, pos, ub, need) = Answer(Content, lb, ub, need)
    BY <1>0, <2>3, <2>4, <2>6, <2>9, TraverseAnswers
  <2>8. find_range(lb, ub, need) = traverse(leaf, pos, ub, need)
    BY <1>3, <2>5, <2>6 DEF find_range
  <2>. QED
    BY <2>7, <2>8
<1>. QED
  BY <1>2, <1>3

\* Every range query that comes to an end returns exactly the live records of
\* its interval, in the order of the keys and cut off at its limit, for every
\* order, any number of pages, whatever uninitialised memory holds, and every
\* sequence of calls before it. One that has no key behind its interval ends
\* only where the first root leaf's `next`, which alloc leaves as it was
\* (free_manager.h), happens to be zero.
THEOREM RangeQueries == Spec => []ScanCorrect
<1>1. Inv => ScanCorrect
  BY InvScanCorrect
<1>. QED
  BY <1>1, TreeInvariant, PTL
-----------------------------------------------------------------------------
\* The loop of query(), which has no limit and reads the shared pages.
ScanStates == [leaf : Nat, pos : Nat, records : Seq(Entries), done : BOOLEAN]

ScanGoes(u, leaf, pos, records) ==
  u \in ScanStates /\ u.leaf = leaf /\ u.pos = pos /\ u.records = records

Gained(t, x, y) == [t EXCEPT !.pos = x, !.records = y]

LEMMA ScanOver ==
  ASSUME NEW t \in ScanStates, NEW z \in BOOLEAN
  PROVE  ScanGoes(Over(t, z), t.leaf, t.pos, t.records) /\ Over(t, z).done = z
<1>1. PICK m : m = [t EXCEPT !.done = z]
  OBVIOUS
<1>2. ScanGoes(m, t.leaf, t.pos, t.records) /\ m.done = z
  BY <1>1 DEF ScanGoes, ScanStates
<1>. QED
  BY <1>1, <1>2 DEF Over

LEMMA ScanCrossed ==
  ASSUME NEW t \in ScanStates, NEW w \in Nat
  PROVE  ScanGoes(Crossed(t, w), w, 1, t.records) /\ Crossed(t, w).done = t.done
<1>1. PICK m : m = [t EXCEPT !.leaf = w, !.pos = 1]
  OBVIOUS
<1>2. ScanGoes(m, w, 1, t.records) /\ m.done = t.done
  BY <1>1 DEF ScanGoes, ScanStates
<1>. QED
  BY <1>1, <1>2 DEF Crossed

LEMMA ScanPassed ==
  ASSUME NEW t \in ScanStates, NEW x \in Nat
  PROVE  ScanGoes(Passed(t, x), t.leaf, x, t.records) /\ Passed(t, x).done = t.done
<1>1. PICK m : m = [t EXCEPT !.pos = x]
  OBVIOUS
<1>2. ScanGoes(m, t.leaf, x, t.records) /\ m.done = t.done
  BY <1>1 DEF ScanGoes, ScanStates
<1>. QED
  BY <1>1, <1>2 DEF Passed

LEMMA ScanGained ==
  ASSUME NEW t \in ScanStates, NEW x \in Nat, NEW y \in Seq(Entries)
  PROVE  ScanGoes(Gained(t, x, y), t.leaf, x, y) /\ Gained(t, x, y).done = t.done
<1>1. PICK m : m = [t EXCEPT !.pos = x, !.records = y]
  OBVIOUS
<1>2. ScanGoes(m, t.leaf, x, y) /\ m.done = t.done
  BY <1>1 DEF ScanGoes, ScanStates
<1>. QED
  BY <1>1, <1>2 DEF Gained

\* The ways of going on from leaf m.
LEMMA ScanSteps ==
  ASSUME NEW t \in ScanStates, ~t.done, NEW ub,
         NEW m, m = shared[t.leaf], m.next \in Nat,
         t.pos \in 1 .. Len(m.keys) => m.ch[t.pos] \in Entries,
         NEW u, u = ScanStepped(t, ub), t.pos \in 1 .. Len(m.keys) + 1, Len(m.keys) \in Nat
  PROVE  /\ t.pos > Len(m.keys) /\ m.next = ERROR_PAGE =>
              ScanGoes(u, t.leaf, t.pos, t.records) /\ u.done
         /\ t.pos > Len(m.keys) /\ m.next # ERROR_PAGE =>
              ScanGoes(u, m.next, 1, t.records) /\ ~u.done
         /\ t.pos <= Len(m.keys) /\ m.keys[t.pos] > ub =>
              ScanGoes(u, t.leaf, t.pos, t.records) /\ u.done
         /\ t.pos <= Len(m.keys) /\ ~(m.keys[t.pos] > ub) /\ m.ch[t.pos] = ERROR_PAGE =>
              ScanGoes(u, t.leaf, t.pos + 1, t.records) /\ ~u.done
         /\ t.pos <= Len(m.keys) /\ ~(m.keys[t.pos] > ub) /\ m.ch[t.pos] # ERROR_PAGE =>
              ScanGoes(u, t.leaf, t.pos + 1, Append(t.records, m.ch[t.pos])) /\ ~u.done
<1>1. u = Advanced(t, ub)
  BY DEF ScanStepped
<1>2. PICK yes \in BOOLEAN : yes = TRUE
  OBVIOUS
<1>3. u = IF t.pos > Len(m.keys)
          THEN IF m.next = ERROR_PAGE THEN Over(t, yes) ELSE Crossed(t, m.next)
          ELSE IF m.keys[t.pos] > ub THEN Over(t, yes)
          ELSE IF m.ch[t.pos] = ERROR_PAGE THEN Passed(t, t.pos + 1)
          ELSE Gained(t, t.pos + 1, Append(t.records, m.ch[t.pos]))
  BY <1>1, <1>2 DEF Advanced, Over, Crossed, Passed, Gained
<1>4. t.pos \in Nat /\ t.pos + 1 \in Nat /\ t.records \in Seq(Entries) /\ 1 \in Nat
  BY DEF ScanStates
<1>5. CASE t.pos > Len(m.keys)
  <2>1. CASE m.next = ERROR_PAGE
    <3>1. u = Over(t, yes)
      BY <1>3, <1>5, <2>1
    <3>2. ScanGoes(u, t.leaf, t.pos, t.records) /\ u.done = yes
      BY <1>4, <3>1, ScanOver
    <3>. QED
      BY <1>2, <1>4, <1>5, <2>1, <3>2
  <2>2. CASE m.next # ERROR_PAGE
    <3>1. u = Crossed(t, m.next)
      BY <1>3, <1>5, <2>2
    <3>2. ScanGoes(u, m.next, 1, t.records) /\ u.done = t.done
      BY <1>4, <3>1, ScanCrossed
    <3>. QED
      BY <1>4, <1>5, <2>2, <3>2
  <2>. QED
    BY <2>1, <2>2
<1>6. CASE t.pos <= Len(m.keys)
  <2>0. ~(t.pos > Len(m.keys)) /\ t.pos \in 1 .. Len(m.keys)
    BY <1>4, <1>6
  <2>1. CASE m.keys[t.pos] > ub
    <3>1. u = Over(t, yes)
      BY <1>3, <2>0, <2>1
    <3>2. ScanGoes(u, t.leaf, t.pos, t.records) /\ u.done = yes
      BY <1>4, <3>1, ScanOver
    <3>. QED
      BY <1>2, <2>0, <2>1, <3>2
  <2>2. CASE ~(m.keys[t.pos] > ub) /\ m.ch[t.pos] = ERROR_PAGE
    <3>1. u = Passed(t, t.pos + 1)
      BY <1>3, <2>0, <2>2
    <3>2. ScanGoes(u, t.leaf, t.pos + 1, t.records) /\ u.done = t.done
      BY <1>4, <3>1, ScanPassed
    <3>. QED
      BY <2>0, <2>2, <3>2
  <2>3. CASE ~(m.keys[t.pos] > ub) /\ m.ch[t.pos] # ERROR_PAGE
    <3>1. PICK more \in Seq(Entries) : more = Append(t.records, m.ch[t.pos])
      <4>1. PICK e \in Entries : e = m.ch[t.pos]
        BY <2>0
      <4>2. Append(t.records, e) \in Seq(Entries)
        BY <1>4
      <4>. QED
        BY <4>1, <4>2
    <3>2. u = Gained(t, t.pos + 1, more)
      BY <1>3, <2>0, <2>3, <3>1
    <3>3. ScanGoes(u, t.leaf, t.pos + 1, more) /\ u.done = t.done
      BY <1>4, <3>2, ScanGained
    <3>. QED
      BY <2>0, <2>3, <3>1, <3>3
  <2>. QED
    BY <2>1, <2>2, <2>3
<1>. QED
  BY <1>4, <1>5, <1>6

\* What is true of the loop after i iterations.
ScanReached(own, content, lb, ub, t, i) ==
  /\ t \in ScanStates
  /\ t.done => AtTheEnd(content, lb, ub, t.records)
  /\ ~t.done => OnTheWay(shared, own, content, lb, ub, t.leaf, t.pos, t.records, i)

LEMMA ScanReachedNext ==
  ASSUME NEW own, NEW P, NEW content, Chain(shared, own, P, content), IsFiniteSet(Keys),
         \A p \in P : shared[p].next \in Nat,
         NEW lb \in Int, NEW ub \in Int, NEW t, NEW i \in Nat,
         ScanReached(own, content, lb, ub, t, i)
  PROVE  ScanReached(own, content, lb, ub, ScanStepped(t, ub), i + 1)
<1>u. PICK u : u = ScanStepped(t, ub)
  OBVIOUS
<1>0. t \in ScanStates /\ t.done \in BOOLEAN /\ t.records \in Seq(Entries)
  BY DEF ScanReached, ScanStates
<1>1. CASE t.done
  <2>1. u = t
    BY <1>1, <1>u DEF ScanStepped
  <2>2. ScanReached(own, content, lb, ub, t, i + 1)
    BY <1>1 DEF ScanReached
  <2>. QED
    BY <1>u, <2>1, <2>2
<1>2. CASE ~t.done
  <2>1. OnTheWay(shared, own, content, lb, ub, t.leaf, t.pos, t.records, i)
    BY <1>2 DEF ScanReached
  <2>2. Onward(shared, own, content, lb, ub, t.leaf, t.pos, t.records, i)
    BY <1>0, <2>1, Iteration
  <2>3. t.leaf \in P
    BY <2>1, InTime
  <2>m. PICK m : m = shared[t.leaf]
    OBVIOUS
  <2>4. t.pos \in 1 .. Len(m.keys) + 1
    BY <2>1, <2>m DEF OnTheWay, Stands
  <2>5. /\ m.next \in Nat /\ Len(m.keys) \in Nat
        /\ t.pos \in 1 .. Len(m.keys) => m.ch[t.pos] \in Entries
    <3>1. m.keys \in Seq(Int) /\ m.ch \in Seq(Entries)
      BY <2>3, <2>m DEF Chain
    <3>2. ASSUME t.pos \in 1 .. Len(m.keys) PROVE m.ch[t.pos] \in Entries
      <4>1. t.pos \in 1 .. Len(m.ch)
        BY <2>3, <2>m, <3>2 DEF Chain
      <4>. QED
        BY <3>1, <4>1
    <3>. QED
      BY <2>3, <2>m, <3>1, <3>2
  <2>7. CASE t.pos > Len(m.keys) /\ m.next = ERROR_PAGE
    <3>1. AtTheEnd(content, lb, ub, t.records)
      BY <2>2, <2>7, <2>m DEF Onward
    <3>2. ScanGoes(u, t.leaf, t.pos, t.records) /\ u.done
      BY <1>0, <1>2, <1>u, <2>4, <2>5, <2>7, <2>m, ScanSteps
    <3>. QED
      BY <1>u, <3>1, <3>2 DEF ScanReached, ScanGoes
  <2>8. CASE t.pos > Len(m.keys) /\ m.next # ERROR_PAGE
    <3>1. OnTheWay(shared, own, content, lb, ub, m.next, 1, t.records, i + 1)
      BY <2>2, <2>8, <2>m DEF Onward
    <3>2. ScanGoes(u, m.next, 1, t.records) /\ ~u.done
      BY <1>0, <1>2, <1>u, <2>4, <2>5, <2>8, <2>m, ScanSteps
    <3>. QED
      BY <1>u, <3>1, <3>2 DEF ScanReached, ScanGoes
  <2>9. CASE t.pos <= Len(m.keys) /\ m.keys[t.pos] > ub
    <3>1. AtTheEnd(content, lb, ub, t.records)
      BY <2>2, <2>9, <2>m DEF Onward
    <3>2. ScanGoes(u, t.leaf, t.pos, t.records) /\ u.done
      BY <1>0, <1>2, <1>u, <2>4, <2>5, <2>9, <2>m, ScanSteps
    <3>. QED
      BY <1>u, <3>1, <3>2 DEF ScanReached, ScanGoes
  <2>10. CASE t.pos <= Len(m.keys) /\ ~(m.keys[t.pos] > ub) /\ m.ch[t.pos] = ERROR_PAGE
    <3>1. OnTheWay(shared, own, content, lb, ub, t.leaf, t.pos + 1, t.records, i + 1)
      BY <2>2, <2>10, <2>m DEF Onward
    <3>2. ScanGoes(u, t.leaf, t.pos + 1, t.records) /\ ~u.done
      BY <1>0, <1>2, <1>u, <2>4, <2>5, <2>10, <2>m, ScanSteps
    <3>. QED
      BY <1>u, <3>1, <3>2 DEF ScanReached, ScanGoes
  <2>11. CASE t.pos <= Len(m.keys) /\ ~(m.keys[t.pos] > ub) /\ m.ch[t.pos] # ERROR_PAGE
    <3>r. PICK more : more = Append(t.records, m.ch[t.pos])
      OBVIOUS
    <3>1. OnTheWay(shared, own, content, lb, ub, t.leaf, t.pos + 1, more, i + 1)
      BY <2>2, <2>11, <2>m, <3>r DEF Onward
    <3>2. ScanGoes(u, t.leaf, t.pos + 1, more) /\ ~u.done
      BY <1>0, <1>2, <1>u, <2>4, <2>5, <2>11, <2>m, <3>r, ScanSteps
    <3>. QED
      BY <1>u, <3>1, <3>2 DEF ScanReached, ScanGoes
  <2>. QED
    <3>1. t.pos > Len(m.keys) \/ t.pos <= Len(m.keys)
      BY <2>4, <2>5
    <3>. QED
      BY <2>7, <2>8, <2>9, <2>10, <2>11, <3>1
<1>. QED
  BY <1>0, <1>1, <1>2

\* A scan that starts somewhere is on its way.
LEMMA SetsOut ==
  ASSUME NEW N, NEW own, NEW content, NEW from \in Int, NEW ub \in Int,
         NEW leaf, NEW pos \in 1 .. Len(N[leaf].keys) + 1, NEW g,
         Stands(N, own, from, leaf, pos, g, from), Halts(N, own, ub, from), NEW r, r = <<>>
  PROVE  OnTheWay(N, own, content, from, ub, leaf, pos, r, 0)
<1>1. Gathered(content, Live(content, from, ub), from, r)
  <2>1. {k \in Live(content, from, ub) : k < from} = {}
    BY LiveKnown
  <2>2. Cardinality({k \in Live(content, from, ub) : k < from}) = 0
    BY <2>1, FS_EmptySet
  <2>3. Len(<<>>) = 0
    OBVIOUS
  <2>. QED
    BY <2>2, <2>3 DEF Gathered
<1>2. Visited(own, g, {})
  BY DEF Visited
<1>3. 0 <= Cardinality({}) * Order + (pos - 1)
  <2>1. Cardinality({}) = 0 /\ 0 * Order = 0
    BY FS_EmptySet, OrderFacts
  <2>. QED
    BY <2>1
<1>. QED
  BY <1>1, <1>2, <1>3 DEF OnTheWay

\* The leaves P of the shared pages are a chain to scan.
Scannable(own, P, content) ==
  Chain(shared, own, P, content) /\ \A p \in P : shared[p].next \in Nat

\* Where query() enters leaf for lb, all that is before the scan is not less
\* than `from`.
Enters(own, leaf, lb, from) ==
  \E g : Stands(shared, own, from, leaf, find_first_ge(shared[leaf], lb), g, from)

LEMMA ScanAnswers ==
  ASSUME NEW own, NEW P, NEW content, Scannable(own, P, content),
         NEW leaf, NEW lb \in Int, NEW from \in Int, NEW ub \in Int,
         Enters(own, leaf, lb, from), Halts(shared, own, ub, from)
  PROVE  Scan(leaf, lb, ub) = Answer(content, from, ub, Unlimited)
<1>c. /\ Chain(shared, own, P, content) /\ \A p \in P : shared[p].next \in Nat
      /\ IsFiniteSet(Keys)
  BY ScanAssumption DEF Scannable
<1>p. PICK pos : pos = find_first_ge(shared[leaf], lb)
  OBVIOUS
<1>g. PICK g : Stands(shared, own, from, leaf, pos, g, from)
  BY <1>p DEF Enters
<1> USE <1>c, <1>g
<1> DEFINE first == [leaf |-> leaf, pos |-> pos, records |-> <<>>, done |-> FALSE]
           way == CHOOSE w : w = [i \in 0 .. MaxSteps |->
                                    IF i = 0 THEN first ELSE ScanStepped(w[i - 1], ub)]
<1>0. MaxSteps \in Nat
  <2>1. MaxPage \in Nat /\ Order + 1 \in Nat
    BY TreeAssumption, OrderFacts
  <2>2. MaxPage * (Order + 1) \in Nat
    BY <2>1
  <2>. QED
    BY <2>2 DEF MaxSteps
<1>1. Scan(leaf, lb, ub) = IF way[MaxSteps].done THEN way[MaxSteps].records ELSE Undefined
  BY <1>p DEF Scan, ScanStepped
<1>2. ScanReached(own, content, from, ub, first, 0)
  <2>1. leaf \in Nat /\ pos \in Nat /\ pos \in 1 .. Len(shared[leaf].keys) + 1
    <3>1. leaf \in P /\ P \subseteq PageIds
      BY DEF Chain, Stands
    <3>2. Len(shared[leaf].keys) \in Nat
      BY <3>1, LenProperties DEF Chain
    <3>3. pos \in 1 .. Len(shared[leaf].keys) + 1
      BY DEF Stands
    <3>. QED
      BY <3>1, <3>2, <3>3 DEF PageIds
  <2>2. PICK r \in Seq(Entries) : r = <<>>
    <3>1. <<>> \in Seq(Entries)
      OBVIOUS
    <3>. QED
      BY <3>1
  <2>3. PICK t : t = [leaf |-> leaf, pos |-> pos, records |-> r, done |-> FALSE]
    OBVIOUS
  <2>4. t \in ScanStates /\ t.leaf = leaf /\ t.pos = pos /\ t.records = r /\ ~t.done
    BY <2>1, <2>3 DEF ScanStates
  <2>5. OnTheWay(shared, own, content, from, ub, leaf, pos, r, 0)
    BY <2>1, <2>2, SetsOut
  <2>6. ScanReached(own, content, from, ub, t, 0)
    BY <2>4, <2>5 DEF ScanReached
  <2>. QED
    BY <2>2, <2>3, <2>6
<1>3. way = [i \in 0 .. MaxSteps |-> IF i = 0 THEN first ELSE ScanStepped(way[i - 1], ub)]
  <2> HIDE DEF first
  <2>1. \E w : w = [i \in 0 .. MaxSteps |-> IF i = 0 THEN first ELSE ScanStepped(w[i - 1], ub)]
    <3>1. PICK w : IsWay(w, FALSE, FALSE, first, ub, MaxSteps)
      BY <1>0, Iterates
    <3>. QED
      BY <3>1 DEF IsWay, LoopStepped
  <2>. QED
    BY <2>1
<1> HIDE DEF first, way
<1>4. ASSUME NEW i \in 0 .. MaxSteps PROVE ScanReached(own, content, from, ub, way[i], i)
  <2> DEFINE Bad == {j \in 0 .. MaxSteps : ~ScanReached(own, content, from, ub, way[j], j)}
  <2> SUFFICES ASSUME Bad # {} PROVE FALSE
    OBVIOUS
  <2>1. Bad \in SUBSET Nat
    BY <1>0
  <2>2. PICK j \in Bad : \A k \in Bad : j <= k
    <3> HIDE DEF Bad
    <3>. QED
      BY <2>1, LeastExists
  <2>3. j \in 0 .. MaxSteps /\ ~ScanReached(own, content, from, ub, way[j], j)
    BY <2>2
  <2>4. CASE j = 0
    <3>1. way[j] = first
      BY <1>3, <2>3, <2>4
    <3>. QED
      BY <1>2, <2>3, <2>4, <3>1
  <2>5. CASE j # 0
    <3>1. j - 1 \in 0 .. MaxSteps /\ ~(j <= j - 1) /\ j - 1 \in Nat /\ (j - 1) + 1 = j
      BY <1>0, <2>3, <2>5
    <3>2. j - 1 \notin Bad
      <4> HIDE DEF Bad
      <4>. QED
        BY <2>2, <3>1
    <3>3. ScanReached(own, content, from, ub, way[j - 1], j - 1)
      BY <3>1, <3>2
    <3>4. ScanReached(own, content, from, ub, ScanStepped(way[j - 1], ub), (j - 1) + 1)
      BY <3>1, <3>3, ScanReachedNext
    <3>5. way[j] = ScanStepped(way[j - 1], ub)
      BY <1>3, <2>3, <2>5
    <3>. QED
      BY <2>3, <3>1, <3>4, <3>5
  <2>. QED
    BY <2>4, <2>5
<1>l. PICK t : t = way[MaxSteps]
  OBVIOUS
<1>5. ScanReached(own, content, from, ub, t, MaxSteps)
  BY <1>0, <1>4, <1>l
<1>6. t.done
  <2> SUFFICES ASSUME ~t.done PROVE FALSE
    OBVIOUS
  <2>1. OnTheWay(shared, own, content, from, ub, t.leaf, t.pos, t.records, MaxSteps)
    BY <1>5 DEF ScanReached
  <2>2. MaxSteps < MaxSteps
    BY <1>0, <2>1, InTime
  <2>. QED
    BY <1>0, <2>2
<1>v. PICK live : live = Live(content, from, ub)
  OBVIOUS
<1>7. live \subseteq Int /\ IsFiniteSet(live) /\ live \in SUBSET Keys
  <2>1. live \in SUBSET Keys /\ live \subseteq Int
    BY <1>v, LiveKnown
  <2>. QED
    BY <2>1, FS_Subset
<1>8. PICK f \in Int : Gathered(content, live, f, t.records) /\ \A y \in live : y < f
  BY <1>5, <1>6, <1>v DEF ScanReached, AtTheEnd
<1>9. t.records \in Seq(Entries)
  BY <1>5 DEF ScanReached, ScanStates
<1>10. Unlimited \in Nat /\ Len(t.records) <= Unlimited
  <2>1. {k \in live : k < f} = live
    BY <1>8
  <2>2. Len(t.records) = Cardinality(live)
    BY <1>8, <2>1 DEF Gathered
  <2>3. Cardinality(live) <= Cardinality(Keys) /\ Cardinality(Keys) \in Nat
    BY <1>7, FS_Subset, FS_CardinalityType
  <2>. QED
    BY <2>2, <2>3 DEF Unlimited
<1>11. t.records = Answer(content, from, ub, Unlimited)
  BY <1>v, <1>7, <1>8, <1>9, <1>10, GatheredAll
<1>. QED
  BY <1>1, <1>6, <1>11, <1>l

LEMMA ScanOwner ==
  ASSUME NEW own, NEW P, NEW content, Scannable(own, P, content),
         NEW lb \in Int, NEW ub \in Int, Halts(shared, own, ub, lb), NEW leaf, own[lb] = leaf
  PROVE  Scan(leaf, lb, ub) = Answer(content, lb, ub, Unlimited)
<1>c. /\ Chain(shared, own, P, content) /\ \A p \in P : shared[p].next \in Nat
      /\ IsFiniteSet(Keys)
  BY ScanAssumption DEF Scannable
<1>1. leaf \in P /\ shared[leaf].keys \in Seq(Int) /\ Sorted(shared[leaf].keys)
  BY <1>c DEF Chain
<1>2. PICK pos : pos = find_first_ge(shared[leaf], lb)
  OBVIOUS
<1>3. /\ pos \in 1 .. Len(shared[leaf].keys) + 1
      /\ \A j \in 1 .. pos - 1 : shared[leaf].keys[j] < lb
      /\ \A j \in pos .. Len(shared[leaf].keys) : lb <= shared[leaf].keys[j]
  BY <1>1, <1>2, PlaceFound
<1>4. Stands(shared, own, lb, leaf, pos, lb, lb)
  BY <1>3 DEF Stands
<1>5. Enters(own, leaf, lb, lb)
  BY <1>2, <1>4 DEF Enters
<1>. QED
  BY <1>5, ScanAnswers

\* Intervals with the same live keys have the same answer.
LEMMA SameAnswer ==
  ASSUME NEW content, NEW a \in Int, NEW b \in Int, a <= b, NEW ub \in Int,
         \A k \in Keys : ~(a <= k /\ k < b)
  PROVE  Answer(content, a, ub, Unlimited) = Answer(content, b, ub, Unlimited)
<1>1. ASSUME NEW k PROVE k \in Live(content, a, ub) <=> k \in Live(content, b, ub)
  <2>1. k \in Keys /\ k \in Int => (a <= k <=> b <= k)
    OBVIOUS
  <2>. QED
    BY <2>1, LiveKnown
<1>2. Live(content, a, ub) = Live(content, b, ub)
  BY <1>1
<1>. QED
  BY <1>2 DEF Answer

\* A scan that starts in a leaf left of the right one.
LEMMA ScanLeft ==
  ASSUME NEW own, NEW P, NEW content, Scannable(own, P, content),
         NEW lb \in Int, NEW ub \in Int, Halts(shared, own, ub, lb),
         NEW y \in Int, y <= lb, NEW leaf, own[y] = leaf
  PROVE  \E from \in {lb} \cup {k \in Keys : k < lb} :
           Scan(leaf, lb, ub) = Answer(content, from, ub, Unlimited)
<1>c. /\ Chain(shared, own, P, content) /\ \A p \in P : shared[p].next \in Nat
      /\ IsFiniteSet(Keys)
  BY ScanAssumption DEF Scannable
<1>1. CASE own[lb] = leaf
  BY <1>1, ScanOwner
<1>2. CASE own[lb] # leaf
  <2> DEFINE T == {n \in Nat : own[y + n + 1] # leaf}
  <2>1. lb - y - 1 \in T
    <3>1. y # lb
      BY <1>2
    <3>2. lb - y - 1 \in Nat /\ y + (lb - y - 1) + 1 = lb
      BY <3>1
    <3>. QED
      BY <1>2, <3>2
  <2>2. PICK n \in T : \A m \in T : n <= m
    <3>1. T \in SUBSET Nat
      OBVIOUS
    <3> HIDE DEF T
    <3>. QED
      BY <2>1, <3>1, LeastExists
  <2>3. n \in Nat /\ own[y + n + 1] # leaf
    BY <2>2
  <2>4. n <= lb - y - 1
    <3> HIDE DEF T
    <3>. QED
      BY <2>1, <2>2
  <2>5. own[y + n] = leaf
    <3>1. CASE n = 0
      BY <3>1
    <3>2. CASE n # 0
      <4>1. n - 1 \in Nat /\ ~(n <= n - 1) /\ y + (n - 1) + 1 = y + n
        BY <2>3, <3>2
      <4>2. n - 1 \notin T
        <5> HIDE DEF T
        <5>. QED
          BY <2>2, <4>1
      <4>. QED
        BY <4>1, <4>2
    <3>. QED
      BY <3>1, <3>2
  <2> HIDE DEF T
  <2>6. PICK g \in Int : g = y + n /\ g + 1 \in Int /\ g + 1 <= lb
    BY <2>3, <2>4
  <2>7. own[g] = leaf /\ own[g + 1] # leaf
    BY <2>3, <2>5, <2>6
  <2>8. ASSUME NEW z \in Int, own[z] = leaf PROVE z <= g
    <3>1. SUFFICES ASSUME g < z PROVE FALSE
      OBVIOUS
    <3>2. z # g + 1
      BY <2>7, <2>8
    <3>3. g < g + 1 /\ g + 1 < z
      BY <2>6, <3>1, <3>2
    <3>4. own[g] = own[z] => own[g + 1] = own[g]
      BY <1>c, <2>6, <3>3 DEF Chain
    <3>. QED
      BY <2>7, <2>8, <3>4
  <2>9. leaf \in P /\ shared[leaf].keys \in Seq(Int) /\ Sorted(shared[leaf].keys)
    BY <1>c DEF Chain
  <2>10. PICK pos : pos = find_first_ge(shared[leaf], lb)
    OBVIOUS
  <2>11. /\ pos \in 1 .. Len(shared[leaf].keys) + 1
         /\ \A j \in pos .. Len(shared[leaf].keys) : lb <= shared[leaf].keys[j]
    BY <2>9, <2>10, PlaceFound
  <2>12. Len(shared[leaf].keys) \in Nat
    BY <2>9, LenProperties
  <2>13. ASSUME NEW j \in 1 .. Len(shared[leaf].keys)
         PROVE  shared[leaf].keys[j] \in Int /\ shared[leaf].keys[j] <= g
    <3>1. shared[leaf].keys[j] \in Int /\ own[shared[leaf].keys[j]] = leaf
      BY <1>c, <2>9 DEF Chain
    <3>. QED
      BY <2>8, <3>1
  <2>14. ASSUME NEW j \in pos .. Len(shared[leaf].keys) PROVE FALSE
    <3>1. j \in 1 .. Len(shared[leaf].keys)
      BY <2>11, <2>12
    <3>. QED
      BY <2>6, <2>11, <2>13, <3>1
  <2>15. Stands(shared, own, g + 1, leaf, pos, g, g + 1)
    <3>1. ASSUME NEW j \in 1 .. pos - 1 PROVE shared[leaf].keys[j] < g + 1
      <4>1. j \in 1 .. Len(shared[leaf].keys)
        BY <2>11, <2>12
      <4>. QED
        BY <2>13, <4>1
    <3>. QED
      BY <2>6, <2>7, <2>11, <2>14, <3>1 DEF Stands
  <2>16. Scan(leaf, lb, ub) = Answer(content, g + 1, ub, Unlimited)
    <3>1. Enters(own, leaf, lb, g + 1)
      BY <2>10, <2>15 DEF Enters
    <3>2. PICK from \in Int : from = g + 1 /\ from <= lb
      BY <2>6
    <3>4. Halts(shared, own, ub, from)
      <4>1. \A k \in Int : lb <= k => from <= k
        BY <3>2
      <4>. QED
        BY <4>1 DEF Halts
    <3>3. Scan(leaf, lb, ub) = Answer(content, from, ub, Unlimited)
      BY <3>1, <3>2, <3>4, ScanAnswers
    <3>. QED
      BY <3>2, <3>3
  <2> DEFINE K == {m \in Nat : g + 1 + m \in Keys /\ g + 1 + m < lb}
  <2>17. CASE K = {}
    <3>1. ASSUME NEW k \in Keys, g + 1 <= k, k < lb PROVE FALSE
      <4>1. k \in Int
        BY TreeAssumption
      <4>2. k - (g + 1) \in Nat /\ g + 1 + (k - (g + 1)) = k
        BY <2>6, <3>1, <4>1
      <4>3. k - (g + 1) \in K
        BY <3>1, <4>2
      <4>. QED
        BY <2>17, <4>3
    <3>2. Answer(content, g + 1, ub, Unlimited) = Answer(content, lb, ub, Unlimited)
      BY <2>6, <3>1, SameAnswer
    <3>. QED
      BY <2>16, <3>2
  <2>18. CASE K # {}
    <3>1. PICK m \in K : \A x \in K : m <= x
      <4>1. K \in SUBSET Nat
        OBVIOUS
      <4> HIDE DEF K
      <4>. QED
        BY <2>18, <4>1, LeastExists
    <3>2. PICK from \in Keys : from \in Int /\ from = g + 1 + m /\ from < lb /\ g + 1 <= from
      BY <2>6, <3>1
    <3>3. ASSUME NEW k \in Keys, g + 1 <= k, k < from PROVE FALSE
      <4>1. k \in Int
        BY TreeAssumption
      <4>2. k - (g + 1) \in Nat /\ g + 1 + (k - (g + 1)) = k /\ k < lb
        BY <2>6, <3>2, <3>3, <4>1
      <4>3. k - (g + 1) \in K
        BY <3>3, <4>2
      <4>4. m <= k - (g + 1) /\ m \in Nat
        BY <3>1, <4>3
      <4>. QED
        BY <2>6, <3>2, <3>3, <4>1, <4>4
    <3>4. Answer(content, g + 1, ub, Unlimited) = Answer(content, from, ub, Unlimited)
      BY <2>6, <3>2, <3>3, SameAnswer
    <3>. QED
      BY <2>16, <3>2, <3>4
  <2>. QED
    BY <2>17, <2>18
<1>. QED
  BY <1>1, <1>2

-----------------------------------------------------------------------------
\* Several connections. What BPlusTreeProofs knows of the tree is true of the
\* root that the head page names.

HeadShape ==
  /\ pageCnt \in 1 .. MaxPage + 1
  /\ node \in [PageIds -> Nodes \cup {NoNode}]
  /\ \A p \in PageIds :
       IF p < pageCnt THEN NodeOK(node[p], p = headRoot) ELSE node[p] = NoNode
  /\ up \in Calls \cup {NoCall}
  /\ last \in (Keys \X (Records \cup {ERROR_PAGE})) \cup {NoCall}
  /\ IF headRoot = ERROR_PAGE THEN pageCnt = 1 /\ up = NoCall
     ELSE headRoot \in Pages /\ node[headRoot].parent = ERROR_PAGE
  /\ Linked
  /\ \A c \in Pages : c # headRoot /\ ~(up # NoCall /\ c = up.r) =>
       /\ node[c].parent \in Pages
       /\ ~node[node[c].parent].leaf
       /\ c \in ToSet(node[node[c].parent].ch)
  /\ up # NoCall =>
       /\ up.l \in Pages /\ up.r \in Pages /\ up.l # up.r /\ up.r # headRoot
       /\ HalfFull(node[up.l])
       /\ node[up.r].parent = node[up.l].parent
       /\ \A p \in Pages : ~node[p].leaf => up.r \notin ToSet(node[p].ch)

HeadHeights(ht, h) ==
  /\ ht \in [PageIds -> Nat] /\ h \in Nat
  /\ headRoot # ERROR_PAGE => ht[headRoot] = h /\ h + 2 <= pageCnt
  /\ \A p \in Pages : (node[p].leaf <=> ht[p] = 0) /\ ht[p] <= h
  /\ \A p \in Pages : ~node[p].leaf => \A c \in ToSet(node[p].ch) : ht[c] + 1 = ht[p]
  /\ up # NoCall => ht[up.l] = ht[up.r]

HeadOwners(at, ht, h) ==
  /\ at \in [Nat -> [Int -> PageIds]]
  /\ \A d \in 0 .. h : \A k \in Int : at[d][k] \in Pages /\ ht[at[d][k]] = d
  /\ \A k \in Int : Leads(headRoot, k, at[h][k])
  /\ \A d \in 1 .. h : \A k \in Int : \A i :
       Gap(node[at[d][k]].keys, k, i) => Leads(node[at[d][k]].ch[i], k, at[d - 1][k])
  /\ \A p \in Pages : \A i \in 1 .. Len(node[p].keys) : at[ht[p]][node[p].keys[i]] = p
  /\ up # NoCall => at[ht[up.r]][up.key] = up.r
  /\ Chained(at[0])

LEMMA HeadSame ==
  ASSUME root = headRoot
  PROVE  /\ Shape <=> HeadShape
         /\ \A ht, h : Heights(ht, h) <=> HeadHeights(ht, h)
         /\ \A at, ht, h : Owners(at, ht, h) <=> HeadOwners(at, ht, h)
<1>1. Shape <=> HeadShape
  BY DEF Shape, Typed, Rooted, Named, Waiting, HeadShape
<1>2. \A ht, h : Heights(ht, h) <=> HeadHeights(ht, h)
  BY DEF Heights, HeadHeights
<1>3. \A at, ht, h : Owners(at, ht, h) <=> HeadOwners(at, ht, h)
  BY DEF Owners, HeadOwners
<1>. QED
  BY <1>1, <1>2, <1>3

LEMMA HeadSameNext ==
  ASSUME root' = headRoot'
  PROVE  /\ Shape' <=> HeadShape'
         /\ \A ht, h : Heights(ht, h)' <=> HeadHeights(ht, h)'
         /\ \A at, ht, h : Owners(at, ht, h)' <=> HeadOwners(at, ht, h)'
<1>1. Shape' <=> HeadShape'
  BY DEF Shape, Typed, Rooted, Named, Waiting, HeadShape
<1>2. \A ht, h : Heights(ht, h)' <=> HeadHeights(ht, h)'
  BY DEF Heights, HeadHeights
<1>3. \A at, ht, h : Owners(at, ht, h)' <=> HeadOwners(at, ht, h)'
  BY DEF Owners, HeadOwners
<1>. QED
  BY <1>1, <1>2, <1>3

LEMMA HeadKept ==
  ASSUME UNCHANGED <<node, pageCnt, up, last, headRoot>>
  PROVE  /\ HeadShape => HeadShape'
         /\ \A ht, h : HeadHeights(ht, h) => HeadHeights(ht, h)'
         /\ \A at, ht, h : HeadOwners(at, ht, h) => HeadOwners(at, ht, h)'
         /\ Content' = Content /\ Pages' = Pages
<1>1. HeadShape => HeadShape'
  BY DEF HeadShape, Linked, Pages
<1>2. \A ht, h : HeadHeights(ht, h) => HeadHeights(ht, h)'
  BY DEF HeadHeights, Pages
<1>3. \A at, ht, h : HeadOwners(at, ht, h) => HeadOwners(at, ht, h)'
  BY DEF HeadOwners, Chained, Leads, Pages
<1>4. Content' = Content /\ Pages' = Pages
  BY DEF Content, RecordsUnder, Leaves, Allocated, Pages
<1>. QED
  BY <1>1, <1>2, <1>3, <1>4

\* A descent passes from page p for x, whose node is n, on level d.
Passes(at, d, x, p, n) ==
  /\ ~n.leaf /\ n.keys \in Seq(Int) /\ Sorted(n.keys)
  /\ \A i : Gap(n.keys, x, i) => at[d - 1][x] = n.ch[i]
  /\ \A i \in 1 .. Len(n.keys) : at[d][n.keys[i]] = p

\* The nodes N of the pages below cnt are a tree that holds `content`.
CommittedTree(N, content, at, h, cnt) ==
  /\ h \in Nat /\ h <= MaxPage
  /\ \E P : /\ P \subseteq 1 .. cnt - 1
            /\ Chain(N, at[0], P, content)
            /\ \A p \in P : N[p].next \in Nat /\ N[p].leaf /\ N[p].keys # <<>>
            /\ \A p \in 1 .. cnt - 1 : N[p].leaf => p \in P
  /\ \A d \in 1 .. h : \A x \in Int :
       at[d][x] \in 1 .. cnt - 1 /\ Passes(at, d, x, at[d][x], N[at[d][x]])

\* Since that tree was committed the owners have changed like this.
Since(at0, h0, cnt, at, h) ==
  /\ h0 <= h
  /\ \A d \in 0 .. h0 : \A x \in Int : at[d][x] = at0[d][x] \/ at[d][x] >= cnt
  /\ \A d \in 0 .. h0 : \E b \in Int : \A x \in Int : x < b => at[d][x] = at0[d][x]

\* Page p owns numbers as far to the left as one likes.
FirstOf(at, h, p) ==
  \E d \in 0 .. h : \A x \in Int : \E y \in Int : y <= x /\ at[d][y] = p

\* Nothing was written since the last commit that is not committed.
Idle == ~cur_tx \/ root # headRoot

\* The committed tree `old` is in the shared pages, as far as they are not
\* replaced yet by a commit that is under way.
Installed(old) ==
  \A p \in 1 .. firstNew - 1 :
    shared[p] = old[p] \/ (installing /\ ~Idle /\ shared[p] = node[p])

\* The old roots are pages of the tree that was committed.
OldRoots(at0, h0) ==
  \A c \in Conns : roots[c] # ERROR_PAGE /\ (c = me => Idle /\ up = NoCall) =>
    firstNew # 1 /\ FirstOf(at0, h0, roots[c])

Known(at0, h0, at, h) ==
  /\ firstNew \in Nat /\ 1 <= firstNew /\ firstNew <= pageCnt
  /\ firstNew # 1 =>
       headRoot # ERROR_PAGE /\ h0 \in Nat /\ Since(at0, h0, firstNew, at, h)
  /\ firstNew # 1 /\ (cur_tx \/ up = NoCall) =>
       \E old : CommittedTree(old, committed, at0, h0, firstNew) /\ Installed(old)
  /\ OldRoots(at0, h0)
  /\ Idle => firstNew = pageCnt
  /\ Idle /\ up = NoCall /\ headRoot # ERROR_PAGE =>
       firstNew # 1 /\ FirstOf(at0, h0, headRoot)

ConnsOK ==
  /\ me \in Conns /\ roots = [c \in Conns |-> roots[c]] /\ roots[me] = root
  /\ cur_tx \in BOOLEAN /\ installing \in BOOLEAN /\ astray \in BOOLEAN
  /\ shared = [p \in PageIds |-> shared[p]]
  /\ up # NoCall => root = headRoot
  /\ installing => cur_tx /\ up = NoCall
  /\ Idle => shared = node /\ committed = Content

ConnInv ==
  /\ ConnsOK
  /\ HeadShape
  /\ \E at0, h0, at, ht, h :
       /\ HeadHeights(ht, h) /\ (headRoot # ERROR_PAGE => HeadOwners(at, ht, h))
       /\ Known(at0, h0, at, h)

LEMMA CommittedKept ==
  ASSUME NEW N, NEW N2, NEW content, NEW at, NEW h, NEW cnt,
         CommittedTree(N, content, at, h, cnt), \A p \in 1 .. cnt - 1 : N2[p] = N[p]
  PROVE  CommittedTree(N2, content, at, h, cnt)
<1>1. PICK P : /\ P \subseteq 1 .. cnt - 1
               /\ Chain(N, at[0], P, content)
               /\ \A p \in P : N[p].next \in Nat /\ N[p].leaf /\ N[p].keys # <<>>
               /\ \A p \in 1 .. cnt - 1 : N[p].leaf => p \in P
  BY DEF CommittedTree
<1>2. PICK own : own = at[0]
  OBVIOUS
<1>3. \A p \in P : N2[p] = N[p]
  BY <1>1
<1>4. Chain(N2, own, P, content)
  <2>1. Chain(N, own, P, content)
    BY <1>1, <1>2
  <2>2. \A x \in Int : own[x] \in P /\ N2[own[x]] = N[own[x]]
    BY <1>3, <2>1 DEF Chain
  <2>3. \A k \in Keys : own[k] \in P /\ N2[own[k]] = N[own[k]]
    BY <2>2, TreeAssumption
  <2>4. /\ P \subseteq PageIds /\ \A x \in Int : own[x] \in P
        /\ \A x, y, z \in Int : x < y /\ y < z /\ own[x] = own[z] => own[y] = own[x]
    BY <2>1 DEF Chain
  <2>5. \A x \in Int : own[x + 1] # own[x] => N2[own[x]].next = own[x + 1]
    BY <2>1, <2>2 DEF Chain
  <2>6. \A p \in P : /\ N2[p].keys \in Seq(Int) /\ Sorted(N2[p].keys)
                     /\ Len(N2[p].keys) <= Order - 1
                     /\ N2[p].ch \in Seq(Entries)
    BY <1>3, <2>1 DEF Chain
  <2>7. \A p \in P : \A i \in 1 .. Len(N2[p].keys) :
          /\ N2[p].keys[i] \in Keys /\ own[N2[p].keys[i]] = p
          /\ content[N2[p].keys[i]] = N2[p].ch[i] /\ i \in 1 .. Len(N2[p].ch)
    BY <1>3, <2>1 DEF Chain
  <2>8. \A k \in Keys : content[k] # ERROR_PAGE =>
          \E i \in 1 .. Len(N2[own[k]].keys) : N2[own[k]].keys[i] = k
    BY <2>1, <2>3 DEF Chain
  <2>. QED
    BY <2>4, <2>5, <2>6, <2>7, <2>8 DEF Chain
<1>5. \A d \in 1 .. h : \A x \in Int :
        at[d][x] \in 1 .. cnt - 1 /\ Passes(at, d, x, at[d][x], N2[at[d][x]])
  BY DEF CommittedTree
<1>6. h \in Nat /\ h <= MaxPage
  BY DEF CommittedTree
<1>. QED
  <2>1. \A p \in 1 .. cnt - 1 : N2[p].leaf => p \in P
    BY <1>1
  <2>2. \A p \in P : N2[p].next \in Nat /\ N2[p].leaf /\ N2[p].keys # <<>>
    BY <1>1, <1>3
  <2>. QED
    BY <1>1, <1>2, <1>4, <1>5, <1>6, <2>1, <2>2 DEF CommittedTree

LEMMA SinceNext ==
  ASSUME NEW at0, NEW h0 \in Nat, NEW cnt \in Nat, NEW at, NEW h \in Nat, NEW at2, NEW h2 \in Nat,
         Since(at0, h0, cnt, at, h), Inherits(at, h, at2, h2), pageCnt \in Nat, cnt <= pageCnt
  PROVE  Since(at0, h0, cnt, at2, h2)
<1>1. h0 <= h /\ h <= h2
  BY DEF Since, Inherits
<1>2. ASSUME NEW d \in 0 .. h0, NEW x \in Int PROVE at2[d][x] = at0[d][x] \/ at2[d][x] >= cnt
  <2>1. d \in 0 .. h
    BY <1>1
  <2>2. at[d][x] = at0[d][x] \/ at[d][x] >= cnt
    BY DEF Since
  <2>3. at2[d][x] = at[d][x] \/ at2[d][x] = pageCnt
    BY <2>1 DEF Inherits
  <2>. QED
    BY <2>2, <2>3
<1>3. ASSUME NEW d \in 0 .. h0
      PROVE  \E b \in Int : \A x \in Int : x < b => at2[d][x] = at0[d][x]
  <2>1. d \in 0 .. h
    BY <1>1
  <2>2. PICK b \in Int : \A x \in Int : x < b => at[d][x] = at0[d][x]
    BY DEF Since
  <2>3. PICK c \in Int : \A x \in Int : x < c => at2[d][x] = at[d][x]
    BY <2>1 DEF Inherits
  <2>4. PICK m \in Int : m <= b /\ m <= c
    OBVIOUS
  <2>5. ASSUME NEW x \in Int, x < m PROVE at2[d][x] = at0[d][x]
    <3>1. x < b /\ x < c
      BY <2>4, <2>5
    <3>. QED
      BY <2>2, <2>3, <3>1
  <2>. QED
    BY <2>5
<1>. QED
  BY <1>1, <1>2, <1>3 DEF Since

\* The tree that is there is since itself; what was a first page still is.
LEMMA SinceNow ==
  ASSUME NEW at, NEW h \in Nat, NEW cnt
  PROVE  Since(at, h, cnt, at, h)
<1>1. ASSUME NEW d \in 0 .. h PROVE \E b \in Int : \A x \in Int : x < b => at[d][x] = at[d][x]
  <2>1. 0 \in Int
    OBVIOUS
  <2>. QED
    BY <2>1
<1>. QED
  BY <1>1 DEF Since

LEMMA FirstStays ==
  ASSUME NEW at0, NEW h0 \in Nat, NEW cnt, NEW at, NEW h \in Nat,
         Since(at0, h0, cnt, at, h), NEW p, FirstOf(at0, h0, p)
  PROVE  FirstOf(at, h, p)
<1>1. PICK d \in 0 .. h0 : \A x \in Int : \E y \in Int : y <= x /\ at0[d][y] = p
  BY DEF FirstOf
<1>2. PICK b \in Int : \A x \in Int : x < b => at[d][x] = at0[d][x]
  BY DEF Since
<1>3. d \in 0 .. h
  BY DEF Since
<1>4. ASSUME NEW x \in Int PROVE \E y \in Int : y <= x /\ at[d][y] = p
  <2>1. PICK m \in Int : m <= x /\ m < b
    <3>1. \/ x < b /\ x <= x
          \/ b - 1 \in Int /\ b - 1 <= x /\ b - 1 < b
      BY <1>2
    <3>. QED
      BY <3>1
  <2>2. PICK y \in Int : y <= m /\ at0[d][y] = p
    BY <1>1
  <2>3. y < b /\ y <= x
    BY <2>1, <2>2
  <2>. QED
    BY <1>2, <2>2, <2>3
<1>. QED
  BY <1>3, <1>4 DEF FirstOf

\* A tree without a pending call, as it is committed.
NowCommitted(at, h) ==
  h \in Nat /\ CommittedTree(node, Content, at, h, pageCnt) /\ FirstOf(at, h, root)

LEMMA CommittedNow ==
  Inv /\ root # ERROR_PAGE /\ up = NoCall =>
    \A at, ht, h : Heights(ht, h) /\ Owners(at, ht, h) => NowCommitted(at, h)
<1> SUFFICES ASSUME Inv, root # ERROR_PAGE, up = NoCall,
                    NEW at, NEW ht, NEW h, Heights(ht, h), Owners(at, ht, h)
             PROVE  h \in Nat /\ CommittedTree(node, Content, at, h, pageCnt)
                    /\ FirstOf(at, h, root)
  BY DEF NowCommitted
<1>1. /\ Shape /\ Typed /\ EntriesKnown
  BY InvMapped DEF Inv, Shape
<1>2. Chain(node, at[0], Leaves, Content) /\ \A p \in Leaves : node[p].next \in Nat
  BY <1>1, TreeIsChain
<1>3. /\ Allocated = Pages /\ Pages = 1 .. pageCnt - 1
      /\ \A p \in Pages : NodeOK(node[p], p = root)
  BY <1>1, PagesKnown DEF Pages
<1>4. \A p \in Leaves : p \in Pages /\ node[p].leaf /\ node[p].keys # <<>>
  <2>1. SUFFICES ASSUME NEW p \in Leaves PROVE p \in Pages /\ node[p].leaf /\ node[p].keys # <<>>
    OBVIOUS
  <2>2. p \in Pages /\ node[p].leaf
    BY <1>3 DEF Leaves
  <2>3. 1 <= Len(node[p].keys)
    BY <1>3, <2>2 DEF NodeOK
  <2>4. Len(<<>>) = 0
    OBVIOUS
  <2>. QED
    BY <2>2, <2>3, <2>4
<1>5. h \in Nat /\ h <= MaxPage
  <2>1. h \in Nat /\ h + 2 <= pageCnt /\ pageCnt \in 1 .. MaxPage + 1 /\ MaxPage \in Nat
    BY <1>1, TreeAssumption DEF Heights, Typed
  <2>. QED
    BY <2>1
<1>6. ASSUME NEW d \in 1 .. h, NEW x \in Int
      PROVE  at[d][x] \in 1 .. pageCnt - 1 /\ Passes(at, d, x, at[d][x], node[at[d][x]])
  <2>p. PICK p : p = at[d][x]
    OBVIOUS
  <2>n. PICK n : n = node[p]
    OBVIOUS
  <2>1. d \in 0 .. h /\ d # 0
    BY <1>5
  <2>2. p \in Pages /\ ht[p] = d
    BY <2>1, <2>p DEF Owners
  <2>3. ~n.leaf
    BY <2>1, <2>2, <2>n DEF Heights
  <2>4. n.keys \in Seq(Int) /\ Sorted(n.keys)
    <3>1. PICK b : b = (p = root)
      OBVIOUS
    <3>2. NodeOK(n, b)
      BY <1>3, <2>2, <2>n, <3>1
    <3>. QED
      BY <3>2, NodeSeqs
  <2>5. ASSUME NEW i, Gap(n.keys, x, i) PROVE at[d - 1][x] = n.ch[i]
    <3>1. Leads(n.ch[i], x, at[d - 1][x])
      BY <2>5, <2>n, <2>p DEF Owners
    <3>. QED
      BY <3>1 DEF Leads
  <2>6. \A i \in 1 .. Len(n.keys) : at[d][n.keys[i]] = p
    BY <2>2, <2>n DEF Owners
  <2>. QED
    BY <1>3, <2>2, <2>3, <2>4, <2>5, <2>6, <2>n, <2>p DEF Passes
<1>7. FirstOf(at, h, root)
  <2>1. h \in 0 .. h
    BY <1>5
  <2>2. \A x \in Int : at[h][x] = root
    BY DEF Owners, Leads
  <2>3. \A x \in Int : x <= x
    OBVIOUS
  <2>. QED
    BY <2>1, <2>2, <2>3 DEF FirstOf
<1>9. \A p \in 1 .. pageCnt - 1 : node[p].leaf => p \in Leaves
  BY <1>3 DEF Leaves
<1>8. CommittedTree(node, Content, at, h, pageCnt)
  BY <1>2, <1>3, <1>4, <1>5, <1>6, <1>9 DEF CommittedTree
<1>. QED
  BY <1>5, <1>7, <1>8

LEMMA CommittedNext ==
  (Inv /\ root # ERROR_PAGE /\ up = NoCall =>
    \A at, ht, h : Heights(ht, h) /\ Owners(at, ht, h) => NowCommitted(at, h))'
  BY CommittedNow, PTL

\* Steps that change no page.
LEMMA QuietStep ==
  ASSUME ConnInv,
         UNCHANGED <<node, pageCnt, up, last, headRoot, shared, committed, firstNew>>,
         ConnsOK', Idle' => Idle, cur_tx' \/ up = NoCall => cur_tx \/ up = NoCall,
         installing /\ ~Idle => installing' /\ ~Idle',
         \A c \in Conns : roots'[c] # ERROR_PAGE /\ (c = me' => Idle' /\ up = NoCall) =>
           \/ Idle /\ up = NoCall /\ roots'[c] = headRoot
           \/ \E b \in Conns : roots'[c] = roots[b] /\ (b = me => Idle /\ up = NoCall)
  PROVE  ConnInv'
<1>1. PICK at0, h0, at, ht, h :
        /\ HeadHeights(ht, h) /\ (headRoot # ERROR_PAGE => HeadOwners(at, ht, h))
        /\ Known(at0, h0, at, h)
  BY DEF ConnInv
<1>2. /\ HeadShape' /\ HeadHeights(ht, h)'
      /\ (headRoot # ERROR_PAGE => HeadOwners(at, ht, h))'
      /\ Pages' = Pages
  BY <1>1, HeadKept DEF ConnInv
<1>3. Known(at0, h0, at, h)'
  <2>1. ASSUME NEW old, Installed(old) PROVE Installed(old)'
    BY <2>1 DEF Installed
  <2>2. OldRoots(at0, h0)'
    <3>1. SUFFICES ASSUME NEW c \in Conns, roots'[c] # ERROR_PAGE,
                          c = me' => Idle' /\ up = NoCall
                   PROVE  firstNew # 1 /\ FirstOf(at0, h0, roots'[c])
      BY DEF OldRoots
    <3>2. CASE Idle /\ up = NoCall /\ roots'[c] = headRoot
      BY <1>1, <3>1, <3>2 DEF Known
    <3>3. CASE \E b \in Conns : roots'[c] = roots[b] /\ (b = me => Idle /\ up = NoCall)
      <4>1. PICK b \in Conns : roots'[c] = roots[b] /\ (b = me => Idle /\ up = NoCall)
        BY <3>3
      <4>2. firstNew # 1 /\ FirstOf(at0, h0, roots[b])
        BY <1>1, <3>1, <4>1 DEF Known, OldRoots
      <4>. QED
        BY <4>1, <4>2
    <3>. QED
      BY <3>1, <3>2, <3>3
  <2>3. ASSUME firstNew # 1, cur_tx' \/ up = NoCall
        PROVE  \E old : CommittedTree(old, committed', at0, h0, firstNew') /\ Installed(old)'
    <3>1. PICK old : CommittedTree(old, committed, at0, h0, firstNew) /\ Installed(old)
      BY <1>1, <2>3 DEF Known
    <3>. QED
      BY <2>1, <3>1
  <2>. QED
    BY <1>1, <2>2, <2>3 DEF Known
<1>. QED
  BY <1>2, <1>3 DEF ConnInv

LEMMA ConnInitInv == ConnInit => ConnInv
<1> SUFFICES ASSUME ConnInit PROVE ConnInv
  OBVIOUS
<1>1. /\ Init /\ root = ERROR_PAGE /\ pageCnt = 1 /\ up = NoCall /\ firstNew = 1
      /\ shared = node /\ cur_tx = FALSE /\ installing = FALSE /\ committed = Content
      /\ me \in Conns /\ roots = [c \in Conns |-> ERROR_PAGE]
      /\ headRoot = ERROR_PAGE /\ astray = FALSE
  BY DEF ConnInit, CursorInit, Init
<1>2. Inv
  BY <1>1, InitInv
<1>3. PICK at, ht, h : Heights(ht, h)
  BY <1>2 DEF Inv
<1>4. HeadShape /\ HeadHeights(ht, h)
  BY <1>1, <1>2, <1>3, HeadSame DEF Inv
<1>5. ConnsOK
  <2>1. shared = [p \in PageIds |-> shared[p]]
    BY <1>1, <1>4 DEF HeadShape
  <2>. QED
    BY <1>1, <2>1 DEF ConnsOK, Idle
<1>6. Known(at, h, at, h)
  <2>1. OldRoots(at, h)
    BY <1>1 DEF OldRoots
  <2>. QED
    BY <1>1, <2>1 DEF Known
<1>. QED
  BY <1>1, <1>4, <1>5, <1>6 DEF ConnInv

\* Between two transactions nothing is pending and nothing is private.
LEMMA StartKeeps ==
  ASSUME ConnInv, StartTransaction, UNCHANGED <<me, roots, headRoot, astray>>
  PROVE  ConnInv'
<1>1. /\ UNCHANGED <<node, pageCnt, up, last, headRoot, shared, committed, firstNew, root>>
      /\ ~cur_tx /\ cur_tx' = TRUE /\ up = NoCall
      /\ UNCHANGED <<me, roots, installing, astray>>
  BY DEF StartTransaction, vars
<1>2. Content' = Content
  BY <1>1, HeadKept
<1>3. Idle
  BY <1>1 DEF Idle
<1>4. ConnsOK
  BY DEF ConnInv
<1>5. ConnsOK'
  BY <1>1, <1>2, <1>3, <1>4 DEF ConnsOK
<1>. QED
  BY <1>1, <1>3, <1>5, QuietStep

LEMMA ConnectKeeps ==
  ASSUME ConnInv, NEW c \in Conns, Connect(c)
  PROVE  ConnInv'
<1>1. /\ UNCHANGED <<node, pageCnt, up, last, headRoot, shared, committed, firstNew, root>>
      /\ ~cur_tx /\ up = NoCall /\ c # me /\ UNCHANGED <<me, cur_tx, installing, astray>>
      /\ roots' = [roots EXCEPT ![c] = headRoot]
  BY DEF Connect, cursorVars, vars
<1>2. Content' = Content
  BY <1>1, HeadKept
<1>3. Idle /\ Idle'
  BY <1>1 DEF Idle
<1>4. ConnsOK
  BY DEF ConnInv
<1>5. \A b \in Conns : roots'[b] = IF b = c THEN headRoot ELSE roots[b]
  BY <1>1, <1>4 DEF ConnsOK
<1>6. ConnsOK'
  <2>1. roots' = [b \in Conns |-> roots'[b]]
    <3>1. PICK f : f = roots
      OBVIOUS
    <3>2. f = [b \in Conns |-> f[b]]
      BY <1>4, <3>1 DEF ConnsOK
    <3>. QED
      BY <1>1, <3>1, <3>2
  <2>2. roots'[me'] = root'
    BY <1>1, <1>4, <1>5 DEF ConnsOK
  <2>. QED
    BY <1>1, <1>2, <1>3, <1>4, <2>1, <2>2 DEF ConnsOK
<1>. QED
  BY <1>1, <1>3, <1>5, <1>6, QuietStep

LEMMA TurnKeeps ==
  ASSUME ConnInv, NEW c \in Conns, Turn(c)
  PROVE  ConnInv'
<1>1. /\ UNCHANGED <<node, pageCnt, up, last, headRoot, shared, committed, firstNew>>
      /\ ~cur_tx /\ up = NoCall /\ UNCHANGED <<roots, cur_tx, installing, astray>>
      /\ me' = c /\ root' = roots[c]
  BY DEF Turn
<1>2. Content' = Content
  BY <1>1, HeadKept
<1>3. Idle /\ Idle'
  BY <1>1 DEF Idle
<1>4. ConnsOK
  BY DEF ConnInv
<1>5. ConnsOK'
  BY <1>1, <1>2, <1>3, <1>4 DEF ConnsOK
<1>. QED
  BY <1>1, <1>3, <1>5, QuietStep

LEMMA NothingKeeps ==
  ASSUME ConnInv, UNCHANGED connVars
  PROVE  ConnInv'
<1>1. /\ UNCHANGED <<node, pageCnt, up, last, headRoot, shared, committed, firstNew, root>>
      /\ UNCHANGED <<me, roots, cur_tx, installing, astray>>
  BY DEF connVars, cursorVars, vars
<1>2. Content' = Content
  BY <1>1, HeadKept
<1>3. Idle' <=> Idle
  BY <1>1 DEF Idle
<1>4. ConnsOK
  BY DEF ConnInv
<1>5. ConnsOK'
  BY <1>1, <1>2, <1>3, <1>4 DEF ConnsOK
<1>. QED
  BY <1>1, <1>3, <1>5, QuietStep

\* A commit goes on to replace the shared pages.
LEMMA CommitKeeps ==
  ASSUME ConnInv, Commit, UNCHANGED <<me, roots, headRoot, astray>>
  PROVE  ConnInv'
<1>1. /\ UNCHANGED <<node, pageCnt, up, last, headRoot, shared, committed, firstNew, root>>
      /\ UNCHANGED <<me, roots, cur_tx, astray>>
      /\ cur_tx /\ up = NoCall /\ installing' = TRUE
  BY DEF Commit, vars
<1>2. Content' = Content
  BY <1>1, HeadKept
<1>3. Idle' <=> Idle
  BY <1>1 DEF Idle
<1>4. ConnsOK
  BY DEF ConnInv
<1>5. ConnsOK'
  BY <1>1, <1>2, <1>3, <1>4 DEF ConnsOK
<1>. QED
  BY <1>1, <1>3, <1>5, QuietStep

LEMMA InstallKeeps ==
  ASSUME ConnInv, NEW p \in PageIds, InstallPage(p), UNCHANGED <<me, roots, headRoot, astray>>
  PROVE  ConnInv'
<1>1. /\ UNCHANGED <<node, pageCnt, up, last, headRoot, committed, firstNew, root>>
      /\ UNCHANGED <<me, roots, cur_tx, installing, astray>>
      /\ installing /\ shared[p] # node[p]
      /\ shared' = [shared EXCEPT ![p] = node[p]]
  BY DEF InstallPage, vars
<1>2. ConnsOK
  BY DEF ConnInv
<1>3. ~Idle /\ ~Idle'
  <2>1. ~Idle
    BY <1>1, <1>2 DEF ConnsOK
  <2>. QED
    BY <1>1, <2>1 DEF Idle
<1>4. /\ \A q \in PageIds : shared'[q] = IF q = p THEN node[p] ELSE shared[q]
      /\ shared' = [q \in PageIds |-> shared'[q]]
  <2>1. PICK f : f = shared
    OBVIOUS
  <2>2. f = [q \in PageIds |-> f[q]]
    BY <1>2, <2>1 DEF ConnsOK
  <2>3. shared' = [f EXCEPT ![p] = node[p]]
    BY <1>1, <2>1
  <2>. QED
    BY <2>1, <2>2, <2>3
<1>5. ConnsOK'
  BY <1>1, <1>2, <1>3, <1>4 DEF ConnsOK
<1>6. PICK at0, h0, at, ht, h :
        /\ HeadHeights(ht, h) /\ (headRoot # ERROR_PAGE => HeadOwners(at, ht, h))
        /\ Known(at0, h0, at, h)
  BY DEF ConnInv
<1>7. /\ HeadShape' /\ HeadHeights(ht, h)'
      /\ (headRoot # ERROR_PAGE => HeadOwners(at, ht, h))'
  BY <1>1, <1>6, HeadKept DEF ConnInv
<1>8. \A q \in 1 .. firstNew - 1 : q \in PageIds
  <2>1. MaxPage \in Nat /\ pageCnt \in 1 .. MaxPage + 1 /\ firstNew \in Nat /\ firstNew <= pageCnt
    BY <1>6, TreeAssumption DEF ConnInv, HeadShape, Known
  <2>. QED
    BY <2>1 DEF PageIds
<1>9. ASSUME NEW old, Installed(old) PROVE Installed(old)'
  <2>1. SUFFICES ASSUME NEW q \in 1 .. firstNew - 1
                 PROVE  shared'[q] = old[q] \/ shared'[q] = node[q]
    BY <1>1, <1>3 DEF Installed
  <2>2. shared[q] = old[q] \/ shared[q] = node[q]
    BY <1>9 DEF Installed
  <2>3. shared'[q] = IF q = p THEN node[p] ELSE shared[q]
    BY <1>4, <1>8
  <2>. QED
    BY <2>2, <2>3
<1>10. ASSUME firstNew # 1
       PROVE  \E old : CommittedTree(old, committed', at0, h0, firstNew') /\ Installed(old)'
  <2>1. PICK old : CommittedTree(old, committed, at0, h0, firstNew) /\ Installed(old)
    BY <1>1, <1>2, <1>6, <1>10 DEF Known, ConnsOK
  <2>. QED
    BY <1>1, <1>9, <2>1
<1>11. OldRoots(at0, h0)'
  BY <1>1, <1>3, <1>6 DEF Known, OldRoots
<1>12. Known(at0, h0, at, h)'
  BY <1>1, <1>3, <1>6, <1>10, <1>11 DEF Known
<1>. QED
  BY <1>5, <1>7, <1>12 DEF ConnInv

\* What the connection at the head of the tree knows.
LEMMA HeadInv ==
  ASSUME ConnInv, root = headRoot
  PROVE  Inv
<1>1. PICK at, ht, h : HeadHeights(ht, h) /\ (headRoot # ERROR_PAGE => HeadOwners(at, ht, h))
  BY DEF ConnInv
<1>2. Shape /\ Heights(ht, h) /\ (root # ERROR_PAGE => Owners(at, ht, h))
  BY <1>1, HeadSame DEF ConnInv
<1>. QED
  BY <1>2 DEF Inv

\* The end of a commit makes the tree that is there the committed one.
LEMMA EndKeeps ==
  ASSUME ConnInv, EndCommit, UNCHANGED <<me, roots, headRoot, astray>>
  PROVE  ConnInv'
<1>1. /\ UNCHANGED <<node, pageCnt, up, last, headRoot, root, shared>>
      /\ installing /\ shared = node /\ cur_tx' = FALSE /\ installing' = FALSE
      /\ UNCHANGED <<me, roots, astray>>
      /\ committed' = Content /\ firstNew' = pageCnt
  BY DEF EndCommit, vars
<1>2. Content' = Content
  BY <1>1, HeadKept
<1>3. Idle'
  BY <1>1 DEF Idle
<1>4. ConnsOK /\ up = NoCall /\ cur_tx
  BY <1>1 DEF ConnInv, ConnsOK
<1>5. ConnsOK'
  BY <1>1, <1>2, <1>3, <1>4 DEF ConnsOK
<1>p. PICK at0, h0, at, ht, h :
        /\ HeadHeights(ht, h) /\ (headRoot # ERROR_PAGE => HeadOwners(at, ht, h))
        /\ Known(at0, h0, at, h)
  BY DEF ConnInv
<1>6. CASE Idle
  <2>1. UNCHANGED <<committed, firstNew>>
    BY <1>1, <1>4, <1>6, <1>p DEF ConnsOK, Known
  <2>. QED
    BY <1>1, <1>3, <1>4, <1>5, <1>6, <2>1, QuietStep
<1>7. CASE ~Idle
  <2>1. root = headRoot /\ Inv
    BY <1>7, HeadInv DEF Idle
  <2>3. /\ HeadShape' /\ HeadHeights(ht, h)'
        /\ (headRoot # ERROR_PAGE => HeadOwners(at, ht, h))'
    BY <1>1, <1>p, HeadKept DEF ConnInv
  <2>4. /\ pageCnt \in Nat /\ 1 <= pageCnt /\ pageCnt' = pageCnt
        /\ (headRoot = ERROR_PAGE => pageCnt = 1)
    <3>1. Shape /\ MaxPage \in Nat
      BY <2>1, TreeAssumption DEF Inv
    <3>. QED
      BY <1>1, <2>1, <3>1 DEF Shape, Typed, Rooted
  <2>6. firstNew \in Nat /\ 1 <= firstNew /\ firstNew <= pageCnt
    BY <1>p DEF Known
  <2>7. CASE headRoot = ERROR_PAGE
    <3>1. pageCnt = 1 /\ firstNew = 1
      BY <2>4, <2>6, <2>7
    <3>2. \A c \in Conns : roots[c] = ERROR_PAGE \/ c = me
      BY <1>p, <3>1 DEF Known, OldRoots
    <3>3. roots[me] = ERROR_PAGE
      BY <1>4, <2>1, <2>7 DEF ConnsOK
    <3>4. OldRoots(at, h)'
      BY <1>1, <3>2, <3>3 DEF OldRoots
    <3>5. Known(at, h, at, h)'
      BY <1>1, <2>4, <2>7, <3>1, <3>4 DEF Known
    <3>. QED
      BY <1>5, <2>3, <3>5 DEF ConnInv
  <2>8. CASE headRoot # ERROR_PAGE
    <3>1. Heights(ht, h) /\ Owners(at, ht, h) /\ root # ERROR_PAGE
      BY <1>p, <2>1, <2>8, HeadSame
    <3>2. h \in Nat /\ CommittedTree(node, Content, at, h, pageCnt) /\ FirstOf(at, h, root)
      BY <1>4, <2>1, <3>1, CommittedNow DEF NowCommitted
    <3>3. Since(at, h, pageCnt, at, h)
      BY <3>2, SinceNow
    <3>4. ASSUME NEW c \in Conns, roots[c] # ERROR_PAGE PROVE FirstOf(at, h, roots[c])
      <4>1. CASE c = me
        BY <1>4, <3>2, <4>1 DEF ConnsOK
      <4>2. CASE c # me
        <5>1. firstNew # 1 /\ FirstOf(at0, h0, roots[c])
          BY <1>p, <3>4, <4>2 DEF Known, OldRoots
        <5>2. h0 \in Nat /\ Since(at0, h0, firstNew, at, h)
          BY <1>p, <5>1 DEF Known
        <5>. QED
          BY <3>2, <5>1, <5>2, FirstStays
      <4>. QED
        BY <4>1, <4>2
    <3>5. pageCnt # 1
      BY <2>4, <3>1 DEF Heights
    <3>6. OldRoots(at, h)'
      BY <1>1, <3>4, <3>5 DEF OldRoots
    <3>7. \E old : CommittedTree(old, committed', at, h, firstNew') /\ Installed(old)'
      <4>1. PICK old : old = node
        OBVIOUS
      <4>2. CommittedTree(old, committed', at, h, firstNew')
        BY <1>1, <3>2, <4>1
      <4>3. Installed(old)'
        BY <1>1, <4>1 DEF Installed
      <4>. QED
        BY <4>2, <4>3
    <3>8. Known(at, h, at, h)'
      BY <1>1, <2>1, <2>4, <2>8, <3>2, <3>3, <3>5, <3>6, <3>7 DEF Known
    <3>. QED
      BY <1>5, <2>3, <3>8 DEF ConnInv
  <2>. QED
    BY <2>7, <2>8
<1>. QED
  BY <1>6, <1>7

\* What a step of a call does to the tree at the head.
TreeGoesOn(at, h, at2, ht2, h2) ==
  /\ Heights(ht2, h2)' /\ (root' # ERROR_PAGE => Owners(at2, ht2, h2)')
  /\ root # ERROR_PAGE => h \in Nat /\ h2 \in Nat /\ Inherits(at, h, at2, h2)

LEMMA CallStep ==
  ASSUME ConnInv, TreeCall, RootsFollow, root = headRoot,
         NEW at, NEW ht, NEW h,
         HeadHeights(ht, h), headRoot # ERROR_PAGE => HeadOwners(at, ht, h)
  PROVE  /\ UNCHANGED me /\ roots' = [roots EXCEPT ![me] = root']
         /\ headRoot' = root' /\ astray' = astray
         /\ Inv /\ Inv' /\ Typed /\ Typed' /\ Rooted /\ Rooted' /\ HeadShape'
         /\ pageCnt \in Nat /\ pageCnt' \in Nat /\ pageCnt <= pageCnt'
         /\ roots' = [c \in Conns |-> roots'[c]] /\ roots'[me] = root'
         /\ \A c \in Conns : c # me => roots'[c] = roots[c]
         /\ \E at2, ht2, h2 :
              /\ TreeGoesOn(at, h, at2, ht2, h2) /\ HeadHeights(ht2, h2)'
              /\ (headRoot # ERROR_PAGE => HeadOwners(at2, ht2, h2))'
<1>1. /\ [Next]_vars /\ UNCHANGED me /\ roots' = [roots EXCEPT ![me] = root']
      /\ headRoot' = root' /\ astray' = astray
  <2>1. astray \in BOOLEAN
    BY DEF ConnInv, ConnsOK
  <2>2. astray' = astray
    BY <2>1 DEF RootsFollow
  <2>3. Next
    BY DEF TreeCall, Next
  <2>. QED
    BY <2>2, <2>3 DEF RootsFollow
<1>2. Inv /\ Inv' /\ Follows
  BY <1>1, HeadInv, NextInv
<1>3. Typed /\ Typed' /\ Rooted /\ Rooted'
  BY <1>2 DEF Inv, Shape
<1>4. pageCnt \in Nat /\ pageCnt' \in Nat /\ pageCnt <= pageCnt'
  <2>1. pageCnt \in Nat /\ pageCnt' \in Nat
    BY <1>3, TreeAssumption DEF Typed
  <2>2. pageCnt' = pageCnt \/ pageCnt' = pageCnt + 1
    BY DEF TreeCall, LazyRemove, Add, AddToEmpty, AddToKey, AddToLeaf, AddToFull,
           InsertParent, ParentIsNew, ParentHasRoom, ParentIsFull
  <2>. QED
    BY <2>1, <2>2
<1>5. /\ roots' = [c \in Conns |-> roots'[c]] /\ roots'[me] = root'
      /\ \A c \in Conns : c # me => roots'[c] = roots[c]
  <2>1. PICK f : f = roots
    OBVIOUS
  <2>2. f = [c \in Conns |-> f[c]] /\ me \in Conns
    BY <2>1 DEF ConnInv, ConnsOK
  <2>3. roots' = [f EXCEPT ![me] = root']
    BY <1>1, <2>1
  <2>. QED
    BY <2>1, <2>2, <2>3
<1>6. \E at2, ht2, h2 : TreeGoesOn(at, h, at2, ht2, h2)
  <2>1. CASE root = ERROR_PAGE
    <3>1. PICK at2, ht2, h2 : Heights(ht2, h2)' /\ (root' # ERROR_PAGE => Owners(at2, ht2, h2)')
      BY <1>2 DEF Inv
    <3>. QED
      BY <2>1, <3>1 DEF TreeGoesOn
  <2>2. CASE root # ERROR_PAGE
    <3>1. Heights(ht, h) /\ Owners(at, ht, h)
      BY <2>2, HeadSame
    <3>2. FollowsFrom(at, h)
      BY <1>2, <2>2, <3>1 DEF Follows
    <3>3. PICK at2, ht2, h2 :
            Heights(ht2, h2)' /\ Owners(at2, ht2, h2)' /\ Inherits(at, h, at2, h2)
      BY <3>2 DEF FollowsFrom
    <3>4. h \in Nat /\ h2 \in Nat
      BY <3>1, <3>3 DEF Heights
    <3>. QED
      BY <3>3, <3>4 DEF TreeGoesOn
  <2>. QED
    BY <2>1, <2>2
<1>7. PICK at2, ht2, h2 : TreeGoesOn(at, h, at2, ht2, h2)
  BY <1>6
<1>8. /\ HeadShape' /\ HeadHeights(ht2, h2)'
      /\ (headRoot # ERROR_PAGE => HeadOwners(at2, ht2, h2))'
  <2>1. root' = headRoot'
    BY <1>1
  <2>. QED
    BY <1>2, <1>7, <2>1, HeadSameNext DEF Inv, TreeGoesOn
<1>. QED
  BY <1>1, <1>2, <1>3, <1>4, <1>5, <1>7, <1>8

\* A step of the transaction of a connection that knows the root.
LEMMA WriteKeeps ==
  ASSUME ConnInv, InTransaction, RootsFollow, root = headRoot
  PROVE  ConnInv'
<1>1. TreeCall /\ cur_tx /\ ~installing /\ PagesAllocated
      /\ UNCHANGED <<cur_tx, installing, committed, firstNew>>
  BY DEF InTransaction
<1>2. PICK at0, h0, at, ht, h :
        /\ HeadHeights(ht, h) /\ (headRoot # ERROR_PAGE => HeadOwners(at, ht, h))
        /\ Known(at0, h0, at, h)
  BY DEF ConnInv
<1>3. /\ UNCHANGED me /\ headRoot' = root' /\ astray' = astray
      /\ Inv' /\ Typed /\ Rooted' /\ HeadShape'
      /\ pageCnt \in Nat /\ pageCnt' \in Nat /\ pageCnt <= pageCnt'
      /\ roots' = [c \in Conns |-> roots'[c]] /\ roots'[me] = root'
      /\ \A c \in Conns : c # me => roots'[c] = roots[c]
  BY <1>1, <1>2, CallStep
<1>4. PICK at2, ht2, h2 :
        /\ TreeGoesOn(at, h, at2, ht2, h2) /\ HeadHeights(ht2, h2)'
        /\ (headRoot # ERROR_PAGE => HeadOwners(at2, ht2, h2))'
  BY <1>1, <1>2, CallStep
<1>5. firstNew \in Nat /\ 1 <= firstNew /\ firstNew <= pageCnt
  BY <1>2 DEF Known
<1>6. ~Idle /\ ~Idle'
  BY <1>1, <1>3 DEF Idle
<1>7. \A p \in 1 .. firstNew - 1 : shared'[p] = shared[p]
  <2>1. MaxPage \in Nat /\ pageCnt \in 1 .. MaxPage + 1
    BY <1>3, TreeAssumption DEF Typed
  <2>2. SUFFICES ASSUME NEW p \in PageIds, p < pageCnt PROVE shared'[p] = shared[p]
    <3>1. \A p \in 1 .. firstNew - 1 : p \in PageIds /\ p < pageCnt
      BY <1>5, <2>1 DEF PageIds
    <3>. QED
      BY <2>2, <3>1
  <2>3. node[p] # NoNode
    BY <1>3, <2>2, TreeAssumption DEF Typed, NodeOK
  <2>. QED
    BY <1>1, <2>3 DEF PagesAllocated
<1>8. ConnsOK'
  <2>1. ConnsOK
    BY DEF ConnInv
  <2>2. shared' = [p \in PageIds |-> shared'[p]]
    BY <1>1 DEF PagesAllocated
  <2>. QED
    BY <1>1, <1>3, <1>6, <2>1, <2>2 DEF ConnsOK
<1>9. OldRoots(at0, h0)'
  BY <1>1, <1>2, <1>3, <1>6 DEF Known, OldRoots
<1>10. ASSUME firstNew # 1
       PROVE  \E old : CommittedTree(old, committed', at0, h0, firstNew') /\ Installed(old)'
  <2>1. PICK old : CommittedTree(old, committed, at0, h0, firstNew) /\ Installed(old)
    BY <1>1, <1>2, <1>10 DEF Known
  <2>2. \A p \in 1 .. firstNew - 1 : shared'[p] = old[p]
    BY <1>1, <1>7, <2>1 DEF Installed
  <2>3. Installed(old)'
    BY <1>1, <2>2 DEF Installed
  <2>. QED
    BY <1>1, <2>1, <2>3
<1>11. ASSUME firstNew # 1
       PROVE  root' # ERROR_PAGE /\ h0 \in Nat /\ Since(at0, h0, firstNew, at2, h2)
  <2>1. root # ERROR_PAGE /\ h0 \in Nat /\ Since(at0, h0, firstNew, at, h)
    BY <1>2, <1>11 DEF Known
  <2>2. h \in Nat /\ h2 \in Nat /\ Inherits(at, h, at2, h2)
    BY <1>4, <2>1 DEF TreeGoesOn
  <2>3. Since(at0, h0, firstNew, at2, h2)
    BY <1>3, <1>5, <2>1, <2>2, SinceNext
  <2>4. root' # ERROR_PAGE
    <3>1. pageCnt' # 1
      BY <1>3, <1>5, <1>11
    <3>. QED
      BY <1>3, <3>1 DEF Rooted
  <2>. QED
    BY <2>1, <2>3, <2>4
<1>12. Known(at0, h0, at2, h2)'
  <2>1. firstNew \in Nat /\ 1 <= firstNew /\ firstNew <= pageCnt'
    BY <1>3, <1>5
  <2>. QED
    BY <1>1, <1>3, <1>6, <1>9, <1>10, <1>11, <2>1 DEF Known
<1>. QED
  BY <1>3, <1>4, <1>8, <1>12 DEF ConnInv

\* A step of a call without a transaction, which is committed at once.
LEMMA UnloggedKeeps ==
  ASSUME ConnInv, WithoutTransaction, RootsFollow, root = headRoot
  PROVE  ConnInv'
<1>1. TreeCall /\ ~cur_tx /\ UNCHANGED <<cur_tx, installing>>
      /\ shared' = node' /\ committed' = Content' /\ firstNew' = pageCnt'
  BY DEF WithoutTransaction
<1>2. PICK at0, h0, at, ht, h :
        /\ HeadHeights(ht, h) /\ (headRoot # ERROR_PAGE => HeadOwners(at, ht, h))
        /\ Known(at0, h0, at, h)
  BY DEF ConnInv
<1>3. /\ UNCHANGED me /\ headRoot' = root' /\ astray' = astray
      /\ Inv' /\ Typed' /\ Rooted' /\ HeadShape'
      /\ pageCnt \in Nat /\ pageCnt' \in Nat /\ pageCnt <= pageCnt'
      /\ roots' = [c \in Conns |-> roots'[c]] /\ roots'[me] = root'
      /\ \A c \in Conns : c # me => roots'[c] = roots[c]
  BY <1>1, <1>2, CallStep
<1>4. PICK at2, ht2, h2 :
        /\ TreeGoesOn(at, h, at2, ht2, h2) /\ HeadHeights(ht2, h2)'
        /\ (headRoot # ERROR_PAGE => HeadOwners(at2, ht2, h2))'
  BY <1>1, <1>2, CallStep
<1>5. firstNew \in Nat /\ 1 <= firstNew /\ firstNew <= pageCnt
  BY <1>2 DEF Known
<1>6. Idle /\ Idle' /\ ~installing
  BY <1>1 DEF Idle, ConnInv, ConnsOK
<1>7. ConnsOK'
  <2>1. ConnsOK
    BY DEF ConnInv
  <2>2. shared' = [p \in PageIds |-> shared'[p]]
    <3>1. node' = [p \in PageIds |-> node'[p]]
      BY <1>3 DEF Typed
    <3>. QED
      BY <1>1, <3>1
  <2>. QED
    BY <1>1, <1>3, <1>6, <2>1, <2>2 DEF ConnsOK
<1>8. pageCnt' # 1 => root' # ERROR_PAGE
  BY <1>3 DEF Rooted
<1>9. root' # ERROR_PAGE => h2 \in Nat /\ Owners(at2, ht2, h2)' /\ pageCnt' # 1
  BY <1>4, <1>5, <1>3 DEF TreeGoesOn, Heights
<1>10. root' # ERROR_PAGE => Since(at2, h2, pageCnt', at2, h2)
  <2>1. PICK n : n = pageCnt'
    OBVIOUS
  <2>. QED
    BY <1>9, <2>1, SinceNow
<1>11. root' # ERROR_PAGE /\ up' = NoCall =>
         /\ CommittedTree(node', Content', at2, h2, pageCnt') /\ FirstOf(at2, h2, root')
  BY <1>3, <1>4, <1>9, CommittedNext DEF NowCommitted, TreeGoesOn
<1>12. OldRoots(at2, h2)'
  <2>1. SUFFICES ASSUME NEW c \in Conns, roots'[c] # ERROR_PAGE, c = me => up' = NoCall
                 PROVE  pageCnt' # 1 /\ FirstOf(at2, h2, roots'[c])
    BY <1>1, <1>3 DEF OldRoots
  <2>2. CASE c = me
    BY <1>3, <1>9, <1>11, <2>1, <2>2
  <2>3. CASE c # me
    <3>1. firstNew # 1 /\ FirstOf(at0, h0, roots[c])
      BY <1>2, <1>3, <2>1, <2>3 DEF Known, OldRoots
    <3>2. root # ERROR_PAGE /\ h0 \in Nat /\ Since(at0, h0, firstNew, at, h)
      BY <1>2, <3>1 DEF Known
    <3>3. h \in Nat /\ h2 \in Nat /\ Inherits(at, h, at2, h2)
      BY <1>4, <3>2 DEF TreeGoesOn
    <3>4. Since(at0, h0, firstNew, at2, h2)
      BY <1>3, <1>5, <3>2, <3>3, SinceNext
    <3>5. FirstOf(at2, h2, roots[c])
      BY <3>1, <3>2, <3>3, <3>4, FirstStays
    <3>6. pageCnt' # 1
      BY <1>3, <1>5, <3>1
    <3>. QED
      BY <1>3, <2>3, <3>5, <3>6
  <2>. QED
    BY <2>2, <2>3
<1>n. PICK old : old = node'
  OBVIOUS
<1>13. Installed(old)'
  BY <1>1, <1>n DEF Installed
<1>14. Known(at2, h2, at2, h2)'
  <2>1. pageCnt' \in Nat /\ 1 <= pageCnt' /\ pageCnt' <= pageCnt'
    BY <1>3, <1>5
  <2>2. firstNew' # 1 /\ (cur_tx' \/ up' = NoCall) =>
          \E N : CommittedTree(N, committed', at2, h2, firstNew') /\ Installed(N)'
    <3>1. SUFFICES ASSUME firstNew' # 1, up' = NoCall
                   PROVE  CommittedTree(old, committed', at2, h2, firstNew')
      BY <1>1, <1>13
    <3>. QED
      BY <1>1, <1>8, <1>11, <1>n, <3>1
  <2>. QED
    BY <1>1, <1>3, <1>8, <1>9, <1>10, <1>11, <1>12, <2>1, <2>2 DEF Known
<1>. QED
  BY <1>3, <1>4, <1>7, <1>14 DEF ConnInv

\* Once somebody has written under an old root nothing is promised any more.
LEMMA ConnNextInv ==
  ASSUME astray \/ ConnInv, [ConnNext]_connVars
  PROVE  astray' \/ ConnInv'
<1>1. CASE UNCHANGED connVars
  BY <1>1, NothingKeeps DEF connVars
<1>2. CASE \E c \in Conns : Connect(c) \/ Turn(c)
  BY <1>2, ConnectKeeps, TurnKeeps DEF Connect, Turn
<1>3. CASE TransactionStep /\ UNCHANGED <<me, roots, headRoot, astray>>
  BY <1>3, StartKeeps, CommitKeeps, InstallKeeps, EndKeeps DEF TransactionStep
<1>4. CASE (InTransaction \/ WithoutTransaction) /\ RootsFollow
  <2>1. astray' = (astray \/ root # headRoot)
    BY <1>4 DEF RootsFollow
  <2>2. CASE astray \/ root # headRoot
    BY <2>1, <2>2
  <2>3. CASE ~astray /\ root = headRoot
    BY <1>4, <2>3, WriteKeeps, UnloggedKeeps
  <2>. QED
    BY <2>2, <2>3
<1>. QED
  BY <1>1, <1>2, <1>3, <1>4 DEF ConnNext, ConnTransaction
-----------------------------------------------------------------------------
\* What the invariant says of reading.

LEMMA CommittedScannable ==
  ASSUME NEW content, NEW at, NEW h, NEW cnt, CommittedTree(shared, content, at, h, cnt)
  PROVE  \E P : /\ Scannable(at[0], P, content) /\ P = {p \in 1 .. cnt - 1 : shared[p].leaf}
                /\ \A p \in P : shared[p].leaf /\ shared[p].keys # <<>>
<1>1. PICK P : /\ P \subseteq 1 .. cnt - 1
               /\ Chain(shared, at[0], P, content)
               /\ \A p \in P : shared[p].next \in Nat /\ shared[p].leaf /\ shared[p].keys # <<>>
               /\ \A p \in 1 .. cnt - 1 : shared[p].leaf => p \in P
  BY DEF CommittedTree
<1>2. P = {p \in 1 .. cnt - 1 : shared[p].leaf}
  BY <1>1
<1>. QED
  BY <1>1, <1>2 DEF Scannable

\* An old root still leads to a leaf of the committed tree, not too far right.
LeadsTo(at, h, lb, p, s) ==
  \E d \in 0 .. h : /\ d = 0 \/ d + s <= h
                    /\ \E y \in Int : y <= lb /\ at[d][y] = p

LEMMA LowerLeads ==
  ASSUME NEW content, NEW at, NEW h, NEW cnt, CommittedTree(shared, content, at, h, cnt),
         NEW lb \in Int, NEW p, NEW s \in Nat, LeadsTo(at, h, lb, p, s)
  PROVE  LeadsTo(at, h, lb, Lower(p, lb), s + 1)
<1>0. h \in Nat
  BY DEF CommittedTree
<1>1. PICK d \in 0 .. h : /\ d = 0 \/ d + s <= h
                          /\ \E y \in Int : y <= lb /\ at[d][y] = p
  BY DEF LeadsTo
<1>2. PICK y \in Int : y <= lb /\ at[d][y] = p
  BY <1>1
<1>3. CASE d = 0
  <2>1. PICK P : Scannable(at[0], P, content) /\ \A q \in P : shared[q].leaf
    BY CommittedScannable
  <2>2. p \in P
    <3>1. PICK own : own = at[0]
      OBVIOUS
    <3>2. Chain(shared, own, P, content)
      BY <2>1, <3>1 DEF Scannable
    <3>3. own[y] = p
      BY <1>2, <1>3, <3>1
    <3>. QED
      BY <3>2, <3>3 DEF Chain
  <2>3. Lower(p, lb) = p
    BY <2>1, <2>2 DEF Lower
  <2>. QED
    BY <1>0, <1>2, <1>3, <2>3 DEF LeadsTo
<1>4. CASE d # 0
  <2>0. d \in 1 .. h /\ d - 1 \in 0 .. h /\ (d - 1) + (s + 1) <= h
    BY <1>0, <1>1, <1>4
  <2>n. PICK n : n = shared[p]
    OBVIOUS
  <2>1. ASSUME NEW x \in Int, at[d][x] = p PROVE Passes(at, d, x, p, n)
    BY <2>0, <2>1, <2>n DEF CommittedTree
  <2>2. Passes(at, d, y, p, n)
    BY <1>2, <2>1
  <2>k. PICK keys \in Seq(Int) : keys = n.keys
    BY <2>2 DEF Passes
  <2>3. ~n.leaf /\ Sorted(keys) /\ \A i \in 1 .. Len(keys) : at[d][keys[i]] = p
    BY <2>2, <2>k DEF Passes
  <2>4. PICK i : i = find_first_gt(n, lb)
    OBVIOUS
  <2>5. Gap(keys, lb, i)
    BY <2>2, <2>4, <2>k, GapFound DEF Passes
  <2>6. Lower(p, lb) = n.ch[i]
    BY <2>3, <2>4, <2>n DEF Lower
  <2>7. i \in 1 .. Len(keys) + 1 /\ Len(keys) \in Nat
    BY <2>5 DEF Gap
  <2>8. \E x \in Int : x <= lb /\ at[d][x] = p /\ Gap(keys, x, i)
    <3>1. CASE Gap(keys, y, i)
      BY <1>2, <3>1
    <3>2. CASE ~Gap(keys, y, i)
      <4>1. \A j \in i .. Len(keys) : y < keys[j]
        <5>1. SUFFICES ASSUME NEW j \in i .. Len(keys) PROVE y < keys[j]
          OBVIOUS
        <5>2. keys[j] \in Int /\ lb < keys[j]
          BY <2>5, <2>7 DEF Gap
        <5>. QED
          BY <1>2, <5>2
      <4>2. PICK j \in 1 .. i - 1 : ~(keys[j] <= y)
        BY <2>7, <3>2, <4>1 DEF Gap
      <4>3. PICK m \in 1 .. Len(keys) : m = i - 1
        BY <2>7, <4>2
      <4>4. PICK x \in Int : x = keys[m]
        BY <4>3
      <4>5. x <= lb
        BY <2>5, <2>7, <4>3, <4>4 DEF Gap
      <4>6. ASSUME NEW a \in 1 .. i - 1 PROVE keys[a] <= x
        <5>1. a \in 1 .. Len(keys) /\ keys[a] \in Int /\ (a = m \/ a < m)
          BY <2>7, <4>3
        <5>2. a < m => keys[a] < keys[m]
          BY <2>3, <4>3, <5>1 DEF Sorted
        <5>. QED
          BY <4>4, <5>1, <5>2
      <4>7. ASSUME NEW a \in i .. Len(keys) PROVE x < keys[a]
        <5>1. a \in 1 .. Len(keys) /\ m < a
          BY <2>7, <4>3
        <5>. QED
          BY <2>3, <4>3, <4>4, <5>1 DEF Sorted
      <4>8. Gap(keys, x, i)
        BY <2>7, <4>6, <4>7 DEF Gap
      <4>. QED
        BY <2>3, <4>3, <4>4, <4>5, <4>8
    <3>. QED
      BY <3>1, <3>2
  <2>9. PICK x \in Int : x <= lb /\ at[d][x] = p /\ Gap(keys, x, i)
    BY <2>8
  <2>10. at[d - 1][x] = n.ch[i]
    BY <2>1, <2>9, <2>k DEF Passes
  <2>. QED
    BY <2>0, <2>6, <2>9, <2>10 DEF LeadsTo
<1>. QED
  BY <1>3, <1>4

LEMMA SharedDescent ==
  ASSUME NEW content, NEW at, NEW h, NEW cnt, CommittedTree(shared, content, at, h, cnt),
         NEW lb \in Int, NEW r, FirstOf(at, h, r)
  PROVE  \E y \in Int : y <= lb /\ at[0][y] = SharedLeaf(r, lb)
<1> DEFINE way == CHOOSE w : w = [s \in 0 .. MaxPage |->
                                    IF s = 0 THEN r ELSE Lower(w[s - 1], lb)]
<1>0. MaxPage \in Nat /\ h \in Nat /\ h <= MaxPage
  BY TreeAssumption DEF CommittedTree
<1>1. SharedLeaf(r, lb) = way[MaxPage]
  BY DEF SharedLeaf, Lower
<1>2. way = [s \in 0 .. MaxPage |-> IF s = 0 THEN r ELSE Lower(way[s - 1], lb)]
  <2>1. \E w : w = [s \in 0 .. MaxPage |-> IF s = 0 THEN r ELSE Lower(w[s - 1], lb)]
    <3>1. PICK w : IsWay(w, FALSE, TRUE, r, lb, MaxPage)
      BY <1>0, Iterates
    <3>. QED
      BY <3>1 DEF IsWay, LoopStepped
  <2>. QED
    BY <2>1
<1> HIDE DEF way
<1>3. ASSUME NEW s \in 0 .. MaxPage PROVE LeadsTo(at, h, lb, way[s], s)
  <2> DEFINE Bad == {j \in 0 .. MaxPage : ~LeadsTo(at, h, lb, way[j], j)}
  <2> SUFFICES ASSUME Bad # {} PROVE FALSE
    OBVIOUS
  <2>1. Bad \in SUBSET Nat
    BY <1>0
  <2>2. PICK j \in Bad : \A k \in Bad : j <= k
    <3> HIDE DEF Bad
    <3>. QED
      BY <2>1, LeastExists
  <2>3. j \in 0 .. MaxPage /\ ~LeadsTo(at, h, lb, way[j], j)
    BY <2>2
  <2>4. CASE j = 0
    <3>1. way[j] = r
      BY <1>2, <2>3, <2>4
    <3>2. PICK d \in 0 .. h : \A x \in Int : \E y \in Int : y <= x /\ at[d][y] = r
      BY DEF FirstOf
    <3>3. d + 0 <= h
      BY <1>0
    <3>. QED
      BY <2>3, <2>4, <3>1, <3>2, <3>3 DEF LeadsTo
  <2>5. CASE j # 0
    <3>1. j - 1 \in 0 .. MaxPage /\ ~(j <= j - 1) /\ j - 1 \in Nat /\ (j - 1) + 1 = j
      BY <1>0, <2>3, <2>5
    <3>2. j - 1 \notin Bad
      <4> HIDE DEF Bad
      <4>. QED
        BY <2>2, <3>1
    <3>3. LeadsTo(at, h, lb, way[j - 1], j - 1)
      BY <3>1, <3>2
    <3>4. LeadsTo(at, h, lb, Lower(way[j - 1], lb), (j - 1) + 1)
      BY <3>1, <3>3, LowerLeads
    <3>5. way[j] = Lower(way[j - 1], lb)
      BY <1>2, <2>3, <2>5
    <3>. QED
      BY <2>3, <3>1, <3>4, <3>5
  <2>. QED
    BY <2>4, <2>5
<1>l. PICK leaf : leaf = way[MaxPage]
  OBVIOUS
<1>4. LeadsTo(at, h, lb, leaf, MaxPage)
  BY <1>0, <1>3, <1>l
<1>5. PICK d \in 0 .. h : /\ d = 0 \/ d + MaxPage <= h
                          /\ \E y \in Int : y <= lb /\ at[d][y] = leaf
  BY <1>4 DEF LeadsTo
<1>6. d = 0
  BY <1>0, <1>5
<1>. QED
  BY <1>1, <1>5, <1>6, <1>l

\* While a commit that has divided no page is under way, each row is in the
\* shared pages as it was or as it will be.
MixOf(table, c1, c2, N, N2, own) ==
  \A k \in Keys : table[k] = IF c1[k] # c2[k] /\ N[own[k]] = N2[own[k]]
                             THEN c2[k] ELSE c1[k]

LEMMA MixedLeaf ==
  ASSUME NEW N1, NEW N2, NEW N, NEW own, NEW P, NEW c1, NEW c2, NEW table,
         Chain(N1, own, P, c1), Chain(N2, own, P, c2),
         \A p \in P : N[p] = N1[p] \/ N[p] = N2[p],
         MixOf(table, c1, c2, N, N2, own)
  PROVE  Chain(N, own, P, table)
<1>m. \A k \in Keys : table[k] = IF c1[k] # c2[k] /\ N[own[k]] = N2[own[k]]
                                 THEN c2[k] ELSE c1[k]
  BY DEF MixOf
<1>1. /\ P \subseteq PageIds /\ \A x \in Int : own[x] \in P
      /\ \A x, y, z \in Int : x < y /\ y < z /\ own[x] = own[z] => own[y] = own[x]
  BY DEF Chain
<1>2. \A x \in Int : own[x + 1] # own[x] => N[own[x]].next = own[x + 1]
  <2>1. ASSUME NEW x \in Int, own[x + 1] # own[x] PROVE N[own[x]].next = own[x + 1]
    <3>1. N1[own[x]].next = own[x + 1] /\ N2[own[x]].next = own[x + 1]
      BY <2>1 DEF Chain
    <3>. QED
      BY <1>1, <3>1
  <2>. QED
    BY <2>1
<1>3. ASSUME NEW p \in P
      PROVE  /\ N[p].keys \in Seq(Int) /\ Sorted(N[p].keys)
             /\ Len(N[p].keys) <= Order - 1
             /\ N[p].ch \in Seq(Entries)
  <2>1. CASE N[p] = N1[p]
    BY <2>1 DEF Chain
  <2>2. CASE N[p] = N2[p]
    BY <2>2 DEF Chain
  <2>. QED
    BY <2>1, <2>2
<1>4. ASSUME NEW p \in P, NEW i \in 1 .. Len(N[p].keys)
      PROVE  /\ N[p].keys[i] \in Keys /\ own[N[p].keys[i]] = p
             /\ table[N[p].keys[i]] = N[p].ch[i] /\ i \in 1 .. Len(N[p].ch)
  <2>k. PICK k : k = N[p].keys[i]
    OBVIOUS
  <2>1. CASE N[p] = N2[p]
    <3>1. k \in Keys /\ own[k] = p /\ c2[k] = N[p].ch[i] /\ i \in 1 .. Len(N[p].ch)
      BY <2>k, <2>1 DEF Chain
    <3>2. table[k] = c2[k]
      BY <1>m, <2>1, <3>1
    <3>. QED
      BY <2>k, <3>1, <3>2
  <2>2. CASE N[p] # N2[p]
    <3>1. N[p] = N1[p]
      BY <2>2
    <3>2. k \in Keys /\ own[k] = p /\ c1[k] = N[p].ch[i] /\ i \in 1 .. Len(N[p].ch)
      BY <2>k, <3>1 DEF Chain
    <3>3. table[k] = c1[k]
      BY <1>m, <2>2, <3>2
    <3>. QED
      BY <2>k, <3>2, <3>3
  <2>. QED
    BY <2>1, <2>2
<1>5. ASSUME NEW k \in Keys, table[k] # ERROR_PAGE
      PROVE  \E i \in 1 .. Len(N[own[k]].keys) : N[own[k]].keys[i] = k
  <2>0. own[k] \in P
    BY <1>1, TreeAssumption
  <2>1. CASE N[own[k]] = N2[own[k]]
    <3>1. table[k] = c2[k]
      BY <1>m, <2>1
    <3>2. \E i \in 1 .. Len(N2[own[k]].keys) : N2[own[k]].keys[i] = k
      BY <1>5, <3>1 DEF Chain
    <3>. QED
      BY <2>1, <3>2
  <2>2. CASE N[own[k]] # N2[own[k]]
    <3>1. table[k] = c1[k] /\ N[own[k]] = N1[own[k]]
      BY <1>m, <2>0, <2>2
    <3>2. \E i \in 1 .. Len(N1[own[k]].keys) : N1[own[k]].keys[i] = k
      BY <1>5, <3>1 DEF Chain
    <3>. QED
      BY <3>1, <3>2
  <2>. QED
    BY <2>1, <2>2
<1>. QED
  BY <1>1, <1>2, <1>3, <1>4, <1>5 DEF Chain

\* Two trees of the same pages have the same owners and the same leaves.
LEMMA SameOwners ==
  ASSUME NEW N1, NEW c1, NEW at0, NEW h0, NEW cnt \in Nat, CommittedTree(N1, c1, at0, h0, cnt),
         NEW N2, NEW c2, NEW at, NEW h, CommittedTree(N2, c2, at, h, cnt),
         Since(at0, h0, cnt, at, h)
  PROVE  /\ h0 \in Nat /\ h \in Nat /\ h0 <= h
         /\ \A d \in 0 .. h0 : \A x \in Int : at[d][x] = at0[d][x]
         /\ \A p \in 1 .. cnt - 1 : N1[p].leaf <=> N2[p].leaf
<1>1. PICK own0, own : own0 = at0[0] /\ own = at[0]
  OBVIOUS
<1>2. PICK P0 : /\ P0 \subseteq 1 .. cnt - 1
                /\ Chain(N1, own0, P0, c1)
                /\ \A p \in P0 : N1[p].leaf /\ N1[p].keys # <<>>
                /\ \A p \in 1 .. cnt - 1 : N1[p].leaf => p \in P0
  BY <1>1 DEF CommittedTree
<1>3. PICK P : /\ P \subseteq 1 .. cnt - 1
               /\ Chain(N2, own, P, c2)
               /\ \A p \in P : N2[p].leaf /\ N2[p].keys # <<>>
               /\ \A p \in 1 .. cnt - 1 : N2[p].leaf => p \in P
  BY <1>1 DEF CommittedTree
<1>4. h0 \in Nat /\ h \in Nat /\ h0 <= h
  BY DEF CommittedTree, Since
<1>5. ASSUME NEW d \in 0 .. h0, NEW x \in Int PROVE at[d][x] = at0[d][x]
  <2>1. at[d][x] \in 1 .. cnt - 1
    <3>1. CASE d = 0
      BY <1>1, <1>3, <3>1 DEF Chain
    <3>2. CASE d # 0
      <4>1. d \in 1 .. h
        BY <1>4, <3>2
      <4>. QED
        BY <4>1 DEF CommittedTree
    <3>. QED
      BY <3>1, <3>2
  <2>2. at[d][x] = at0[d][x] \/ at[d][x] >= cnt
    BY DEF Since
  <2>. QED
    BY <2>1, <2>2
<1>6. \A x \in Int : own[x] = own0[x]
  <2>1. 0 \in 0 .. h0
    BY <1>4
  <2>. QED
    BY <1>1, <1>5, <2>1
<1>7. ASSUME NEW N, NEW c, NEW o, NEW Q, Chain(N, o, Q, c), NEW p \in Q, N[p].keys # <<>>
      PROVE  \E x \in Int : o[x] = p
  <2>1. PICK s \in Seq(Int) : s = N[p].keys /\ s # <<>>
    BY <1>7 DEF Chain
  <2>2. 1 \in 1 .. Len(s) /\ s[1] \in Int
    BY <2>1
  <2>3. o[s[1]] = p
    BY <1>7, <2>1, <2>2 DEF Chain
  <2>. QED
    BY <2>2, <2>3
<1>8. ASSUME NEW p \in P0 PROVE p \in P
  <2>1. PICK x \in Int : own0[x] = p
    BY <1>2, <1>7
  <2>. QED
    BY <1>3, <1>6, <2>1 DEF Chain
<1>9. ASSUME NEW p \in P PROVE p \in P0
  <2>1. PICK x \in Int : own[x] = p
    BY <1>3, <1>7
  <2>. QED
    BY <1>2, <1>6, <2>1 DEF Chain
<1>10. \A p \in 1 .. cnt - 1 : N1[p].leaf <=> N2[p].leaf
  <2>1. ASSUME NEW p \in 1 .. cnt - 1 PROVE N1[p].leaf = TRUE <=> N2[p].leaf = TRUE
    BY <1>2, <1>3, <1>8, <1>9
  <2>. QED
    BY <1>2, <1>3, <1>8, <1>9
<1>. QED
  BY <1>4, <1>5, <1>10

LEMMA ChainOwners ==
  ASSUME NEW N, NEW own, NEW own2, NEW P, NEW content, Chain(N, own2, P, content),
         \A x \in Int : own2[x] = own[x]
  PROVE  Chain(N, own, P, content)
<1>1. /\ P \subseteq PageIds
      /\ \A x \in Int : own[x] \in P
      /\ \A x, y, z \in Int : x < y /\ y < z /\ own[x] = own[z] => own[y] = own[x]
  BY DEF Chain
<1>2. ASSUME NEW x \in Int, own[x + 1] # own[x] PROVE N[own[x]].next = own[x + 1]
  <2>1. own2[x] = own[x] /\ own2[x + 1] = own[x + 1]
    OBVIOUS
  <2>2. N[own2[x]].next = own2[x + 1]
    BY <1>2, <2>1 DEF Chain
  <2>. QED
    BY <2>1, <2>2
<1>3. \A p \in P : /\ N[p].keys \in Seq(Int) /\ Sorted(N[p].keys)
                  /\ Len(N[p].keys) <= Order - 1
                  /\ N[p].ch \in Seq(Entries)
  BY DEF Chain
<1>4. ASSUME NEW p \in P, NEW i \in 1 .. Len(N[p].keys)
      PROVE  /\ N[p].keys[i] \in Keys /\ own[N[p].keys[i]] = p
             /\ content[N[p].keys[i]] = N[p].ch[i] /\ i \in 1 .. Len(N[p].ch)
  <2>1. /\ N[p].keys[i] \in Keys /\ own2[N[p].keys[i]] = p
        /\ content[N[p].keys[i]] = N[p].ch[i] /\ i \in 1 .. Len(N[p].ch)
    BY DEF Chain
  <2>2. N[p].keys[i] \in Int
    BY <2>1, TreeAssumption
  <2>. QED
    BY <2>1, <2>2
<1>5. ASSUME NEW k \in Keys, content[k] # ERROR_PAGE
      PROVE  \E i \in 1 .. Len(N[own[k]].keys) : N[own[k]].keys[i] = k
  <2>1. own2[k] = own[k]
    BY TreeAssumption
  <2>2. \E i \in 1 .. Len(N[own2[k]].keys) : N[own2[k]].keys[i] = k
    BY <1>5 DEF Chain
  <2>. QED
    BY <2>1, <2>2
<1>. QED
  BY <1>1, <1>2, <1>3, <1>4, <1>5 DEF Chain

\* Only the entries of the keys matter.
LEMMA SameContent ==
  ASSUME NEW N, NEW content, NEW table, NEW at, NEW h, NEW cnt,
         CommittedTree(N, content, at, h, cnt), \A k \in Keys : table[k] = content[k]
  PROVE  CommittedTree(N, table, at, h, cnt)
<1>1. ASSUME NEW own, NEW P, Chain(N, own, P, content) PROVE Chain(N, own, P, table)
  BY <1>1 DEF Chain
<1>. QED
  BY <1>1 DEF CommittedTree

LEMMA MixedTree ==
  ASSUME NEW N1, NEW c1, NEW at0, NEW h0, NEW cnt \in Nat, CommittedTree(N1, c1, at0, h0, cnt),
         NEW N2, NEW c2, NEW at, NEW h, CommittedTree(N2, c2, at, h, cnt),
         Since(at0, h0, cnt, at, h),
         NEW N, \A p \in 1 .. cnt - 1 : N[p] = N1[p] \/ N[p] = N2[p],
         NEW own, own = at0[0], NEW table,
         MixOf(table, c1, c2, N, N2, own)
  PROVE  CommittedTree(N, table, at0, h0, cnt)
<1>1. /\ h0 \in Nat /\ h \in Nat /\ h0 <= h
      /\ \A d \in 0 .. h0 : \A x \in Int : at[d][x] = at0[d][x]
      /\ \A p \in 1 .. cnt - 1 : N1[p].leaf <=> N2[p].leaf
  BY SameOwners
<1>2. PICK P : /\ P \subseteq 1 .. cnt - 1
               /\ Chain(N1, own, P, c1)
               /\ \A p \in P : N1[p].next \in Nat /\ N1[p].leaf /\ N1[p].keys # <<>>
               /\ \A p \in 1 .. cnt - 1 : N1[p].leaf => p \in P
  BY DEF CommittedTree
<1>o. PICK own2 : own2 = at[0]
  OBVIOUS
<1>3. PICK Q : /\ Q \subseteq 1 .. cnt - 1
               /\ Chain(N2, own2, Q, c2)
               /\ \A p \in Q : N2[p].next \in Nat /\ N2[p].leaf /\ N2[p].keys # <<>>
               /\ \A p \in 1 .. cnt - 1 : N2[p].leaf => p \in Q
  BY <1>o DEF CommittedTree
<1>4. Q = P
  BY <1>1, <1>2, <1>3
<1>5. \A x \in Int : own2[x] = own[x]
  <2>1. 0 \in 0 .. h0
    BY <1>1
  <2>. QED
    BY <1>1, <1>o, <2>1
<1>6. Chain(N2, own, P, c2)
  BY <1>3, <1>4, <1>5, ChainOwners
<1>7. Chain(N, own, P, table)
  <2>1. \A p \in P : N[p] = N1[p] \/ N[p] = N2[p]
    BY <1>2
  <2>. QED
    BY <1>2, <1>6, <2>1, MixedLeaf
<1>8. \A p \in P : N[p].next \in Nat /\ N[p].leaf /\ N[p].keys # <<>>
  BY <1>2, <1>3, <1>4
<1>9. \A p \in 1 .. cnt - 1 : N[p].leaf => p \in P
  BY <1>2, <1>3, <1>4
<1>10. ASSUME NEW d \in 1 .. h0, NEW x \in Int
       PROVE  at0[d][x] \in 1 .. cnt - 1 /\ Passes(at0, d, x, at0[d][x], N[at0[d][x]])
  <2>p. PICK p : p = at0[d][x]
    OBVIOUS
  <2>1. p \in 1 .. cnt - 1 /\ Passes(at0, d, x, p, N1[p])
    BY <2>p DEF CommittedTree
  <2>2. Passes(at0, d, x, p, N2[p])
    <3>1. d \in 1 .. h /\ d \in 0 .. h0 /\ d - 1 \in 0 .. h0
      BY <1>1
    <3>2. at[d][x] = p /\ at[d - 1][x] = at0[d - 1][x]
      BY <1>1, <2>p, <3>1
    <3>3. Passes(at, d, x, p, N2[p])
      BY <3>1, <3>2 DEF CommittedTree
    <3>n. PICK n : n = N2[p]
      OBVIOUS
    <3>4. /\ ~n.leaf /\ n.keys \in Seq(Int) /\ Sorted(n.keys)
          /\ \A i : Gap(n.keys, x, i) => at[d - 1][x] = n.ch[i]
          /\ \A i \in 1 .. Len(n.keys) : at[d][n.keys[i]] = p
      BY <3>3, <3>n DEF Passes
    <3>5. \A i \in 1 .. Len(n.keys) : at0[d][n.keys[i]] = p
      <4>1. \A i \in 1 .. Len(n.keys) : n.keys[i] \in Int
        BY <3>4
      <4>. QED
        BY <1>1, <3>1, <3>4, <4>1
    <3>. QED
      BY <3>2, <3>4, <3>5, <3>n DEF Passes
  <2>3. N[p] = N1[p] \/ N[p] = N2[p]
    BY <2>1
  <2>. QED
    BY <2>p, <2>1, <2>2, <2>3
<1>11. h0 \in Nat /\ h0 <= MaxPage
  BY DEF CommittedTree
<1>. QED
  BY <1>2, <1>7, <1>8, <1>9, <1>10, <1>11 DEF CommittedTree

\* What the shared pages hold for whoever reads outside the transaction.
LEMMA SharedTable ==
  ASSUME ConnInv, ~Divides, cur_tx \/ up = NoCall, firstNew # 1,
         NEW at0, NEW h0, NEW at, NEW ht, NEW h,
         HeadHeights(ht, h), headRoot # ERROR_PAGE => HeadOwners(at, ht, h),
         Known(at0, h0, at, h)
  PROVE  \E table \in Shown : CommittedTree(shared, table, at0, h0, firstNew)
<1>1. PICK old : CommittedTree(old, committed, at0, h0, firstNew) /\ Installed(old)
  BY DEF Known
<1>2. headRoot # ERROR_PAGE /\ Since(at0, h0, firstNew, at, h) /\ firstNew \in Nat
  BY DEF Known
<1>o. PICK own : own = at0[0]
  OBVIOUS
<1>3. CASE ~(installing /\ ~Idle)
  <2>n. PICK new : new = {}
    OBVIOUS
  <2>1. PICK table : table = [k \in Keys |-> IF k \in new THEN Content[k] ELSE committed[k]]
    OBVIOUS
  <2>2. table \in Shown
    <3>1. new \in SUBSET {k \in Keys : installing /\ committed[k] # Content[k]}
      BY <2>n
    <3>. QED
      BY <2>1, <3>1 DEF Shown
  <2>3. \A p \in 1 .. firstNew - 1 : shared[p] = old[p]
    BY <1>1, <1>3 DEF Installed
  <2>4. CommittedTree(shared, committed, at0, h0, firstNew)
    BY <1>1, <2>3, CommittedKept
  <2>5. \A k \in Keys : table[k] = committed[k]
    BY <2>n, <2>1
  <2>6. CommittedTree(shared, table, at0, h0, firstNew)
    BY <2>4, <2>5, SameContent
  <2>. QED
    BY <2>2, <2>6
<1>4. CASE installing /\ ~Idle
  <2>1. root = headRoot /\ Inv /\ up = NoCall /\ pageCnt = firstNew
    <3>1. root = headRoot
      BY <1>4 DEF Idle
    <3>2. up = NoCall
      BY <1>4 DEF ConnInv, ConnsOK
    <3>. QED
      BY <1>4, <3>1, <3>2, HeadInv DEF Divides
  <2>2. Heights(ht, h) /\ Owners(at, ht, h) /\ root # ERROR_PAGE
    BY <1>2, <2>1, HeadSame
  <2>3. CommittedTree(node, Content, at, h, firstNew)
    BY <2>1, <2>2, CommittedNow DEF NowCommitted
  <2>4. PICK new : new = {k \in Keys : committed[k] # Content[k] /\ shared[own[k]] = node[own[k]]}
    OBVIOUS
  <2>5. PICK table : table = [k \in Keys |-> IF k \in new THEN Content[k] ELSE committed[k]]
    OBVIOUS
  <2>6. table \in Shown
    <3>1. new \in SUBSET {k \in Keys : installing /\ committed[k] # Content[k]}
      BY <1>4, <2>4
    <3>. QED
      BY <2>5, <3>1 DEF Shown
  <2>7. MixOf(table, committed, Content, shared, node, own)
    BY <2>4, <2>5 DEF MixOf
  <2>8. \A p \in 1 .. firstNew - 1 : shared[p] = old[p] \/ shared[p] = node[p]
    BY <1>1 DEF Installed
  <2>9. CommittedTree(shared, table, at0, h0, firstNew)
    BY <1>1, <1>2, <1>o, <2>3, <2>7, <2>8, MixedTree
  <2>. QED
    BY <2>6, <2>9
<1>. QED
  BY <1>3, <1>4

LEMMA InvFresh ==
  ASSUME ConnInv, root = headRoot
  PROVE  ScanIsCommitted
<1> SUFFICES ASSUME up = NoCall, root # ERROR_PAGE, ~installing,
                    NEW lb \in Bounds, NEW ub \in Bounds,
                    down_to_leaf(lb) < firstNew, ComesToEnd(shared, SharedLeaves, lb, ub)
             PROVE  query(lb, ub) = Answer(committed, lb, ub, Unlimited)
  BY DEF ScanIsCommitted
<1>1. lb \in Int /\ ub \in Int
  BY ScanAssumption
<1>2. PICK at0, h0, at, ht, h :
        /\ HeadHeights(ht, h) /\ (headRoot # ERROR_PAGE => HeadOwners(at, ht, h))
        /\ Known(at0, h0, at, h)
  BY DEF ConnInv
<1>3. Shape /\ Heights(ht, h) /\ Owners(at, ht, h)
  BY <1>2, HeadSame DEF ConnInv
<1>l. PICK leaf : leaf = at[0][lb]
  OBVIOUS
<1>4. down_to_leaf(lb) = leaf
  BY <1>1, <1>3, <1>l, Descent
<1>5. query(lb, ub) = Scan(leaf, lb, ub)
  BY <1>4 DEF query
<1>6. leaf \in Nat /\ leaf >= 1 /\ leaf < firstNew
  <2>1. 0 \in 0 .. h
    BY <1>3 DEF Heights
  <2>2. leaf \in Pages
    BY <1>1, <1>3, <1>l, <2>1 DEF Owners
  <2>3. leaf \in PageIds
    BY <1>3, <2>2, PagesKnown DEF Shape
  <2>. QED
    BY <1>4, <2>3 DEF PageIds
<1>7. firstNew # 1 /\ firstNew \in Nat /\ h0 \in Nat /\ Since(at0, h0, firstNew, at, h)
  BY <1>2, <1>6 DEF Known
<1>8. leaf = at0[0][lb]
  <2>1. 0 \in 0 .. h0
    BY <1>7
  <2>2. at[0][lb] = at0[0][lb] \/ at[0][lb] >= firstNew
    BY <1>1, <1>7, <2>1 DEF Since
  <2>. QED
    BY <1>6, <1>7, <1>l, <2>2
<1>9. PICK old : CommittedTree(old, committed, at0, h0, firstNew) /\ Installed(old)
  BY <1>2, <1>7 DEF Known
<1>10. CommittedTree(shared, committed, at0, h0, firstNew)
  <2>1. \A p \in 1 .. firstNew - 1 : shared[p] = old[p]
    BY <1>9 DEF Installed
  <2>. QED
    BY <1>9, <2>1, CommittedKept
<1>11. PICK own : own = at0[0]
  OBVIOUS
<1>12. /\ Scannable(own, SharedLeaves, committed)
       /\ \A p \in SharedLeaves : shared[p].keys # <<>>
  BY <1>10, <1>11, CommittedScannable DEF SharedLeaves
<1>13. Halts(shared, own, ub, lb)
  BY <1>1, <1>12, EndHalts DEF Scannable
<1>14. Scan(leaf, lb, ub) = Answer(committed, lb, ub, Unlimited)
  BY <1>1, <1>8, <1>11, <1>12, <1>13, ScanOwner
<1>. QED
  BY <1>5, <1>14

LEMMA InvOldRoots == ConnInv => OldRootsSuffice
<1> SUFFICES ASSUME ConnInv, ~Divides, NEW c \in Reading, roots[c] # ERROR_PAGE,
                    NEW lb \in Bounds, NEW ub \in Bounds,
                    ComesToEnd(shared, SharedLeaves, lb, ub)
             PROVE  Covers(c, lb, ub)
  BY DEF OldRootsSuffice
<1>1. lb \in Int /\ ub \in Int
  BY ScanAssumption
<1>2. PICK at0, h0, at, ht, h :
        /\ HeadHeights(ht, h) /\ (headRoot # ERROR_PAGE => HeadOwners(at, ht, h))
        /\ Known(at0, h0, at, h)
  BY DEF ConnInv
<1>3. c \in Conns /\ (c = me => Idle /\ up = NoCall) /\ (cur_tx \/ up = NoCall)
  BY DEF Reading, Idle
<1>4. firstNew # 1 /\ FirstOf(at0, h0, roots[c])
  BY <1>2, <1>3 DEF Known, OldRoots
<1>5. PICK table \in Shown : CommittedTree(shared, table, at0, h0, firstNew)
  BY <1>2, <1>3, <1>4, SharedTable
<1>6. PICK own : own = at0[0]
  OBVIOUS
<1>7. PICK leaf : leaf = SharedLeaf(roots[c], lb)
  OBVIOUS
<1>8. PICK y \in Int : y <= lb /\ own[y] = leaf
  BY <1>1, <1>4, <1>5, <1>6, <1>7, SharedDescent
<1>9. /\ Scannable(own, SharedLeaves, table)
      /\ \A p \in SharedLeaves : shared[p].keys # <<>>
  BY <1>5, <1>6, CommittedScannable DEF SharedLeaves
<1>h. Halts(shared, own, ub, lb)
  BY <1>1, <1>9, EndHalts DEF Scannable
<1>10. \E from \in {lb} \cup {k \in Keys : k < lb} :
         Scan(leaf, lb, ub) = Answer(table, from, ub, Unlimited)
  BY <1>1, <1>8, <1>9, <1>h, ScanLeft
<1>11. queryOf(c, lb, ub) = Scan(leaf, lb, ub)
  BY <1>7 DEF queryOf
<1>. QED
  BY <1>5, <1>10, <1>11 DEF Covers

\* As long as no connection writes under an old root, a scan that comes to an
\* end, of a connection that knows the root, returns exactly the committed rows
\* of its interval, wherever its first leaf is older than its transaction
\* (cursor.cpp reads the leaves from the shared pages): for every number of
\* connections, transactions, and divisions, with and without a transaction.
THEOREM FreshScans == ConnSpec => []FreshScanIsCommitted
<1>1. ConnInit => astray \/ ConnInv
  BY ConnInitInv
<1>2. (astray \/ ConnInv) /\ [ConnNext]_connVars => (astray \/ ConnInv)'
  BY ConnNextInv
<1>3. (astray \/ ConnInv) => FreshScanIsCommitted
  BY InvFresh DEF FreshScanIsCommitted
<1>. QED
  BY <1>1, <1>2, <1>3, PTL DEF ConnSpec

\* Under the same condition a connection with an old root, which vtab_connect
\* read from the head page and never reads again, misses no committed row of
\* any interval that comes to an end, also while another connection's
\* transaction is under way or its commit, if it has divided no page, replaces
\* the shared pages one by one: then it finds each row as it was or as it will be.
THEOREM OldRootsRead == ConnSpec => []OldRootsSuffice
<1>1. ConnInit => astray \/ ConnInv
  BY ConnInitInv
<1>2. (astray \/ ConnInv) /\ [ConnNext]_connVars => (astray \/ ConnInv)'
  BY ConnNextInv
<1>3. (astray \/ ConnInv) => OldRootsSuffice
  BY InvOldRoots DEF OldRootsSuffice
<1>. QED
  BY <1>1, <1>2, <1>3, PTL DEF ConnSpec

LEMMA InvKeysOnce == ConnInv => KeysOnce
<1> SUFFICES ASSUME ConnInv, NEW k \in Keys
             PROVE  Cardinality({p \in Leaves : k \in ToSet(node[p].keys)}) <= 1
  BY DEF KeysOnce
<1>1. PICK at, ht, h : HeadHeights(ht, h) /\ (headRoot # ERROR_PAGE => HeadOwners(at, ht, h))
  BY DEF ConnInv
<1>2. ASSUME NEW p \in Leaves PROVE p \in Pages /\ node[p].leaf /\ ht[p] = 0
  <2>1. p \in PageIds /\ node[p] # NoNode /\ node[p].leaf
    BY DEF Leaves, Allocated
  <2>2. p \in Pages
    <3>1. p < pageCnt /\ pageCnt \in 1 .. MaxPage + 1 /\ MaxPage \in Nat
      BY <2>1, TreeAssumption DEF ConnInv, HeadShape
    <3>. QED
      BY <2>1, <3>1 DEF PageIds, Pages
  <2>. QED
    BY <1>1, <2>1, <2>2 DEF HeadHeights
<1>3. ASSUME NEW p \in Leaves, k \in ToSet(node[p].keys) PROVE p = at[0][k]
  <2>1. PICK i \in 1 .. Len(node[p].keys) : node[p].keys[i] = k
    <3>1. node[p] \in Nodes
      <4>1. p \in PageIds /\ node[p] # NoNode
        BY DEF Leaves, Allocated
      <4>. QED
        BY <4>1 DEF ConnInv, HeadShape, NodeOK
    <3>2. node[p].keys \in Seq(Keys)
      BY <3>1, NodeFields
    <3>. QED
      BY <1>3, <3>2, InSet
  <2>2. headRoot # ERROR_PAGE
    <3>1. SUFFICES ASSUME headRoot = ERROR_PAGE PROVE FALSE
      OBVIOUS
    <3>2. pageCnt = 1
      BY <3>1 DEF ConnInv, HeadShape
    <3>. QED
      BY <1>2, <3>2 DEF Pages
  <2>3. at[ht[p]][node[p].keys[i]] = p
    BY <1>1, <1>2, <2>2 DEF HeadOwners
  <2>. QED
    BY <1>2, <2>1, <2>3
<1>4. PICK T : T = {p \in Leaves : k \in ToSet(node[p].keys)}
  OBVIOUS
<1>5. T \subseteq {at[0][k]}
  BY <1>3, <1>4
<1>6. IsFiniteSet({at[0][k]}) /\ Cardinality({at[0][k]}) = 1
  BY FS_Singleton
<1>7. Cardinality(T) <= 1
  BY <1>5, <1>6, FS_Subset
<1>. QED
  BY <1>4, <1>7

\* No key is ever entered in two leaves, whoever connects and writes when, as
\* long as no connection writes under an old root: that is the only way in
\* which bplus_tree.h comes to a second tree, or to a second entry of a key.
THEOREM TreeIsShared == ConnSpec => [](~astray => KeysOnce)
<1>1. ConnInit => astray \/ ConnInv
  BY ConnInitInv
<1>2. (astray \/ ConnInv) /\ [ConnNext]_connVars => (astray \/ ConnInv)'
  BY ConnNextInv
<1>3. (astray \/ ConnInv) => (~astray => KeysOnce)
  BY InvKeysOnce
<1>. QED
  BY <1>1, <1>2, <1>3, PTL DEF ConnSpec
=============================================================================
