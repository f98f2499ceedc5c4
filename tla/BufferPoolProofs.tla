-------------------------- MODULE BufferPoolProofs --------------------------
(***************************************************************************)
(* Proofs about the page cache for every capacity, every set of pages and  *)
(* every assignment of pages to classes. Each member function is shown to  *)
(* keep a pool sound and to change what its users see (ViewOf) exactly as  *)
(* it says; the theorems about runs follow action by action.               *)
(*                                                                         *)
(* The cache relies on its lru_cache: the first part proves that the links *)
(* implement LRU (the ghost ages are a permutation, the links follow the   *)
(* ages, and prev inverts next; access() keeps the three together, none    *)
(* alone), and the last part uses it to bound how long a page stays.       *)
(***************************************************************************)
EXTENDS BufferPool, LruCache, FiniteSetTheorems, TLAPS

\* Two slots never have the same age, so the ages order all slots.
AgesDiffer(a) == \A s, t \in Slots : a[s] = a[t] => s = t

\* RingIsAgeOrder and LinksAgree, of any ring r and any ages a.
InOrder(r, a) ==
  /\ a[r.head] = 0
  /\ \A s \in Slots :
       /\ a[s] < Capacity - 1 => a[r.next[s]] = a[s] + 1
       /\ a[s] = Capacity - 1 => r.next[s] = r.head

LinksInvert(r) ==
  \A s \in Slots : r.prev[r.next[s]] = s /\ r.next[r.prev[s]] = s

Ordered(r, a) == AgesDiffer(a) /\ InOrder(r, a) /\ LinksInvert(r)

\* What the arithmetic steps need of slots and ages.
LEMMA SlotFacts ==
  /\ Capacity \in Nat /\ Capacity > 0 /\ Capacity - 1 \in Nat
  /\ \A s \in Slots : s \in Nat /\ s <= Capacity - 1
  /\ \A s \in Nat : s <= Capacity - 1 => s \in Slots
  BY CapacityAssumption DEF Slots

\* The freshly linked list is the ring of its positions.
LEMMA NewRingOrdered ==
  /\ NewRing \in Rings
  /\ [s \in Slots |-> s] \in [Slots -> Slots]
  /\ Ordered(NewRing, [s \in Slots |-> s])
<1>r. PICK r : r = NewRing
  OBVIOUS
<1>a. PICK a : a = [s \in Slots |-> s]
  OBVIOUS
<1>1. /\ 0 \in Slots /\ Capacity - 1 \in Slots /\ Capacity \in Nat
      /\ \A s \in Slots : s \in Nat /\ s < Capacity
      /\ \A s \in Slots : s # 0 => s - 1 \in Slots
      /\ \A s \in Slots : s # Capacity - 1 => s + 1 \in Slots
  BY CapacityAssumption DEF Slots
<1>2. /\ r.head = 0
      /\ r.prev = [s \in Slots |-> IF s = 0 THEN Capacity - 1 ELSE s - 1]
      /\ r.next = [s \in Slots |-> IF s = Capacity - 1 THEN 0 ELSE s + 1]
      /\ r = [prev |-> r.prev, next |-> r.next, head |-> r.head]
  BY <1>r DEF NewRing
<1>3. r \in Rings
  <2>1. r.prev \in [Slots -> Slots] /\ r.next \in [Slots -> Slots]
    BY <1>1, <1>2
  <2> QED BY <1>1, <1>2, <2>1 DEF Rings
<1>4. a \in [Slots -> Slots] /\ AgesDiffer(a)
  BY <1>a DEF AgesDiffer
<1>5. InOrder(r, a)
  BY <1>1, <1>2, <1>a DEF InOrder
<1>6. LinksInvert(r)
  <2>1. ASSUME NEW s \in Slots PROVE r.prev[r.next[s]] = s
    BY <1>1, <1>2
  <2>2. ASSUME NEW s \in Slots PROVE r.next[r.prev[s]] = s
    BY <1>1, <1>2
  <2> QED BY <2>1, <2>2 DEF LinksInvert
<1> QED BY <1>r, <1>a, <1>3, <1>4, <1>5, <1>6 DEF Ordered

\* The links after access(pos) of a slot that is not the head, spelled out
\* slot by slot; t is the tail the code reads after it unlinked pos.
LEMMA AccessLinks ==
  ASSUME NEW r \in Rings, NEW pos \in Slots, pos # r.head
  PROVE  LET p == r.prev[pos]
             n == r.next[pos]
             h == r.head
             t == IF n = h THEN p ELSE r.prev[h]
             m == Access(r, pos)
         IN  /\ t \in Slots
             /\ m \in Rings
             /\ m.head = pos
             /\ \A s \in Slots :
                  m.next[s] = IF s = pos THEN h
                              ELSE IF s = t THEN pos
                              ELSE IF s = p THEN n ELSE r.next[s]
             /\ \A s \in Slots :
                  m.prev[s] = IF s = pos THEN t
                              ELSE IF s = h THEN pos
                              ELSE IF s = n THEN p ELSE r.prev[s]
<1> DEFINE p == r.prev[pos]
           n == r.next[pos]
           h == r.head
           u == Unlinked(r, pos)
           t == IF n = h THEN p ELSE r.prev[h]
<1>1. /\ r \in Rings
      /\ p \in Slots /\ n \in Slots /\ h \in Slots
  BY DEF Rings
<1>2. /\ u.head = h
      /\ u.next = [r.next EXCEPT ![p] = n]
      /\ u.prev = [r.prev EXCEPT ![n] = p]
  BY <1>1 DEF Unlinked, Rings
<1>3. Least(u) = t
  BY <1>1, <1>2 DEF Least, Rings
<1>4. Access(r, pos) = LinkedAsHead(u, pos)
  BY DEF Access
<1>5. /\ Access(r, pos).head = pos
      /\ Access(r, pos).next = [u.next EXCEPT ![t] = pos, ![pos] = h]
      /\ Access(r, pos).prev = [u.prev EXCEPT ![h] = pos, ![pos] = t]
      /\ Access(r, pos) = [prev |-> Access(r, pos).prev,
                              next |-> Access(r, pos).next,
                              head |-> pos]
  BY <1>2, <1>3, <1>4 DEF LinkedAsHead, LinkedBehind
<1>6. t \in Slots
  BY <1>1 DEF Rings
<1>7. Access(r, pos) \in Rings
  <2>1. u.next \in [Slots -> Slots] /\ u.prev \in [Slots -> Slots]
    BY <1>1, <1>2 DEF Rings
  <2>2. /\ [u.next EXCEPT ![t] = pos, ![pos] = h] \in [Slots -> Slots]
        /\ [u.prev EXCEPT ![h] = pos, ![pos] = t] \in [Slots -> Slots]
    BY <1>1, <1>6, <2>1
  <2> QED BY <1>1, <1>5, <2>2 DEF Rings
<1>8. ASSUME NEW s \in Slots
      PROVE  Access(r, pos).next[s] =
               IF s = pos THEN h ELSE IF s = t THEN pos
               ELSE IF s = p THEN n ELSE r.next[s]
  BY <1>1, <1>2, <1>5, <1>6 DEF Rings
<1>9. ASSUME NEW s \in Slots
      PROVE  Access(r, pos).prev[s] =
               IF s = pos THEN t ELSE IF s = h THEN pos
               ELSE IF s = n THEN p ELSE r.prev[s]
  BY <1>1, <1>2, <1>5, <1>6 DEF Rings
<1> QED BY <1>5, <1>6, <1>7, <1>8, <1>9

\* Every access keeps the circle in the order of the ages it leaves.
LEMMA AccessKeepsOrder ==
  ASSUME NEW r \in Rings, NEW a \in [Slots -> Slots], Ordered(r, a),
         NEW pos \in Slots
  PROVE  /\ Access(r, pos) \in Rings
         /\ Aged(a, pos) \in [Slots -> Slots]
         /\ Ordered(Access(r, pos), Aged(a, pos))
<1> USE DEF Ordered
<1>q. PICK q : q = Access(r, pos)
  OBVIOUS
<1>b. PICK b : b = Aged(a, pos)
  OBVIOUS
<1>2. q \in Rings /\ b \in [Slots -> Slots] /\ Ordered(q, b)
  <2>1. r \in Rings /\ a \in [Slots -> Slots]
    OBVIOUS
  <2>2. b = Aged(a, pos) /\ q = Access(r, pos)
    BY <1>q, <1>b
  <2>3. \A s \in Slots : b[s] = IF s = pos THEN 0
                           ELSE IF a[s] < a[pos] THEN a[s] + 1 ELSE a[s]
    BY <2>2 DEF Aged
  <2>0. \A s \in Slots : /\ a[s] \in Slots
                         /\ a[s] \in Nat
                         /\ a[s] <= Capacity - 1
    BY SlotFacts
  <2>4. b \in [Slots -> Slots]
    <3>1. ASSUME NEW s \in Slots
          PROVE  (IF s = pos THEN 0
                  ELSE IF a[s] < a[pos] THEN a[s] + 1 ELSE a[s]) \in Slots
      BY <2>1, SlotFacts, <2>0
    <3> QED BY <2>2, <3>1 DEF Aged
  <2>5. AgesDiffer(b)
    BY <2>0, <2>3 DEF AgesDiffer
  <2>6. CASE pos = r.head
    <3>1. q = r
      BY <2>2, <2>6 DEF Access
    <3>2. b = a
      <4>1. \A s \in Slots : b[s] = a[s]
        BY <2>0, <2>1, <2>3, <2>6 DEF InOrder, AgesDiffer
      <4> QED BY <2>1, <2>4, <4>1
    <3> QED BY <3>1, <3>2
  <2>7. CASE pos # r.head
    <3> DEFINE p == r.prev[pos]
               n == r.next[pos]
               h == r.head
               t == IF n = h THEN p ELSE r.prev[h]
    <3>1. /\ p \in Slots /\ n \in Slots /\ h \in Slots /\ t \in Slots
          /\ r.prev[h] \in Slots
      BY <2>1 DEF Rings
    <3>2. /\ q \in Rings
          /\ q.head = pos
          /\ \A s \in Slots :
               q.next[s] = IF s = pos THEN h ELSE IF s = t THEN pos
                               ELSE IF s = p THEN n ELSE r.next[s]
          /\ \A s \in Slots :
               q.prev[s] = IF s = pos THEN t ELSE IF s = h THEN pos
                               ELSE IF s = n THEN p ELSE r.prev[s]
      BY AccessLinks, <2>2, <2>7, <2>1
    <3>4. /\ a[h] = 0 /\ a[pos] > 0
          /\ p # pos /\ n # pos
          /\ a[r.prev[h]] = Capacity - 1
          /\ a[p] = a[pos] - 1
      <4>1. a[h] = 0
        BY DEF InOrder
      <4>2. a[pos] > 0
        BY <2>0, <2>7, <3>1, <4>1 DEF AgesDiffer
      <4>3. r.next[p] = pos /\ r.next[r.prev[h]] = h
        BY <3>1 DEF LinksInvert
      <4>4. a[r.prev[h]] = Capacity - 1
        BY <2>1, <3>1, <4>1, <4>3, SlotFacts, <2>0
        DEF InOrder
      <4>5. a[p] = a[pos] - 1
        BY <2>1, <2>7, <3>1, <4>3, SlotFacts, <2>0
        DEF InOrder
      <4>6. p # pos
        BY <2>0, <4>5, <3>1
      <4>7. n # pos
        BY <2>1, <2>7, <3>1, <4>2, SlotFacts, <2>0
        DEF InOrder
      <4> QED BY <4>1, <4>2, <4>4, <4>5, <4>6, <4>7
    <3>5. t # pos /\ b[t] = Capacity - 1
      BY <2>1, <2>3, <3>1, <3>4, SlotFacts, <2>0
      DEF InOrder
    <3>6. InOrder(q, b)
      <4>1. b[q.head] = 0
        BY <2>3, <3>2
      <4>2. ASSUME NEW s \in Slots
            PROVE /\ b[s] < Capacity - 1 => b[q.next[s]] = b[s] + 1
                  /\ b[s] = Capacity - 1 => q.next[s] = q.head
        <5>1. CASE s = pos
          BY <5>1, <2>1, <2>3, <2>7, <3>1, <3>2, <3>4, SlotFacts, <2>0
        <5>2. CASE s = t
          <6>1. b[s] = Capacity - 1
            BY <5>2, <3>5
          <6>2. q.next[s] = pos /\ q.head = pos
            BY <5>2, <3>2, <3>5
          <6>3. ~ (b[s] < Capacity - 1)
            BY <6>1, SlotFacts
          <6> QED BY <6>2, <6>3
        <5>3. CASE s # pos /\ s # t /\ s = p
          <6>1. n # h
            BY <5>3
          <6>2. q.next[s] = n /\ r.next[pos] = n
            BY <5>3, <3>2
          <6>3. a[pos] # Capacity - 1
            BY <6>1, <2>7 DEF InOrder
          <6>4. a[n] = a[pos] + 1
            BY <6>3, <2>0, SlotFacts DEF InOrder
          <6>5. b[s] = a[pos] /\ b[n] = a[pos] + 1
            BY <5>3, <6>4, <2>0, <2>3, <3>1, <3>4
          <6>6. a[pos] < Capacity - 1
            BY <6>3, <2>0, SlotFacts
          <6> QED BY <6>2, <6>5, <6>6, <2>0, SlotFacts
        <5>4. CASE s # pos /\ s # t /\ s # p
          <6>1. r.next[s] \in Slots /\ q.next[s] = r.next[s]
            BY <5>4, <2>1, <3>2 DEF Rings
          <6>2. r.next[s] # pos
            BY <5>4 DEF LinksInvert
          <6>3. a[s] # Capacity - 1
            BY <2>1, <5>4, <3>1, <3>4, <3>5, <2>3, SlotFacts, <2>0
            DEF AgesDiffer, InOrder
          <6>4. a[r.next[s]] = a[s] + 1 /\ a[s] < Capacity - 1
            BY <2>1, <6>3, SlotFacts, <2>0 DEF InOrder
          <6>5. a[s] # a[pos] /\ a[r.next[s]] # a[pos]
            BY <5>4, <6>1, <6>2 DEF AgesDiffer
          <6>6. /\ b[s] = IF a[s] < a[pos] THEN a[s] + 1 ELSE a[s]
                /\ b[r.next[s]] = IF a[r.next[s]] < a[pos]
                                        THEN a[r.next[s]] + 1
                                        ELSE a[r.next[s]]
            BY <5>4, <6>1, <6>2, <2>3
          <6>7. b[s] # b[t]
            BY <5>4, <2>5, <3>1 DEF AgesDiffer
          <6> QED BY <2>1, <6>1, <6>4, <6>5, <6>6, <6>7, <3>5, <3>1,
                     SlotFacts, <2>0
        <5> QED BY <5>1, <5>2, <5>3, <5>4
      <4> QED BY <4>1, <4>2 DEF InOrder
    <3>7. LinksInvert(q)
      <4>1. r.next[p] = pos /\ r.prev[n] = pos
            /\ r.next[r.prev[h]] = h
        BY <3>1 DEF LinksInvert
      <4>2. ASSUME NEW s \in Slots
            PROVE  q.prev[q.next[s]] = s
        <5>1. r.next[s] \in Slots /\ r.prev[r.next[s]] = s
          BY <2>1 DEF Rings, LinksInvert
        <5> QED BY <5>1, <4>1, <2>7, <3>1, <3>2, <3>4, <3>5
      <4>3. ASSUME NEW s \in Slots
            PROVE  q.next[q.prev[s]] = s
        <5>1. r.prev[s] \in Slots /\ r.next[r.prev[s]] = s
          BY <2>1 DEF Rings, LinksInvert
        <5> QED BY <5>1, <4>1, <2>7, <3>1, <3>2, <3>4, <3>5
      <4> QED BY <4>2, <4>3 DEF LinksInvert
    <3> QED BY <2>4, <3>2, <3>6, <3>7, <2>5
  <2> QED BY <2>6, <2>7
<1> QED BY <1>q, <1>b, <1>2

\* The tail of an ordered ring has the highest age.
LEMMA LeastIsTail ==
  ASSUME NEW r \in Rings, NEW a \in [Slots -> Slots], Ordered(r, a)
  PROVE  Least(r) \in Slots /\ a[Least(r)] = Capacity - 1
<1> DEFINE t == r.prev[r.head]
<1>0. \A x \in Slots : a[x] \in Nat /\ a[x] <= Capacity - 1
  BY SlotFacts
<1>1. t \in Slots /\ r.head \in Slots
  BY DEF Rings
<1>2. r.next[t] = r.head /\ a[r.head] = 0
  BY <1>1 DEF Ordered, LinksInvert, InOrder
<1>3. a[t] = Capacity - 1
  BY <1>0, <1>1, <1>2, SlotFacts DEF Ordered, InOrder
<1> QED BY <1>1, <1>3 DEF Least

\* The inductive invariant of lru_cache as a state machine.
LruIInv == LruTypeOK /\ Ordered(ring, age)

LEMMA LruInductive == LruSpec => []LruIInv
<1>1. LruInit => LruIInv
  BY NewRingOrdered DEF LruInit, LruIInv, LruTypeOK
<1>2. LruIInv /\ [LruNext]_lruVars => LruIInv'
  <2>1. ASSUME LruIInv, UNCHANGED lruVars PROVE LruIInv'
    BY <2>1 DEF lruVars, LruIInv, LruTypeOK
  <2>2. ASSUME LruIInv, NEW pos \in Slots, Use(pos) PROVE LruIInv'
    BY <2>2, AccessKeepsOrder DEF Use, LruIInv, LruTypeOK
  <2> QED BY <2>1, <2>2 DEF LruNext
<1> QED BY <1>1, <1>2, PTL DEF LruSpec

\* Type correctness of the list: links and ages always name slots.
THEOREM LruTypeCorrect == LruSpec => []LruTypeOK
<1>1. LruIInv => LruTypeOK
  BY DEF LruIInv
<1> QED BY <1>1, LruInductive, PTL

\* access() keeps all slots on one circle, in the order of their last use.
THEOREM RingOrder == LruSpec => [](RingIsAgeOrder /\ LinksAgree)
<1>1. LruIInv => RingIsAgeOrder /\ LinksAgree
  BY DEF LruIInv, Ordered, InOrder, LinksInvert, RingIsAgeOrder, LinksAgree
<1> QED BY <1>1, LruInductive, PTL

\* least() always hands out the least recently used slot: the cache is LRU
\* for every number of slots.
THEOREM LeastIsOldest == LruSpec => []VictimIsOldest
<1>1. LruIInv => VictimIsOldest
  BY LeastIsTail, SlotFacts DEF LruIInv, LruTypeOK, VictimIsOldest
<1> QED BY <1>1, LruInductive, PTL
-----------------------------------------------------------------------------

\* The parts of BufferPool's invariants, of any pool b.
MapsInvert(b) == \A p \in PageIds, s \in Slots : b.map[p] = s <=> b.rev[s] = p

\* A mapped slot holds an object, and a dirty slot is mapped.
Backed(b) ==
  /\ \A s \in Slots : b.rev[s] # ERROR_PAGE => b.slot[s].cls # NoClass
  /\ \A s \in b.dirty : b.rev[s] # ERROR_PAGE

CleanSlot(b, s) ==
  b.rev[s] # ERROR_PAGE /\ s \notin b.dirty => b.slot[s].data = b.disk[b.rev[s]]

Clean(b) == \A s \in Slots : CleanSlot(b, s)

Mapped(b) == b \in Pools /\ MapsInvert(b) /\ Backed(b)
Sound(b) == Mapped(b) /\ Clean(b)
CleanBut(b, s) == \A t \in Slots \ {s} : CleanSlot(b, t)

\* Slot s holds no page.
Free(b, s) ==
  b.rev[s] = ERROR_PAGE /\ s \notin b.dirty /\ \A p \in PageIds : b.map[p] # s

ViewOf(b) ==
  [p \in PageIds |-> IF b.map[p] # ERROR_INDEX THEN b.slot[b.map[p]].data
                     ELSE b.disk[p]]

-----------------------------------------------------------------------------
\* Slot, page and marker values do not overlap.
LEMMA Markers ==
  /\ ERROR_INDEX \notin Slots
  /\ ERROR_PAGE \notin PageIds
  /\ Slots \subseteq Nat /\ PageIds \subseteq Nat
  /\ 0 \in Slots
  /\ SomeData \in Data
  BY CapacityAssumption, PoolAssumption
  DEF ERROR_INDEX, ERROR_PAGE, Slots, PageIds, SomeData

\* The ring operations stay inside the slots.
LEMMA RingTyped ==
  /\ NewRing \in Rings
  /\ \A r \in Rings : Least(r) \in Slots /\ \A s \in Slots : Access(r, s) \in Rings
<1>1. NewRing \in Rings
  BY CapacityAssumption DEF NewRing, Rings, Slots
<1>2. ASSUME NEW r \in Rings PROVE Least(r) \in Slots
  BY DEF Least, Rings
<1>3. ASSUME NEW r \in Rings, NEW s \in Slots PROVE Unlinked(r, s) \in Rings
  BY DEF Unlinked, Rings
<1>4. ASSUME NEW r \in Rings, NEW s \in Slots PROVE LinkedAsHead(r, s) \in Rings
  BY <1>2 DEF LinkedAsHead, LinkedBehind, Rings
<1>. QED
  BY <1>1, <1>2, <1>3, <1>4 DEF Access

\* The fields of a pool.
LEMMA Fields ==
  ASSUME NEW b \in Pools
  PROVE  /\ b.disk \in [PageIds \cup {ERROR_PAGE} -> Data]
         /\ b.map \in [PageIds -> Slots \cup {ERROR_INDEX}]
         /\ b.rev \in [Slots -> PageIds \cup {ERROR_PAGE}]
         /\ b.dirty \in SUBSET Slots
         /\ b.slot \in [Slots -> Objects]
         /\ b.ring \in Rings
  BY DEF Pools

LEMMA NoObjectTyped == NoObject \in Objects
  BY Markers DEF NoObject, Objects
-----------------------------------------------------------------------------
\* replace(s): the slot is free and clean afterwards, no page maps to it any
\* more, the pool stays sound, and nobody sees a difference: what was dirty
\* is in the file.
LEMMA ReplacedSound ==
  ASSUME NEW b, Sound(b), NEW s \in Slots
  PROVE  LET e == Replaced(b, s) IN
         /\ Sound(e)
         /\ Free(e, s)
         /\ \A p \in PageIds : e.map[p] \in {b.map[p], ERROR_INDEX}
         /\ e.ring = b.ring
         /\ \A t \in Slots : e.slot[t].cls \in {b.slot[t].cls, NoClass}
         /\ ViewOf(e) = ViewOf(b)
<1> DEFINE w == WrittenBack(b, s)
           e == Replaced(b, s)
<1>b. b \in Pools /\ MapsInvert(b) /\ Backed(b) /\ Clean(b)
  BY DEF Sound, Mapped
<1>f. /\ b.disk \in [PageIds \cup {ERROR_PAGE} -> Data]
      /\ b.map \in [PageIds -> Slots \cup {ERROR_INDEX}]
      /\ b.rev \in [Slots -> PageIds \cup {ERROR_PAGE}]
      /\ b.dirty \in SUBSET Slots
      /\ b.slot \in [Slots -> Objects]
      /\ b.ring \in Rings
  BY <1>b, Fields
<1>1. /\ w \in Pools
      /\ w.map = b.map /\ w.rev = b.rev /\ w.ring = b.ring
      /\ w.dirty = b.dirty \ {s}
      /\ w.slot = IF s \in b.dirty THEN [b.slot EXCEPT ![s] = NoObject] ELSE b.slot
      /\ w.disk = IF s \in b.dirty
                  THEN [b.disk EXCEPT ![b.rev[s]] = b.slot[s].data] ELSE b.disk
  <2>1. CASE s \in b.dirty
    <3>1. b.slot[s].data \in Data
      BY <1>f DEF Objects
    <3>2. w = [b EXCEPT !.disk[b.rev[s]] = b.slot[s].data,
                        !.dirty = @ \ {s}, !.slot[s] = NoObject]
      BY <2>1 DEF WrittenBack
    <3>3. w = [disk |-> [b.disk EXCEPT ![b.rev[s]] = b.slot[s].data],
               map |-> b.map, rev |-> b.rev, dirty |-> b.dirty \ {s},
               slot |-> [b.slot EXCEPT ![s] = NoObject], ring |-> b.ring]
      BY <1>b, <3>2 DEF Pools
    <3>. QED
      BY <1>f, <2>1, <3>1, <3>3, NoObjectTyped DEF Pools
  <2>2. CASE s \notin b.dirty
    BY <1>b, <1>f, <2>2 DEF WrittenBack
  <2>. QED
    BY <2>1, <2>2
<1>2. /\ e \in Pools
      /\ e.disk = w.disk /\ e.dirty = w.dirty /\ e.slot = w.slot /\ e.ring = w.ring
      /\ e.rev = [b.rev EXCEPT ![s] = ERROR_PAGE]
      /\ e.map = IF b.rev[s] = ERROR_PAGE THEN b.map
                 ELSE [b.map EXCEPT ![b.rev[s]] = ERROR_INDEX]
  <2>1. CASE b.rev[s] = ERROR_PAGE
    <3>1. e = w
      BY <1>1, <2>1 DEF Replaced, WithoutMapping
    <3>2. b.rev = [b.rev EXCEPT ![s] = ERROR_PAGE]
      BY <1>f, <2>1
    <3>. QED
      BY <1>1, <2>1, <3>1, <3>2
  <2>2. CASE b.rev[s] # ERROR_PAGE
    <3>1. e = [w EXCEPT !.map[w.rev[s]] = ERROR_INDEX, !.rev[s] = ERROR_PAGE]
      BY <1>1, <2>2 DEF Replaced, WithoutMapping
    <3>2. e = [disk |-> w.disk, map |-> [w.map EXCEPT ![w.rev[s]] = ERROR_INDEX],
               rev |-> [w.rev EXCEPT ![s] = ERROR_PAGE], dirty |-> w.dirty,
               slot |-> w.slot, ring |-> w.ring]
      BY <1>1, <3>1 DEF Pools
    <3>. QED
      BY <1>1, <1>f, <2>2, <3>2 DEF Pools
  <2>. QED
    BY <2>1, <2>2
<1>3. /\ e.rev[s] = ERROR_PAGE
      /\ \A t \in Slots : t # s => e.rev[t] = b.rev[t] /\ e.slot[t] = b.slot[t]
      /\ e.dirty = b.dirty \ {s}
      /\ e.ring = b.ring
  BY <1>1, <1>2, <1>f
<1>4. \A p \in PageIds : e.map[p] = IF b.map[p] = s THEN ERROR_INDEX ELSE b.map[p]
  BY <1>2, <1>b, <1>f, Markers DEF MapsInvert
<1>5. MapsInvert(e)
  BY <1>3, <1>4, <1>b, <1>f, Markers DEF MapsInvert
<1>6. Backed(e)
  BY <1>3, <1>b, <1>f DEF Backed
<1>7. ASSUME NEW q \in PageIds, b.map[q] # s PROVE e.disk[q] = b.disk[q]
  <2>1. b.rev[s] # q
    BY <1>7, <1>b DEF MapsInvert
  <2>. QED
    BY <1>1, <1>2, <1>f, <2>1
<1>8. ASSUME NEW q \in PageIds, b.map[q] = s PROVE e.disk[q] = b.slot[s].data
  <2>1. b.rev[s] = q /\ q # ERROR_PAGE
    BY <1>8, <1>b, Markers DEF MapsInvert
  <2>2. CASE s \in b.dirty
    BY <1>1, <1>2, <1>f, <2>1, <2>2
  <2>3. CASE s \notin b.dirty
    BY <1>1, <1>2, <1>b, <2>1, <2>3 DEF Clean, CleanSlot
  <2>. QED
    BY <2>2, <2>3
<1>9. Clean(e)
  <2> SUFFICES ASSUME NEW t \in Slots, e.rev[t] # ERROR_PAGE, t \notin e.dirty
               PROVE  e.slot[t].data = e.disk[e.rev[t]]
    BY DEF Clean, CleanSlot
  <2>1. t # s /\ b.rev[t] # ERROR_PAGE /\ t \notin b.dirty /\ b.rev[t] \in PageIds
    BY <1>3, <1>f
  <2>2. b.map[b.rev[t]] = t
    BY <2>1, <1>b DEF MapsInvert
  <2>. QED
    BY <1>3, <1>7, <1>b, <2>1, <2>2 DEF Clean, CleanSlot
<1>10. ViewOf(e) = ViewOf(b)
  <2>1. ASSUME NEW p \in PageIds PROVE ViewOf(e)[p] = ViewOf(b)[p]
    <3>1. CASE b.map[p] = s
      BY <3>1, <1>4, <1>8, Markers DEF ViewOf
    <3>2. CASE b.map[p] # s
      BY <3>2, <1>3, <1>4, <1>7, <1>f DEF ViewOf
    <3>. QED
      BY <3>1, <3>2
  <2>. QED
    BY <2>1 DEF ViewOf
<1>11. \A t \in Slots : e.slot[t].cls \in {b.slot[t].cls, NoClass}
  BY <1>1, <1>2, <1>f DEF NoObject
<1>. QED
  BY <1>2, <1>3, <1>4, <1>5, <1>6, <1>9, <1>10, <1>11, Markers DEF Sound, Mapped, Free

\* A page comes into a free slot: the mapping is sound although it clears
\* nothing, because the slot and the page had none. The view changes at that
\* page only.
LEMMA PlacedMapped ==
  ASSUME NEW e, Sound(e), NEW s \in Slots, NEW p \in PageIds,
         Free(e, s), e.map[p] = ERROR_INDEX,
         NEW o \in Objects, o.cls # NoClass
  PROVE  LET m == Placed(e, p, s, o) IN
         /\ Mapped(m) /\ CleanBut(m, s)
         /\ m.map[p] = s /\ m.rev[s] = p
         /\ m.slot[s] = o /\ m.dirty = e.dirty /\ m.disk = e.disk
         /\ \A q \in PageIds : q # p => m.map[q] = e.map[q]
         /\ \A t \in Slots : t # s => m.slot[t] = e.slot[t]
         /\ ViewOf(m) = [ViewOf(e) EXCEPT ![p] = o.data]
<1>b. e \in Pools /\ MapsInvert(e) /\ Backed(e) /\ Clean(e)
  BY DEF Sound, Mapped
<1>f. /\ e.disk \in [PageIds \cup {ERROR_PAGE} -> Data]
      /\ e.map \in [PageIds -> Slots \cup {ERROR_INDEX}]
      /\ e.rev \in [Slots -> PageIds \cup {ERROR_PAGE}]
      /\ e.dirty \in SUBSET Slots
      /\ e.slot \in [Slots -> Objects]
      /\ e.ring \in Rings
  BY <1>b, Fields
<1>w. PICK w : w = WithMapping(e, p, s)
  OBVIOUS
<1>h. PICK h : h = Holding(w, s, o)
  OBVIOUS
<1>m. PICK m : m = Placed(e, p, s, o)
  OBVIOUS
<1>1. /\ w \in Pools
      /\ w.disk = e.disk /\ w.map = [e.map EXCEPT ![p] = s]
      /\ w.rev = [e.rev EXCEPT ![s] = p] /\ w.dirty = e.dirty
      /\ w.slot = e.slot /\ w.ring = e.ring
  <2>1. w = [disk |-> e.disk, map |-> [e.map EXCEPT ![p] = s],
             rev |-> [e.rev EXCEPT ![s] = p], dirty |-> e.dirty,
             slot |-> e.slot, ring |-> e.ring]
    BY <1>b, <1>w DEF WithMapping, Pools
  <2>. QED
    BY <1>f, <2>1 DEF Pools
<1>2. /\ h \in Pools
      /\ h.disk = w.disk /\ h.map = w.map /\ h.rev = w.rev /\ h.dirty = w.dirty
      /\ h.slot = [w.slot EXCEPT ![s] = o] /\ h.ring = w.ring
  BY <1>1, <1>h DEF Holding, Pools
<1>3. /\ m \in Pools
      /\ m.disk = h.disk /\ m.map = h.map /\ m.rev = h.rev
      /\ m.dirty = h.dirty /\ m.slot = h.slot
  <2>1. m = [h EXCEPT !.ring = Access(h.ring, s)]
    BY <1>w, <1>h, <1>m DEF Placed
  <2>2. Access(h.ring, s) \in Rings
    BY <1>2, Fields, RingTyped
  <2>. QED
    BY <1>2, <2>1, <2>2 DEF Pools
<1>4. /\ m \in Pools
      /\ \A q \in PageIds : m.map[q] = IF q = p THEN s ELSE e.map[q]
      /\ \A t \in Slots : m.rev[t] = IF t = s THEN p ELSE e.rev[t]
      /\ \A t \in Slots : m.slot[t] = IF t = s THEN o ELSE e.slot[t]
      /\ m.disk = e.disk /\ m.dirty = e.dirty
  BY <1>1, <1>2, <1>3, <1>f
<1>5. MapsInvert(m)
  <2> SUFFICES ASSUME NEW q \in PageIds, NEW t \in Slots
               PROVE  m.map[q] = t <=> m.rev[t] = q
    BY DEF MapsInvert
  <2>1. e.map[q] = t <=> e.rev[t] = q
    BY <1>b DEF MapsInvert
  <2>2. e.map[p] # t /\ e.map[q] # s
    BY Markers DEF Free
  <2>. QED
    BY <1>4, <2>1, <2>2
<1>6. Backed(m)
  <2>1. p # ERROR_PAGE
    BY Markers
  <2>2. ASSUME NEW t \in Slots, m.rev[t] # ERROR_PAGE PROVE m.slot[t].cls # NoClass
    BY <1>4, <1>b, <2>2 DEF Backed
  <2>3. ASSUME NEW t \in m.dirty PROVE m.rev[t] # ERROR_PAGE
    BY <1>4, <1>b, <1>f, <2>1, <2>3 DEF Backed
  <2>. QED
    BY <2>2, <2>3 DEF Backed
<1>7. CleanBut(m, s)
  BY <1>4, <1>b DEF Clean, CleanBut, CleanSlot
<1>8. ViewOf(m) = [ViewOf(e) EXCEPT ![p] = o.data]
  <2>1. ASSUME NEW q \in PageIds
        PROVE  ViewOf(m)[q] = [ViewOf(e) EXCEPT ![p] = o.data][q]
    <3>1. CASE q = p
      BY <3>1, <1>4, Markers DEF ViewOf
    <3>2. CASE q # p /\ e.map[q] = ERROR_INDEX
      BY <3>2, <1>4 DEF ViewOf
    <3>3. CASE q # p /\ e.map[q] # ERROR_INDEX
      <4>1. e.map[q] \in Slots /\ e.map[q] # s
        BY <3>3, <1>f DEF Free
      <4>. QED
        BY <3>3, <4>1, <1>4 DEF ViewOf
    <3>. QED
      BY <3>1, <3>2, <3>3
  <2>. QED
    BY <2>1 DEF ViewOf
<1>. QED
  BY <1>m, <1>4, <1>5, <1>6, <1>7, <1>8 DEF Mapped

\* Setting the dirty bit of a mapped slot makes up for whatever the slot
\* holds, and is not visible.
LEMMA DirtiedSound ==
  ASSUME NEW b, Mapped(b), NEW s \in Slots, b.rev[s] # ERROR_PAGE, CleanBut(b, s)
  PROVE  LET d == Dirtied(b, s) IN
         /\ Sound(d)
         /\ d.map = b.map /\ d.slot = b.slot
         /\ ViewOf(d) = ViewOf(b)
<1>d. PICK d : d = Dirtied(b, s)
  OBVIOUS
<1>1. /\ d \in Pools
      /\ d.disk = b.disk /\ d.map = b.map /\ d.rev = b.rev
      /\ d.dirty = b.dirty \cup {s} /\ d.slot = b.slot
  BY <1>d, Fields DEF Dirtied, Pools, Mapped
<1>2. MapsInvert(d) /\ Backed(d)
  BY <1>1 DEF Mapped, MapsInvert, Backed
<1>3. Clean(d)
  BY <1>1 DEF Clean, CleanBut, CleanSlot
<1>4. ViewOf(d) = ViewOf(b)
  BY <1>1 DEF ViewOf
<1>. QED
  BY <1>d, <1>1, <1>2, <1>3, <1>4 DEF Sound, Mapped

\* Storing an object in a mapped slot changes the view of that page only.
LEMMA HoldingMapped ==
  ASSUME NEW b, Sound(b), NEW p \in PageIds, NEW s \in Slots, b.map[p] = s,
         NEW o \in Objects, o.cls # NoClass
  PROVE  LET h == Holding(b, s, o) IN
         /\ Mapped(h) /\ CleanBut(h, s)
         /\ h.rev[s] = p /\ h.map = b.map
         /\ ViewOf(h) = [ViewOf(b) EXCEPT ![p] = o.data]
<1>h. PICK h : h = Holding(b, s, o)
  OBVIOUS
<1>b. b \in Pools /\ MapsInvert(b) /\ Backed(b) /\ Clean(b)
  BY DEF Sound, Mapped
<1>f. /\ b.map \in [PageIds -> Slots \cup {ERROR_INDEX}]
      /\ b.slot \in [Slots -> Objects]
  BY <1>b, Fields
<1>1. /\ h \in Pools
      /\ h.disk = b.disk /\ h.map = b.map /\ h.rev = b.rev /\ h.dirty = b.dirty
      /\ h.slot = [b.slot EXCEPT ![s] = o]
  BY <1>b, <1>f, <1>h DEF Holding, Pools
<1>2. b.rev[s] = p
  BY <1>b DEF MapsInvert
<1>3. Mapped(h)
  <2>1. MapsInvert(h)
    BY <1>1, <1>b DEF MapsInvert
  <2>2. \A t \in Slots : h.slot[t].cls = IF t = s THEN o.cls ELSE b.slot[t].cls
    BY <1>1, <1>f
  <2>3. Backed(h)
    BY <1>1, <1>b, <2>2 DEF Backed
  <2>. QED
    BY <1>1, <2>1, <2>3 DEF Mapped
<1>4. CleanBut(h, s)
  BY <1>1, <1>b, <1>f DEF CleanBut, Clean, CleanSlot
<1>5. ViewOf(h) = [ViewOf(b) EXCEPT ![p] = o.data]
  <2>1. ASSUME NEW q \in PageIds
        PROVE  ViewOf(h)[q] = [ViewOf(b) EXCEPT ![p] = o.data][q]
    <3>1. CASE q = p
      BY <3>1, <1>1, <1>f, Markers DEF ViewOf
    <3>2. CASE q # p
      <4>1. b.map[q] # s
        BY <1>2, <1>b, <3>2 DEF MapsInvert
      <4>. QED
        BY <3>2, <4>1, <1>1, <1>f DEF ViewOf
    <3>. QED
      BY <3>1, <3>2
  <2>. QED
    BY <2>1 DEF ViewOf
<1>. QED
  BY <1>h, <1>1, <1>2, <1>3, <1>4, <1>5
-----------------------------------------------------------------------------
\* common_op(p): the page is in a slot, as an object, and its users see no
\* difference.
LEMMA FetchedSound ==
  ASSUME NEW b, Sound(b), NEW p \in PageIds, NEW c \in Classes
  PROVE  LET f == Fetched(b, p, c) IN
         /\ Sound(f)
         /\ f.map[p] \in Slots
         /\ f.slot[f.map[p]].cls # NoClass
         /\ \A q \in PageIds : b.map[q] = ERROR_INDEX /\ q # p => f.map[q] = ERROR_INDEX
         /\ ViewOf(f) = ViewOf(b)
<1>b. b \in Pools /\ MapsInvert(b) /\ Backed(b) /\ Clean(b)
  BY DEF Sound, Mapped
<1>t. /\ b.map \in [PageIds -> Slots \cup {ERROR_INDEX}]
      /\ b.slot \in [Slots -> Objects]
      /\ b.ring \in Rings
  BY <1>b, Fields
<1>f. PICK f : f = Fetched(b, p, c)
  OBVIOUS
<1>1. CASE b.map[p] # ERROR_INDEX
  <2>1. b.map[p] \in Slots
    BY <1>1, <1>t
  <2>2. f = [b EXCEPT !.ring = Access(b.ring, b.map[p])]
    BY <1>1, <1>f DEF Fetched
  <2>3. Access(b.ring, b.map[p]) \in Rings
    BY <1>t, <2>1, RingTyped
  <2>4. /\ f \in Pools
        /\ f.disk = b.disk /\ f.map = b.map /\ f.rev = b.rev
        /\ f.dirty = b.dirty /\ f.slot = b.slot
    BY <1>b, <2>2, <2>3 DEF Pools
  <2>5. MapsInvert(f) /\ Backed(f) /\ Clean(f) /\ ViewOf(f) = ViewOf(b)
    BY <1>b, <2>4 DEF MapsInvert, Backed, Clean, CleanSlot, ViewOf
  <2>6. f.slot[f.map[p]].cls # NoClass
    <3>1. b.rev[b.map[p]] = p /\ p # ERROR_PAGE
      BY <1>b, <2>1, Markers DEF MapsInvert
    <3>. QED
      BY <1>b, <2>1, <2>4, <3>1 DEF Backed
  <2>. QED
    BY <1>f, <2>1, <2>4, <2>5, <2>6 DEF Sound, Mapped
<1>2. CASE b.map[p] = ERROR_INDEX
  <2>s. PICK s \in Slots : s = Least(b.ring)
    BY <1>t, RingTyped
  <2>e. PICK e : e = Replaced(b, s)
    OBVIOUS
  <2>o. PICK o : o = [cls |-> Reused(e, s, c), data |-> e.disk[p]]
    OBVIOUS
  <2>1. /\ Sound(e) /\ Free(e, s) /\ e.map[p] = ERROR_INDEX
        /\ \A q \in PageIds : e.map[q] \in {b.map[q], ERROR_INDEX}
        /\ ViewOf(e) = ViewOf(b)
    BY <1>2, <2>e, ReplacedSound
  <2>2. /\ e \in Pools /\ e.disk \in [PageIds \cup {ERROR_PAGE} -> Data]
        /\ e.slot \in [Slots -> Objects]
    BY <2>1, Fields DEF Sound, Mapped
  <2>3. o \in Objects /\ o.cls # NoClass /\ o.data = e.disk[p]
    BY <2>2, <2>o, PoolAssumption DEF Objects, Reused
  <2>4. f = Placed(e, p, s, o)
    BY <1>2, <1>f, <2>s, <2>e, <2>o DEF Fetched
  <2>5. /\ Mapped(f) /\ CleanBut(f, s)
        /\ f.map[p] = s /\ f.rev[s] = p
        /\ f.slot[s] = o /\ f.disk = e.disk
        /\ \A q \in PageIds : q # p => f.map[q] = e.map[q]
        /\ ViewOf(f) = [ViewOf(e) EXCEPT ![p] = o.data]
    BY <2>1, <2>3, <2>4, PlacedMapped
  <2>6. Sound(f)
    BY <2>3, <2>5 DEF Sound, Clean, CleanBut, CleanSlot
  <2>7. ViewOf(f) = ViewOf(b)
    <3>1. ViewOf(e)[p] = o.data
      BY <2>1, <2>3 DEF ViewOf
    <3>. QED
      BY <2>1, <2>5, <3>1 DEF ViewOf
  <2>. QED
    BY <1>f, <2>1, <2>3, <2>5, <2>6, <2>7
<1>. QED
  BY <1>1, <1>2

\* The content of the pages changed at page p only, to some body.
OnlyAt(old, new, p) == \E body \in Data : new = [old EXCEPT ![p] = body]

\* alloc of a page that is not cached: no other page changes.
LEMMA AllocatedSound ==
  ASSUME NEW b, Sound(b), NEW p \in PageIds, NEW c \in Classes, NEW d \in Data,
         b.map[p] = ERROR_INDEX
  PROVE  LET a == Allocated(b, p, c, d) IN
         /\ Sound(a)
         /\ \A q \in PageIds : b.map[q] = ERROR_INDEX /\ q # p => a.map[q] = ERROR_INDEX
         /\ OnlyAt(ViewOf(b), ViewOf(a), p)
<1>t. b.ring \in Rings
  BY Fields DEF Sound, Mapped
<1>s. PICK s \in Slots : s = Least(b.ring)
  BY <1>t, RingTyped
<1>e. PICK e : e = Replaced(b, s)
  OBVIOUS
<1>o. PICK o : o = [cls |-> Reused(e, s, c),
                    data |-> IF e.slot[s].cls = NoClass THEN d ELSE e.slot[s].data]
  OBVIOUS
<1>m. PICK m : m = Placed(e, p, s, o)
  OBVIOUS
<1>a. PICK a : a = Allocated(b, p, c, d)
  OBVIOUS
<1>1. /\ Sound(e) /\ Free(e, s) /\ e.map[p] = ERROR_INDEX
      /\ \A q \in PageIds : e.map[q] \in {b.map[q], ERROR_INDEX}
      /\ ViewOf(e) = ViewOf(b)
  BY <1>e, ReplacedSound
<1>2. e.slot \in [Slots -> Objects]
  BY <1>1, Fields DEF Sound, Mapped
<1>3. o \in Objects /\ o.cls # NoClass /\ o.data \in Data
  BY <1>2, <1>o, PoolAssumption DEF Objects, Reused
<1>4. a = Dirtied(m, s)
  BY <1>s, <1>e, <1>o, <1>m, <1>a DEF Allocated
<1>5. /\ Mapped(m) /\ CleanBut(m, s) /\ m.rev[s] # ERROR_PAGE
      /\ \A q \in PageIds : q # p => m.map[q] = e.map[q]
      /\ ViewOf(m) = [ViewOf(e) EXCEPT ![p] = o.data]
  BY <1>1, <1>3, <1>m, PlacedMapped, Markers
<1>6. Sound(a) /\ a.map = m.map /\ ViewOf(a) = ViewOf(m)
  BY <1>4, <1>5, DirtiedSound
<1>. QED
  BY <1>a, <1>1, <1>3, <1>5, <1>6 DEF OnlyAt

\* A store through a reference to a cached page.
LEMMA StoredSound ==
  ASSUME NEW b, Sound(b), NEW p \in PageIds, b.map[p] \in Slots, NEW d \in Data
  PROVE  /\ Sound(Stored(b, p, d))
         /\ Stored(b, p, d).map = b.map
         /\ ViewOf(Stored(b, p, d)) = [ViewOf(b) EXCEPT ![p] = d]
<1>s. PICK s \in Slots : s = b.map[p]
  OBVIOUS
<1>o. PICK o : o = [cls |-> b.slot[s].cls, data |-> d]
  OBVIOUS
<1>1. b.slot \in [Slots -> Objects] /\ b.rev[s] = p
  BY <1>s, Fields DEF Sound, Mapped, MapsInvert
<1>2. o \in Objects /\ o.cls # NoClass /\ o.data = d
  BY <1>1, <1>o, Markers DEF Objects, Sound, Mapped, Backed
<1>h. PICK h : h = Holding(b, s, o)
  OBVIOUS
<1>3. /\ Mapped(h) /\ CleanBut(h, s) /\ h.rev[s] = p /\ h.map = b.map
      /\ ViewOf(h) = [ViewOf(b) EXCEPT ![p] = o.data]
  BY <1>s, <1>2, <1>h, HoldingMapped
<1>4. Stored(b, p, d) = Dirtied(h, s)
  BY <1>s, <1>o, <1>h DEF Stored
<1>. QED
  BY <1>2, <1>3, <1>4, DirtiedSound, Markers

\* The object stays the object it was.
LEMMA StoredKeepsClass ==
  ASSUME NEW b \in Pools, NEW p \in PageIds, b.map[p] \in Slots, NEW d
  PROVE  Stored(b, p, d).slot[b.map[p]].cls = b.slot[b.map[p]].cls
<1>s. PICK s \in Slots : s = b.map[p]
  OBVIOUS
<1>o. PICK o : o = [cls |-> b.slot[s].cls, data |-> d]
  OBVIOUS
<1>h. PICK h : h = Holding(b, s, o)
  OBVIOUS
<1>1. h = [disk |-> b.disk, map |-> b.map, rev |-> b.rev, dirty |-> b.dirty,
           slot |-> [b.slot EXCEPT ![s] = o], ring |-> b.ring]
  BY <1>h DEF Holding, Pools
<1>2. Dirtied(h, s).slot = h.slot
  BY <1>1 DEF Dirtied
<1>3. Stored(b, p, d) = Dirtied(h, s)
  BY <1>s, <1>o, <1>h DEF Stored
<1>4. h.slot[s] = o
  BY <1>1, Fields
<1>5. o.cls = b.slot[s].cls
  BY <1>o
<1>. QED
  BY <1>s, <1>2, <1>3, <1>4, <1>5

\* replace_page_specific(p, object).
LEMMA InstalledSound ==
  ASSUME NEW b, Sound(b), NEW p \in PageIds, NEW d \in Data
  PROVE  /\ Sound(Installed(b, p, d))
         /\ \A q \in PageIds : b.map[q] = ERROR_INDEX /\ q # p =>
              Installed(b, p, d).map[q] = ERROR_INDEX
         /\ ViewOf(Installed(b, p, d)) = [ViewOf(b) EXCEPT ![p] = d]
<1>c. ClassOf[p] \in Classes /\ ClassOf[p] # NoClass
  BY PoolAssumption DEF Classes
<1>f. PICK f : f = Fetched(b, p, ClassOf[p])
  OBVIOUS
<1>1. /\ Sound(f) /\ f.map[p] \in Slots
      /\ \A q \in PageIds : b.map[q] = ERROR_INDEX /\ q # p => f.map[q] = ERROR_INDEX
      /\ ViewOf(f) = ViewOf(b)
  BY <1>c, <1>f, FetchedSound
<1>s. PICK s \in Slots : s = f.map[p]
  BY <1>1
<1>o. PICK o : o = [cls |-> ClassOf[p], data |-> d]
  OBVIOUS
<1>2. o \in Objects /\ o.cls # NoClass /\ o.data = d
  BY <1>c, <1>o DEF Objects
<1>h. PICK h : h = Holding(f, s, o)
  OBVIOUS
<1>3. /\ Mapped(h) /\ CleanBut(h, s) /\ h.rev[s] = p /\ h.map = f.map
      /\ ViewOf(h) = [ViewOf(f) EXCEPT ![p] = o.data]
  BY <1>1, <1>s, <1>2, <1>h, HoldingMapped
<1>4. Installed(b, p, d) = Dirtied(h, s)
  BY <1>f, <1>s, <1>o, <1>h DEF Installed
<1>. QED
  BY <1>1, <1>2, <1>3, <1>4, DirtiedSound, Markers

\* An empty pool over any file is sound, and shows the file.
LEMMA OpenedSound ==
  ASSUME NEW file \in [PageIds \cup {ERROR_PAGE} -> Data]
  PROVE  /\ Sound(Opened(file))
         /\ \A p \in PageIds : Opened(file).map[p] = ERROR_INDEX
         /\ ViewOf(Opened(file)) = [p \in PageIds |-> file[p]]
<1>b. PICK b : b = Opened(file)
  OBVIOUS
<1>1. /\ b \in Pools
      /\ b.disk = file /\ b.map = [p \in PageIds |-> ERROR_INDEX]
      /\ b.rev = [s \in Slots |-> ERROR_PAGE] /\ b.dirty = {}
  BY <1>b, RingTyped, NoObjectTyped DEF Opened, Pools
<1>2. MapsInvert(b)
  BY <1>1, Markers DEF MapsInvert
<1>3. Backed(b) /\ Clean(b)
  BY <1>1 DEF Backed, Clean, CleanSlot
<1>4. ViewOf(b) = [p \in PageIds |-> file[p]]
  BY <1>1 DEF ViewOf
<1>. QED
  BY <1>b, <1>1, <1>2, <1>3, <1>4 DEF Sound, Mapped

\* What the destructor leaves in the file is what the users saw.
LEMMA FlushedView ==
  ASSUME NEW b, Sound(b)
  PROVE  /\ Flushed(b) \in [PageIds \cup {ERROR_PAGE} -> Data]
         /\ \A q \in PageIds : Flushed(b)[q] = ViewOf(b)[q]
<1>b. b \in Pools /\ MapsInvert(b) /\ Backed(b) /\ Clean(b)
  BY DEF Sound, Mapped
<1>t. /\ b.disk \in [PageIds \cup {ERROR_PAGE} -> Data]
      /\ b.map \in [PageIds -> Slots \cup {ERROR_INDEX}]
      /\ b.dirty \in SUBSET Slots
      /\ b.slot \in [Slots -> Objects]
  BY <1>b, Fields
<1>1. Flushed(b) = [q \in PageIds \cup {ERROR_PAGE} |->
        IF \E s \in b.dirty : b.rev[s] = q /\ q # ERROR_PAGE
        THEN b.slot[CHOOSE s \in b.dirty : b.rev[s] = q].data ELSE b.disk[q]]
  BY DEF Flushed
<1>2. ASSUME NEW q \in PageIds \cup {ERROR_PAGE},
             NEW s \in b.dirty, b.rev[s] = q, q # ERROR_PAGE
      PROVE  Flushed(b)[q] = b.slot[s].data /\ b.map[q] = s /\ q \in PageIds
  <2>1. PICK t : t = CHOOSE x \in b.dirty : b.rev[x] = q
    OBVIOUS
  <2>2. t \in b.dirty /\ b.rev[t] = q
    BY <1>2, <2>1
  <2>3. b.map[q] = t /\ b.map[q] = s /\ q \in PageIds
    BY <1>2, <1>b, <1>t, <2>2 DEF MapsInvert
  <2>4. Flushed(b)[q] = b.slot[CHOOSE x \in b.dirty : b.rev[x] = q].data
    BY <1>1, <1>2
  <2>5. Flushed(b)[q] = b.slot[t].data /\ s = t
    BY <2>1, <2>3, <2>4
  <2>. QED
    BY <2>3, <2>5
<1>3. ASSUME NEW q \in PageIds \cup {ERROR_PAGE},
             ~\E s \in b.dirty : b.rev[s] = q /\ q # ERROR_PAGE
      PROVE  Flushed(b)[q] = b.disk[q]
  BY <1>1, <1>3
<1>4. \A q \in PageIds \cup {ERROR_PAGE} : Flushed(b)[q] \in Data
  BY <1>2, <1>3, <1>t DEF Objects
<1>5. Flushed(b) \in [PageIds \cup {ERROR_PAGE} -> Data]
  BY <1>1, <1>4
<1>6. ASSUME NEW q \in PageIds PROVE Flushed(b)[q] = ViewOf(b)[q]
  <2>1. CASE \E s \in b.dirty : b.rev[s] = q /\ q # ERROR_PAGE
    BY <2>1, <1>2, <1>t, Markers DEF ViewOf
  <2>2. CASE ~\E s \in b.dirty : b.rev[s] = q /\ q # ERROR_PAGE
    <3>1. Flushed(b)[q] = b.disk[q]
      BY <2>2, <1>3
    <3>2. CASE b.map[q] # ERROR_INDEX
      <4>1. b.map[q] \in Slots /\ b.rev[b.map[q]] = q /\ q # ERROR_PAGE
        BY <3>2, <1>b, <1>t, Markers DEF MapsInvert
      <4>. QED
        BY <2>2, <3>1, <3>2, <4>1, <1>b DEF Clean, CleanSlot, ViewOf
    <3>3. CASE b.map[q] = ERROR_INDEX
      BY <3>1, <3>3 DEF ViewOf
    <3>. QED
      BY <3>2, <3>3
  <2>. QED
    BY <2>1, <2>2
<1>. QED
  BY <1>5, <1>6
-----------------------------------------------------------------------------
\* Page ids not handed out yet are not cached.
Fresh == \A p \in PageIds : p >= pageCnt => pool.map[p] = ERROR_INDEX

IInv == TypeOK /\ Sound(pool) /\ Fresh

LEMMA InitIInv == Init => IInv
<1> SUFFICES ASSUME Init PROVE IInv
  OBVIOUS
<1>1. PICK file \in [PageIds \cup {ERROR_PAGE} -> Data] : pool = Opened(file)
  BY DEF Init
<1>2. Sound(pool) /\ \A p \in PageIds : pool.map[p] = ERROR_INDEX
  BY <1>1, OpenedSound
<1>3. pageCnt \in 1 .. MaxPage + 1
  BY PoolAssumption DEF Init
<1>4. ret \in [page : PageIds \cup {ERROR_PAGE}, data : Data]
  BY Markers DEF Init
<1>5. after \in [PageIds -> SUBSET PageIds]
  BY DEF Init
<1>. QED
  BY <1>2, <1>3, <1>4, <1>5 DEF IInv, TypeOK, Sound, Mapped, Fresh

\* The class a page is used as is a class; an existing page is a page.
LEMMA ClassTyped == \A p \in PageIds : ClassOf[p] \in Classes
  BY DEF Classes

LEMMA TouchTyped ==
  ASSUME NEW p \in PageIds, after \in [PageIds -> SUBSET PageIds], Touch(p)
  PROVE  after' \in [PageIds -> SUBSET PageIds]
  BY DEF Touch

\* A value read or stored through a reference is a page body.
LEMMA OutcomesTyped ==
  ASSUME NEW b, NEW p, NEW d \in Data PROVE Outcomes(b, p, d) \subseteq Data
  BY DEF Outcomes

LEMMA FreshKept ==
  ASSUME IInv, NEW p \in Existing, NEW f,
         \A q \in PageIds : pool.map[q] = ERROR_INDEX /\ q # p => f.map[q] = ERROR_INDEX
  PROVE  \A q \in PageIds : q >= pageCnt => f.map[q] = ERROR_INDEX
  BY PoolAssumption DEF IInv, TypeOK, Fresh, Existing, PageIds

LEMMA ReadStep ==
  ASSUME IInv, NEW p \in PageIds, ReadOp(p)
  PROVE  /\ IInv'
         /\ ViewOf(pool') = ViewOf(pool)
         /\ pool'.map[p] \in Slots /\ pool'.slot[pool'.map[p]].cls # NoClass
<1>1. /\ Sound(pool') /\ pool'.map[p] \in Slots
      /\ pool'.slot[pool'.map[p]].cls # NoClass
      /\ \A q \in PageIds : pool.map[q] = ERROR_INDEX /\ q # p => pool'.map[q] = ERROR_INDEX
      /\ ViewOf(pool') = ViewOf(pool)
  BY ClassTyped, FetchedSound DEF ReadOp, IInv
<1>2. Fresh'
  BY <1>1, FreshKept DEF ReadOp, Fresh
<1>3. pool'.slot[pool'.map[p]].data \in Data
  BY <1>1, Fields DEF Sound, Mapped, Objects
<1>4. ret' \in [page : PageIds \cup {ERROR_PAGE}, data : Data]
  BY <1>3, OutcomesTyped DEF ReadOp
<1>5. TypeOK'
  BY <1>1, <1>4, TouchTyped DEF ReadOp, IInv, TypeOK, Sound, Mapped
<1>. QED
  BY <1>1, <1>2, <1>5 DEF IInv

LEMMA WriteStep ==
  ASSUME IInv, NEW p \in PageIds, NEW new_data \in Data, WriteOp(p, new_data)
  PROVE  /\ IInv'
         /\ pool'.map[p] \in Slots
         /\ \E d \in Outcomes(pool', p, new_data) :
              ViewOf(pool') = [ViewOf(pool) EXCEPT ![p] = d]
<1>f. PICK f : f = Fetched(pool, p, ClassOf[p])
  OBVIOUS
<1>1. /\ Sound(f) /\ f.map[p] \in Slots /\ f.slot[f.map[p]].cls # NoClass
      /\ \A q \in PageIds : pool.map[q] = ERROR_INDEX /\ q # p => f.map[q] = ERROR_INDEX
      /\ ViewOf(f) = ViewOf(pool)
  BY <1>f, ClassTyped, FetchedSound DEF IInv
<1>d. PICK d \in Outcomes(f, p, new_data) : pool' = Stored(f, p, d)
  BY <1>f DEF WriteOp
<1>2. d \in Data
  BY <1>d, OutcomesTyped
<1>3. Sound(pool') /\ pool'.map = f.map /\ ViewOf(pool') = [ViewOf(pool) EXCEPT ![p] = d]
  BY <1>1, <1>2, <1>d, StoredSound
<1>4. Fresh'
  BY <1>1, <1>3, FreshKept DEF WriteOp, Fresh
<1>5. TypeOK'
  BY <1>3, TouchTyped DEF WriteOp, IInv, TypeOK, Sound, Mapped
<1>6. d \in Outcomes(pool', p, new_data)
  <2>1. CastIsSafe(pool', p) = CastIsSafe(f, p)
    BY <1>1, <1>d, <1>3, StoredKeepsClass DEF CastIsSafe, Sound, Mapped
  <2>. QED
    BY <1>d, <2>1 DEF Outcomes
<1>. QED
  BY <1>1, <1>3, <1>4, <1>5, <1>6 DEF IInv

LEMMA ReplacePageSpecificStep ==
  ASSUME IInv, NEW p \in PageIds, NEW d \in Data, ReplacePageSpecific(p, d)
  PROVE  IInv' /\ ViewOf(pool') = [ViewOf(pool) EXCEPT ![p] = d]
<1>1. /\ Sound(pool')
      /\ \A q \in PageIds : pool.map[q] = ERROR_INDEX /\ q # p => pool'.map[q] = ERROR_INDEX
      /\ ViewOf(pool') = [ViewOf(pool) EXCEPT ![p] = d]
  BY InstalledSound DEF ReplacePageSpecific, IInv
<1>2. Fresh'
  BY <1>1, FreshKept DEF ReplacePageSpecific, Fresh
<1>3. TypeOK'
  BY <1>1, TouchTyped DEF ReplacePageSpecific, IInv, TypeOK, Sound, Mapped
<1>. QED
  BY <1>1, <1>2, <1>3 DEF IInv

LEMMA AllocStep ==
  ASSUME IInv, NEW d \in Data, Alloc(d)
  PROVE  /\ IInv'
         /\ OnlyAt(ViewOf(pool), ViewOf(pool'), pageCnt)
<1>1. pageCnt \in PageIds /\ pool.map[pageCnt] = ERROR_INDEX /\ pageCnt \in Nat
  BY PoolAssumption DEF Alloc, IInv, Fresh, PageIds
<1>p. PICK p \in PageIds : p = pageCnt
  BY <1>1
<1>b. PICK b : b = pool
  OBVIOUS
<1>a. PICK a : a = Allocated(b, p, ClassOf[p], d)
  OBVIOUS
<1>r. /\ Sound(a)
      /\ \A q \in PageIds : b.map[q] = ERROR_INDEX /\ q # p => a.map[q] = ERROR_INDEX
      /\ OnlyAt(ViewOf(b), ViewOf(a), p)
  <2>1. Sound(b) /\ b.map[p] = ERROR_INDEX /\ ClassOf[p] \in Classes
    BY <1>1, <1>p, <1>b, ClassTyped DEF IInv
  <2>. QED
    BY <2>1, <1>a, AllocatedSound
<1>e. pool' = a
  BY <1>p, <1>b, <1>a DEF Alloc
<1>2. /\ Sound(pool')
      /\ \A q \in PageIds : pool.map[q] = ERROR_INDEX /\ q # pageCnt =>
           pool'.map[q] = ERROR_INDEX
      /\ OnlyAt(ViewOf(pool), ViewOf(pool'), pageCnt)
  BY <1>p, <1>b, <1>r, <1>e
<1>3. Fresh'
  <2> SUFFICES ASSUME NEW q \in PageIds, q >= pageCnt' PROVE pool'.map[q] = ERROR_INDEX
    BY DEF Fresh
  <2>1. q >= pageCnt /\ q # pageCnt
    BY <1>1 DEF Alloc, PageIds
  <2>. QED
    BY <1>2, <2>1 DEF IInv, Fresh
<1>4. pageCnt' \in 1 .. MaxPage + 1
  BY <1>1, PoolAssumption DEF Alloc, PageIds
<1>5. TypeOK'
  BY <1>1, <1>2, <1>4, TouchTyped DEF Alloc, IInv, TypeOK, Sound, Mapped
<1>. QED
  BY <1>2, <1>3, <1>5 DEF IInv

LEMMA ExitStep ==
  ASSUME IInv, ExitAndReopen
  PROVE  IInv' /\ ViewOf(pool') = ViewOf(pool)
<1>1. /\ Flushed(pool) \in [PageIds \cup {ERROR_PAGE} -> Data]
      /\ \A q \in PageIds : Flushed(pool)[q] = ViewOf(pool)[q]
  BY FlushedView DEF IInv
<1>2. /\ Sound(pool')
      /\ \A p \in PageIds : pool'.map[p] = ERROR_INDEX
      /\ ViewOf(pool') = [p \in PageIds |-> Flushed(pool)[p]]
  BY <1>1, OpenedSound DEF ExitAndReopen
<1>3. ViewOf(pool') = ViewOf(pool)
  BY <1>1, <1>2 DEF ViewOf
<1>4. TypeOK'
  BY <1>2 DEF ExitAndReopen, IInv, TypeOK, Sound, Mapped
<1>. QED
  BY <1>2, <1>3, <1>4 DEF IInv, Fresh

LEMMA StutterStep ==
  ASSUME IInv, UNCHANGED vars PROVE IInv' /\ ViewOf(pool') = ViewOf(pool)
  BY DEF vars, IInv, TypeOK, Fresh

LEMMA NextIInv == IInv /\ [Next]_vars => IInv'
<1> SUFFICES ASSUME IInv, [Next]_vars PROVE IInv'
  OBVIOUS
<1>1. CASE \E p \in PageIds : ReadOp(p)
  BY <1>1, ReadStep
<1>2. CASE \E p \in PageIds, d \in Data : WriteOp(p, d)
  BY <1>2, WriteStep
<1>3. CASE \E p \in PageIds, d \in Data : ReplacePageSpecific(p, d)
  BY <1>3, ReplacePageSpecificStep
<1>4. CASE \E d \in Data : Alloc(d)
  BY <1>4, AllocStep
<1>5. CASE ExitAndReopen
  BY <1>5, ExitStep
<1>6. CASE UNCHANGED vars
  BY <1>6, StutterStep
<1>. QED
  BY <1>1, <1>2, <1>3, <1>4, <1>5, <1>6 DEF Next

LEMMA Inductive == Spec => []IInv
  BY InitIInv, NextIInv, PTL DEF Spec

\* Whatever sequence of calls is made, every field of the pool keeps its
\* type: no slot number, page id or class is ever made up.
THEOREM PoolTypeCorrect == Spec => []TypeOK
<1>1. IInv => TypeOK
  BY DEF IInv
<1>. QED
  BY <1>1, Inductive, PTL

\* duplex_map's two directions stay inverse, although create_mapping never
\* clears the pair it overwrites.
THEOREM MappingIsInverse == Spec => []MapIsInverse
<1>1. IInv => MapIsInverse
  BY DEF IInv, Sound, Mapped, MapsInvert, MapIsInverse
<1>. QED
  BY <1>1, Inductive, PTL

\* replace() and the destructor only ever write back a page that has a page
\* id and an object: never over the table head, never through a null pointer.
THEOREM DirtyHasAPage == Spec => []DirtyIsMapped
<1>1. IInv => DirtyIsMapped
  BY Fields DEF IInv, Sound, Mapped, Backed, DirtyIsMapped
<1>. QED
  BY <1>1, Inductive, PTL

\* Evicting a clean page loses nothing.
THEOREM CleanPagesAreInTheFile == Spec => []CleanMatchesFile
<1>1. IInv => CleanMatchesFile
  BY DEF IInv, Sound, Clean, CleanSlot, CleanMatchesFile
<1>. QED
  BY <1>1, Inductive, PTL

-----------------------------------------------------------------------------
(* The window of a reference. The ring is in the order of some ages, and   *)
(* every slot younger than a page's slot holds a page accessed since that  *)
(* page: so by the time it is the oldest and is evicted, Capacity - 1      *)
(* other pages were accessed, and the access that evicts it is one more.   *)
Recent(b, f, a) ==
  /\ \A s, t \in Slots : b.rev[s] # ERROR_PAGE /\ a[t] < a[s] => b.rev[t] \in f[b.rev[s]]
  /\ \A p \in PageIds : (\A s \in Slots : b.rev[s] # p) => Capacity <= Cardinality(f[p])

Window(b, f) == \E a \in [Slots -> Slots] : Ordered(b.ring, a) /\ Recent(b, f, a)

\* Slot s of b was accessed for page p: it holds p already, or it is the
\* oldest and p is in no slot.
AccessedIn(b, m, p, s) ==
  /\ m.ring = Access(b.ring, s)
  /\ m.rev = [b.rev EXCEPT ![s] = p]
  /\ b.rev[s] # p => s = Least(b.ring) /\ \A t \in Slots : b.rev[t] # p

Accessed(b, m, p) == \E s \in Slots : AccessedIn(b, m, p, s)

Touched(f, p) == [q \in PageIds |-> IF q = p THEN {} ELSE f[q] \cup {p}]

\* replace() leaves the ring alone and clears one slot's page.
LEMMA ReplacedLinks ==
  ASSUME NEW b \in Pools, NEW s \in Slots
  PROVE  /\ Replaced(b, s).ring = b.ring
         /\ Replaced(b, s).rev = [b.rev EXCEPT ![s] = ERROR_PAGE]
<1>w. PICK w : w = WrittenBack(b, s)
  OBVIOUS
<1>f. b.rev \in [Slots -> PageIds \cup {ERROR_PAGE}]
  BY Fields
<1>1. w.ring = b.ring /\ w.rev = b.rev /\ w = [w EXCEPT !.dirty = w.dirty]
  <2>1. CASE s \in b.dirty
    BY <1>w, <2>1 DEF WrittenBack, Pools
  <2>2. CASE s \notin b.dirty
    BY <1>w, <2>2 DEF WrittenBack, Pools
  <2>. QED
    BY <2>1, <2>2
<1>2. w \in [disk : {w.disk}, map : {w.map}, rev : {w.rev}, dirty : {w.dirty},
             slot : {w.slot}, ring : {w.ring}]
  <2>1. CASE s \in b.dirty
    BY <1>w, <2>1 DEF WrittenBack, Pools
  <2>2. CASE s \notin b.dirty
    BY <1>w, <2>2 DEF WrittenBack, Pools
  <2>. QED
    BY <2>1, <2>2
<1>3. CASE w.rev[s] = ERROR_PAGE
  <2>1. Replaced(b, s) = w
    BY <1>3, <1>w DEF Replaced, WithoutMapping
  <2>. QED
    BY <1>1, <1>3, <1>f, <2>1
<1>4. CASE w.rev[s] # ERROR_PAGE
  <2>1. Replaced(b, s) = [w EXCEPT !.map[w.rev[s]] = ERROR_INDEX, !.rev[s] = ERROR_PAGE]
    BY <1>4, <1>w DEF Replaced, WithoutMapping
  <2>. QED
    BY <1>1, <1>2, <2>1
<1>. QED
  BY <1>3, <1>4

\* A page placed in a slot makes the slot the youngest.
LEMMA PlacedLinks ==
  ASSUME NEW e \in Pools, NEW s \in Slots, NEW p \in PageIds, NEW o
  PROVE  /\ Placed(e, p, s, o).ring = Access(e.ring, s)
         /\ Placed(e, p, s, o).rev = [e.rev EXCEPT ![s] = p]
<1>w. PICK w : w = WithMapping(e, p, s)
  OBVIOUS
<1>h. PICK h : h = Holding(w, s, o)
  OBVIOUS
<1>1. w = [disk |-> e.disk, map |-> [e.map EXCEPT ![p] = s],
           rev |-> [e.rev EXCEPT ![s] = p], dirty |-> e.dirty,
           slot |-> e.slot, ring |-> e.ring]
  BY <1>w DEF WithMapping, Pools
<1>2. h = [disk |-> w.disk, map |-> w.map, rev |-> w.rev, dirty |-> w.dirty,
           slot |-> [w.slot EXCEPT ![s] = o], ring |-> w.ring]
  BY <1>1, <1>h DEF Holding
<1>3. Placed(e, p, s, o) = [h EXCEPT !.ring = Access(h.ring, s)]
  BY <1>w, <1>h DEF Placed
<1>. QED
  BY <1>1, <1>2, <1>3

\* Storing into a slot moves no page.
LEMMA HeldLinks ==
  ASSUME NEW b \in Pools, NEW s, NEW o
  PROVE  /\ Dirtied(b, s).ring = b.ring /\ Dirtied(b, s).rev = b.rev
         /\ Dirtied(Holding(b, s, o), s).ring = b.ring
         /\ Dirtied(Holding(b, s, o), s).rev = b.rev
<1>h. PICK h : h = Holding(b, s, o)
  OBVIOUS
<1>1. h = [disk |-> b.disk, map |-> b.map, rev |-> b.rev, dirty |-> b.dirty,
           slot |-> [b.slot EXCEPT ![s] = o], ring |-> b.ring]
  BY <1>h DEF Holding, Pools
<1>2. Dirtied(h, s).ring = h.ring /\ Dirtied(h, s).rev = h.rev
  BY <1>1 DEF Dirtied
<1>3. Dirtied(b, s).ring = b.ring /\ Dirtied(b, s).rev = b.rev
  BY DEF Dirtied, Pools
<1>. QED
  BY <1>h, <1>1, <1>2, <1>3

\* A page in no slot is placed in the least recently used one.
LEMMA PlacedAccesses ==
  ASSUME NEW b, Sound(b), NEW p \in PageIds, b.map[p] = ERROR_INDEX, NEW o, NEW m,
         m = Placed(Replaced(b, Least(b.ring)), p, Least(b.ring), o)
  PROVE  Accessed(b, m, p)
<1>b. b \in Pools /\ MapsInvert(b)
  BY DEF Sound, Mapped
<1>s. PICK s \in Slots : s = Least(b.ring)
  BY <1>b, Fields, RingTyped
<1>e. PICK e : e = Replaced(b, s)
  OBVIOUS
<1>1. e \in Pools
  BY <1>e, ReplacedSound DEF Sound, Mapped
<1>2. e.ring = b.ring /\ e.rev = [b.rev EXCEPT ![s] = ERROR_PAGE]
  BY <1>b, <1>e, ReplacedLinks
<1>3. m.ring = Access(e.ring, s) /\ m.rev = [e.rev EXCEPT ![s] = p]
  BY <1>s, <1>e, <1>1, PlacedLinks
<1>4. m.rev = [b.rev EXCEPT ![s] = p]
  BY <1>b, <1>2, <1>3, Fields
<1>5. \A t \in Slots : b.rev[t] # p
  BY <1>b, Markers DEF MapsInvert
<1>. QED
  BY <1>s, <1>2, <1>3, <1>4, <1>5 DEF Accessed, AccessedIn

LEMMA FetchedAccesses ==
  ASSUME NEW b, Sound(b), NEW p \in PageIds, NEW c
  PROVE  Accessed(b, Fetched(b, p, c), p)
<1>b. b \in Pools /\ MapsInvert(b)
  BY DEF Sound, Mapped
<1>t. /\ b.map \in [PageIds -> Slots \cup {ERROR_INDEX}]
      /\ b.rev \in [Slots -> PageIds \cup {ERROR_PAGE}]
  BY <1>b, Fields
<1>1. CASE b.map[p] # ERROR_INDEX
  <2>s. PICK s \in Slots : s = b.map[p]
    BY <1>1, <1>t
  <2>1. Fetched(b, p, c) = [b EXCEPT !.ring = Access(b.ring, s)]
    BY <1>1, <2>s DEF Fetched
  <2>2. Fetched(b, p, c).ring = Access(b.ring, s) /\ Fetched(b, p, c).rev = b.rev
    BY <1>b, <2>1 DEF Pools
  <2>3. b.rev[s] = p /\ b.rev = [b.rev EXCEPT ![s] = p]
    BY <1>b, <1>t, <2>s DEF MapsInvert
  <2>. QED
    BY <2>2, <2>3 DEF Accessed, AccessedIn
<1>2. CASE b.map[p] = ERROR_INDEX
  <2>1. PICK o : Fetched(b, p, c) =
                   Placed(Replaced(b, Least(b.ring)), p, Least(b.ring), o)
    BY <1>2 DEF Fetched
  <2>. QED
    BY <1>2, <2>1, PlacedAccesses
<1>. QED
  BY <1>1, <1>2

LEMMA AllocatedAccesses ==
  ASSUME NEW b, Sound(b), NEW p \in PageIds, b.map[p] = ERROR_INDEX,
         NEW c \in Classes, NEW d \in Data
  PROVE  Accessed(b, Allocated(b, p, c, d), p)
<1>b. b \in Pools
  BY DEF Sound, Mapped
<1>s. PICK s \in Slots : s = Least(b.ring)
  BY <1>b, Fields, RingTyped
<1>e. PICK e : e = Replaced(b, s)
  OBVIOUS
<1>o. PICK o : o = [cls |-> Reused(e, s, c),
                    data |-> IF e.slot[s].cls = NoClass THEN d ELSE e.slot[s].data]
  OBVIOUS
<1>m. PICK m : m = Placed(e, p, s, o)
  OBVIOUS
<1>1. Sound(e) /\ Free(e, s) /\ e.map[p] \in {b.map[p], ERROR_INDEX}
  BY <1>e, ReplacedSound
<1>2. e.slot \in [Slots -> Objects]
  BY <1>1, Fields DEF Sound, Mapped
<1>3. o \in Objects /\ o.cls # NoClass
  BY <1>2, <1>o, PoolAssumption DEF Objects, Reused
<1>4. m \in Pools
  BY <1>1, <1>3, <1>m, PlacedMapped DEF Mapped
<1>5. Accessed(b, m, p)
  BY <1>s, <1>e, <1>m, PlacedAccesses
<1>6. Allocated(b, p, c, d) = Dirtied(m, s)
  BY <1>s, <1>e, <1>o, <1>m DEF Allocated
<1>7. PICK n : n = Dirtied(m, s)
  OBVIOUS
<1>8. n.ring = m.ring /\ n.rev = m.rev
  BY <1>4, <1>7, HeldLinks
<1>9. PICK t \in Slots : AccessedIn(b, m, p, t)
  BY <1>5 DEF Accessed
<1>10. AccessedIn(b, n, p, t)
  BY <1>8, <1>9 DEF AccessedIn
<1>. QED
  BY <1>6, <1>7, <1>10 DEF Accessed

\* There are Capacity slots, and finitely many pages.
LEMMA Sizes ==
  /\ IsFiniteSet(Slots) /\ Cardinality(Slots) = Capacity
  /\ IsFiniteSet(PageIds) /\ Cardinality(PageIds) = MaxPage
<1>1. IsFiniteSet(0 .. Capacity - 1) /\ Cardinality(0 .. Capacity - 1) = Capacity
  <2>1. 0 \in Int /\ Capacity - 1 \in Int /\ ~ (0 > Capacity - 1)
        /\ (Capacity - 1) - 0 + 1 = Capacity
    BY CapacityAssumption
  <2>. QED
    BY <2>1, FS_Interval
<1>2. IsFiniteSet(1 .. MaxPage) /\ Cardinality(1 .. MaxPage) = MaxPage
  <2>1. 1 \in Int /\ MaxPage \in Int /\ (1 > MaxPage => MaxPage = 0)
        /\ MaxPage - 1 + 1 = MaxPage
    BY PoolAssumption
  <2>. QED
    BY <2>1, FS_Interval
<1>. QED
  BY <1>1, <1>2 DEF Slots, PageIds

\* Pages in different slots are different.
LEMMA RevInjective ==
  ASSUME NEW b \in Pools, MapsInvert(b), NEW s \in Slots, NEW t \in Slots,
         b.rev[s] = b.rev[t], b.rev[s] # ERROR_PAGE
  PROVE  s = t
  BY Fields DEF MapsInvert

\* Every access of a page keeps the window.
LEMMA WindowKept ==
  ASSUME NEW b \in Pools, MapsInvert(b), NEW p \in PageIds, NEW m, Accessed(b, m, p),
         NEW f \in [PageIds -> SUBSET PageIds], Window(b, f)
  PROVE  Window(m, Touched(f, p))
<1>s. PICK s \in Slots : AccessedIn(b, m, p, s)
  BY DEF Accessed
<1>a. PICK a \in [Slots -> Slots] : Ordered(b.ring, a) /\ Recent(b, f, a)
  BY DEF Window
<1>g. PICK g : g = Touched(f, p)
  OBVIOUS
<1>c. PICK c : c = Aged(a, s)
  OBVIOUS
<1>t. b.rev \in [Slots -> PageIds \cup {ERROR_PAGE}] /\ b.ring \in Rings
  BY Fields
<1>1. c \in [Slots -> Slots] /\ Ordered(m.ring, c)
  BY <1>s, <1>a, <1>c, <1>t, AccessKeepsOrder DEF AccessedIn
<1>2. /\ \A t \in Slots : m.rev[t] = IF t = s THEN p ELSE b.rev[t]
      /\ m.rev \in [Slots -> PageIds \cup {ERROR_PAGE}]
      /\ \A q \in PageIds : g[q] = IF q = p THEN {} ELSE f[q] \cup {p}
  BY <1>s, <1>t, <1>g DEF AccessedIn, Touched
<1>3. \A t \in Slots : /\ a[t] \in Nat /\ a[t] <= Capacity - 1
                       /\ c[t] = IF t = s THEN 0
                                 ELSE IF a[t] < a[s] THEN a[t] + 1 ELSE a[t]
  BY <1>c, SlotFacts DEF Aged
<1>n. p # ERROR_PAGE
  BY Markers
<1>4. ASSUME NEW u \in Slots, NEW t \in Slots, m.rev[u] # ERROR_PAGE, c[t] < c[u]
      PROVE  m.rev[t] \in g[m.rev[u]]
  <2>1. u # s /\ c[u] > 0
    BY <1>3, <1>4
  <2>2. m.rev[u] = b.rev[u] /\ b.rev[u] \in PageIds
    BY <1>2, <1>4, <1>t, <2>1
  <2>3. b.rev[u] # p
    BY <1>s, <1>n, <2>1, RevInjective DEF AccessedIn
  <2>4. g[m.rev[u]] = f[b.rev[u]] \cup {p}
    BY <1>2, <2>2, <2>3
  <2>5. CASE t = s
    BY <1>2, <2>4, <2>5
  <2>6. CASE t # s
    <3>1. a[t] < a[u]
      BY <1>3, <1>4, <2>1, <2>6
    <3>2. b.rev[t] \in f[b.rev[u]]
      BY <1>a, <2>2, <3>1, <1>4 DEF Recent
    <3>. QED
      BY <1>2, <2>4, <2>6, <3>2
  <2>. QED
    BY <2>5, <2>6
<1>5. ASSUME NEW q \in PageIds, \A t \in Slots : m.rev[t] # q
      PROVE  Capacity <= Cardinality(g[q])
  <2>1. q # p /\ g[q] = f[q] \cup {p} /\ g[q] \in SUBSET PageIds
    <3>1. m.rev[s] = p
      BY <1>2
    <3>2. q # p
      BY <1>5, <3>1
    <3>3. g[q] = f[q] \cup {p}
      BY <1>2, <3>2
    <3>. QED
      BY <3>2, <3>3
  <2>2. IsFiniteSet(g[q]) /\ Cardinality(g[q]) \in Nat
    BY <2>1, Sizes, FS_Subset, FS_CardinalityType
  <2>3. CASE b.rev[s] # q
    <3>1. \A t \in Slots : b.rev[t] # q
      BY <1>2, <1>5, <2>3
    <3>2. Capacity <= Cardinality(f[q])
      BY <1>a, <3>1 DEF Recent
    <3>3. f[q] \in SUBSET g[q]
      BY <2>1
    <3>4. Cardinality(f[q]) <= Cardinality(g[q]) /\ IsFiniteSet(f[q])
      BY <2>2, <3>3, FS_Subset
    <3>5. Cardinality(f[q]) \in Nat
      BY <3>4, FS_CardinalityType
    <3>. QED
      BY <2>2, <3>2, <3>4, <3>5, CapacityAssumption
  <2>4. CASE b.rev[s] = q
    <3>1. s = Least(b.ring) /\ \A t \in Slots : b.rev[t] # p
      BY <1>s, <2>1, <2>4 DEF AccessedIn
    <3>2. a[s] = Capacity - 1
      BY <1>a, <1>t, <3>1, LeastIsTail
    <3>3. ASSUME NEW t \in Slots PROVE m.rev[t] \in g[q]
      <4>1. CASE t = s
        BY <1>2, <2>1, <4>1
      <4>2. CASE t # s
        <5>1. a[t] # a[s]
          BY <1>a, <4>2 DEF Ordered, AgesDiffer
        <5>2. a[t] < a[s]
          BY <1>3, <3>2, <5>1, SlotFacts
        <5>3. b.rev[t] \in f[q]
          BY <1>a, <2>4, <5>2, Markers DEF Recent
        <5>. QED
          BY <1>2, <2>1, <4>2, <5>3
      <4>. QED
        BY <4>1, <4>2
    <3>4. ASSUME NEW t \in Slots, NEW u \in Slots, m.rev[t] = m.rev[u] PROVE t = u
      <4>1. m.rev[t] \in PageIds /\ m.rev[t] # ERROR_PAGE
        BY <2>1, <3>3, Markers
      <4>2. CASE t = s \/ u = s
        BY <1>2, <3>1, <3>4, <4>2
      <4>3. CASE t # s /\ u # s
        BY <1>2, <3>4, <4>1, <4>3, RevInjective
      <4>. QED
        BY <4>2, <4>3
    <3>5. m.rev \in Injection(Slots, g[q])
      <4>1. m.rev \in [Slots -> g[q]]
        BY <1>2, <3>3
      <4>. QED
        BY <1>2, <3>4, <4>1 DEF Injection, IsInjective
    <3>6. Cardinality(Slots) <= Cardinality(g[q])
      BY <2>2, <3>5, FS_Injection
    <3>. QED
      BY <3>6, Sizes
  <2>. QED
    BY <2>3, <2>4
<1>6. Recent(m, g, c)
  BY <1>4, <1>5 DEF Recent
<1>. QED
  BY <1>1, <1>6, <1>g DEF Window

\* An empty pool: no page is cached, and none was accessed lately.
LEMMA OpenedWindow ==
  ASSUME MaxPage >= Capacity, NEW file
  PROVE  Window(Opened(file), [p \in PageIds |-> PageIds])
<1>b. PICK b : b = Opened(file)
  OBVIOUS
<1>f. PICK f : f = [p \in PageIds |-> PageIds]
  OBVIOUS
<1>a. PICK a : a = [s \in Slots |-> s]
  OBVIOUS
<1>1. b.ring = NewRing /\ \A s \in Slots : b.rev[s] = ERROR_PAGE
  BY <1>b DEF Opened
<1>2. a \in [Slots -> Slots] /\ Ordered(b.ring, a)
  BY <1>1, <1>a, NewRingOrdered
<1>3. \A p \in PageIds : Capacity <= Cardinality(f[p])
  BY <1>f, Sizes, CapacityAssumption, PoolAssumption
<1>4. Recent(b, f, a)
  BY <1>1, <1>3 DEF Recent
<1>. QED
  BY <1>b, <1>f, <1>2, <1>4 DEF Window

\* The ring and the reverse map are all that the window depends on.
LEMMA WindowLinks ==
  ASSUME NEW b, NEW m, m.ring = b.ring, m.rev = b.rev, NEW f, Window(b, f)
  PROVE  Window(m, f)
  BY DEF Window, Recent

LEMMA WindowStep ==
  ASSUME MaxPage >= Capacity, IInv, Window(pool, after), [Next]_vars
  PROVE  Window(pool', after')
<1>i. /\ pool \in Pools /\ MapsInvert(pool) /\ Sound(pool)
      /\ after \in [PageIds -> SUBSET PageIds]
  BY DEF IInv, TypeOK, Sound, Mapped
<1>1. ASSUME NEW p \in PageIds, ReadOp(p) PROVE Window(pool', after')
  BY <1>i, <1>1, FetchedAccesses, WindowKept DEF ReadOp, Touch, Touched
<1>2. ASSUME NEW p \in PageIds, NEW d \in Data, WriteOp(p, d)
      PROVE  Window(pool', after')
  <2>f. PICK f : f = Fetched(pool, p, ClassOf[p])
    OBVIOUS
  <2>1. Window(f, after')
    BY <1>i, <1>2, <2>f, FetchedAccesses, WindowKept DEF WriteOp, Touch, Touched
  <2>2. f \in Pools
    BY <1>i, <2>f, ClassTyped, FetchedSound DEF Sound, Mapped
  <2>3. PICK e \in Outcomes(f, p, d) : pool' = Stored(f, p, e)
    BY <1>2, <2>f DEF WriteOp
  <2>4. pool'.ring = f.ring /\ pool'.rev = f.rev
    BY <2>2, <2>3, HeldLinks DEF Stored
  <2>. QED
    BY <2>1, <2>4, WindowLinks
<1>3. ASSUME NEW p \in PageIds, NEW d \in Data, ReplacePageSpecific(p, d)
      PROVE  Window(pool', after')
  <2>f. PICK f : f = Fetched(pool, p, ClassOf[p])
    OBVIOUS
  <2>1. Window(f, after')
    BY <1>i, <1>3, <2>f, FetchedAccesses, WindowKept
    DEF ReplacePageSpecific, Touch, Touched
  <2>2. f \in Pools
    BY <1>i, <2>f, ClassTyped, FetchedSound DEF Sound, Mapped
  <2>3. pool' = Installed(pool, p, d)
    BY <1>3 DEF ReplacePageSpecific
  <2>4. pool'.ring = f.ring /\ pool'.rev = f.rev
    BY <2>f, <2>2, <2>3, HeldLinks DEF Installed
  <2>. QED
    BY <2>1, <2>4, WindowLinks
<1>4. ASSUME NEW d \in Data, Alloc(d) PROVE Window(pool', after')
  <2>p. PICK p \in PageIds : p = pageCnt
    BY <1>4 DEF Alloc
  <2>1. pool.map[p] = ERROR_INDEX /\ ClassOf[p] \in Classes
    BY <2>p, ClassTyped, PoolAssumption DEF IInv, Fresh, PageIds
  <2>2. pool' = Allocated(pool, p, ClassOf[p], d) /\ after' = Touched(after, p)
    BY <1>4, <2>p DEF Alloc, Touch, Touched
  <2>3. Accessed(pool, pool', p)
    BY <1>i, <2>1, <2>2, AllocatedAccesses
  <2>. QED
    BY <1>i, <2>2, <2>3, WindowKept
<1>5. CASE ExitAndReopen
  BY <1>5, OpenedWindow DEF ExitAndReopen
<1>6. CASE UNCHANGED vars
  BY <1>6 DEF vars
<1>. QED
  BY <1>1, <1>2, <1>3, <1>4, <1>5, <1>6 DEF Next

\* split() and insert_parent() may go on using a reference while fewer than
\* Capacity other pages were accessed: whatever the mix of reads, writes,
\* allocations and commits, the page is still in the cache. MaxPage is the
\* bound of the model; the cache must be able to be full of pages.
THEOREM ReferencesLast == MaxPage >= Capacity => (Spec => []RefWindow)
<1> SUFFICES ASSUME MaxPage >= Capacity PROVE Spec => []RefWindow
  OBVIOUS
<1>1. Init => Window(pool, after)
  BY OpenedWindow DEF Init
<1>2. IInv /\ Window(pool, after) /\ [Next]_vars => Window(pool, after)'
  BY WindowStep
<1>3. IInv /\ Window(pool, after) => RefWindow
  <2> SUFFICES ASSUME IInv, Window(pool, after), NEW p \in PageIds,
                      pool.map[p] = ERROR_INDEX
               PROVE  ~ (Cardinality(after[p]) < Capacity)
    BY DEF RefWindow
  <2>1. \A s \in Slots : pool.rev[s] # p
    BY Markers DEF IInv, Sound, Mapped, MapsInvert
  <2>2. Capacity <= Cardinality(after[p])
    BY <2>1 DEF Window, Recent
  <2>3. IsFiniteSet(after[p])
    BY Sizes, FS_Subset DEF IInv, TypeOK
  <2>4. Cardinality(after[p]) \in Nat
    BY <2>3, FS_CardinalityType
  <2>. QED
    BY <2>2, <2>4, CapacityAssumption
<1>. QED
  BY <1>1, <1>2, <1>3, Inductive, PTL DEF Spec
-----------------------------------------------------------------------------
\* What a cast gives or leaves is what the page store allows of that page.
LEMMA OutcomesSeen ==
  ASSUME IInv', NEW p \in PageIds, pool'.map[p] # ERROR_INDEX, NEW d \in Data
  PROVE  Outcomes(pool', p, d) \subseteq Store!Seen(p, d)
  BY DEF Outcomes, Store!Seen, Garbled

LEMMA ViewIsViewOf == View = ViewOf(pool)
  BY DEF View, ViewOf

LEMMA StoreInit == Init => Store!Init
<1> SUFFICES ASSUME Init PROVE Store!Init
  OBVIOUS
<1>1. PICK file \in [PageIds \cup {ERROR_PAGE} -> Data] : pool = Opened(file)
  BY DEF Init
<1>2. View = [p \in PageIds |-> file[p]]
  BY <1>1, OpenedSound, ViewIsViewOf
<1>3. View \in [PageIds -> Data]
  BY <1>2
<1>. QED
  BY <1>3 DEF Init, Store!Init, Store!PageIds, PageIds, SomeData, ERROR_PAGE

\* Every call of the pool is a read, a write or an allocation of the page
\* store, or changes nothing its users see.
LEMMA StoreStep ==
  ASSUME IInv, [Next]_vars
  PROVE  [Store!Next]_(Store!vars)
<1>v. View = ViewOf(pool) /\ View' = ViewOf(pool')
  BY ViewIsViewOf DEF View, ViewOf
<1>1. ASSUME NEW p \in PageIds, ReadOp(p) PROVE Store!Read(p)
  <2>1. /\ IInv' /\ ViewOf(pool') = ViewOf(pool)
        /\ pool'.map[p] \in Slots
    BY <1>1, ReadStep
  <2>2. PICK d \in Outcomes(pool', p, pool'.slot[pool'.map[p]].data) :
          ret' = [page |-> p, data |-> d]
    BY <1>1 DEF ReadOp
  <2>3. pool'.slot[pool'.map[p]].data = View[p]
    BY <1>v, <2>1, Markers DEF ViewOf
  <2>4. View[p] \in Data
    BY <2>1, <2>3, Fields DEF IInv, Sound, Mapped, Objects
  <2>5. d \in Store!Seen(p, View[p])
    BY <2>1, <2>2, <2>3, <2>4, Markers, OutcomesSeen
  <2>. QED
    BY <1>1, <1>v, <2>1, <2>2, <2>5 DEF ReadOp, Store!Read, Store!Existing, Existing
<1>2. ASSUME NEW p \in PageIds, NEW new_data \in Data, WriteOp(p, new_data)
      PROVE  Store!Write(p, new_data)
  <2>1. PICK d \in Outcomes(pool', p, new_data) :
          IInv' /\ pool'.map[p] \in Slots /\ ViewOf(pool') = [ViewOf(pool) EXCEPT ![p] = d]
    BY <1>2, WriteStep
  <2>2. d \in Store!Seen(p, new_data)
    BY <2>1, Markers, OutcomesSeen
  <2>. QED
    BY <1>2, <1>v, <2>1, <2>2 DEF WriteOp, Store!Write, Store!Existing, Existing
<1>3. ASSUME NEW p \in PageIds, NEW d \in Data, ReplacePageSpecific(p, d)
      PROVE  Store!Write(p, d)
  <2>1. d \in Store!Seen(p, d)
    BY DEF Store!Seen
  <2>. QED
    BY <1>3, <1>v, <2>1, ReplacePageSpecificStep
    DEF ReplacePageSpecific, Store!Write, Store!Existing, Existing
<1>4. ASSUME NEW d \in Data, Alloc(d) PROVE \E body \in Data : Store!Alloc(body)
  <2>1. PICK body \in Data : ViewOf(pool') = [ViewOf(pool) EXCEPT ![pageCnt] = body]
    BY <1>4, AllocStep DEF OnlyAt
  <2>2. Store!Alloc(body)
    BY <1>4, <1>v, <2>1 DEF Alloc, Store!Alloc, Store!PageIds, PageIds
  <2>. QED
    BY <2>2
<1>5. CASE ExitAndReopen
  BY <1>5, <1>v, ExitStep DEF ExitAndReopen, Store!vars
<1>6. CASE UNCHANGED vars
  BY <1>6, <1>v, StutterStep DEF vars, Store!vars
<1>7. PageIds = Store!PageIds
  BY DEF PageIds, Store!PageIds
<1>. QED
  BY <1>1, <1>2, <1>3, <1>4, <1>5, <1>6, <1>7 DEF Next, Store!Next

\* The cache implements the page store, whatever the classes of the pages:
\* whatever is evicted, written back, re-read, handed over by a transaction or
\* reopened, a read of a page in an object of its class returns the last write
\* to it, and no call changes another page than its own.
THEOREM PoolIsAPageStore == Spec => ImplementsPageStore
<1>1. IInv /\ [Next]_vars => [Store!Next]_(Store!vars)
  BY StoreStep
<1>. QED
  BY <1>1, StoreInit, Inductive, PTL DEF Spec, ImplementsPageStore, Store!Spec
=============================================================================
