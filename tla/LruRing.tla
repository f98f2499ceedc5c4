------------------------------ MODULE LruRing ------------------------------
(***************************************************************************)
(* The LRU list of the page cache (fs/lru_cache.h over utils/array_list.h):*)
(* a circular doubly linked list of all cache slots held in one array of   *)
(* (prev, next) pairs, and the position of its most recently used slot.    *)
(* The operators are pure: a ring is a record [prev, next, head].          *)
(***************************************************************************)
EXTENDS Naturals

CONSTANT Capacity   \* number of cache slots, CACHE_CAPACITY in io_manager

ASSUME CapacityAssumption == Capacity \in Nat \ {0}

Slots == 0 .. Capacity - 1

Rings == [prev : [Slots -> Slots], next : [Slots -> Slots], head : Slots]

\* Variant: the circle is not closed.
NewRingOpen ==
  [prev |-> [s \in Slots |-> s - 1], next |-> [s \in Slots |-> s + 1], head |-> 0]

\* array_list(size) links the slots in index order and closes the circle;
\* lru_cache(size) starts with slot 0 as the head.
NewRing ==
  [prev |-> [s \in Slots |-> IF s = 0 THEN Capacity - 1 ELSE s - 1],
   next |-> [s \in Slots |-> IF s = Capacity - 1 THEN 0 ELSE s + 1],
   head |-> 0]

\* least(): the tail, i.e. the slot before the head.
Least(r) == r.prev[r.head]

\* The first half of access(pos): pos is unlinked from its neighbours.
Unlinked(r, pos) ==
  [r EXCEPT !.next[r.prev[pos]] = r.next[pos],
            !.prev[r.next[pos]] = r.prev[pos]]

\* The second half: pos goes between the tail and the old head and becomes
\* the head.
LinkedBehind(r, tail, pos) ==
  [prev |-> [r.prev EXCEPT ![r.head] = pos, ![pos] = tail],
   next |-> [r.next EXCEPT ![tail] = pos, ![pos] = r.head],
   head |-> pos]

\* The tail is read AFTER the unlinking: it may be pos itself before it.
LinkedAsHead(r, pos) == LinkedBehind(r, Least(r), pos)

\* Variant: the tail is read before the unlinking.
AccessStaleTail(r, pos) ==
  IF pos = r.head THEN r ELSE LinkedBehind(Unlinked(r, pos), Least(r), pos)

\* access(pos): move pos to the front.
Access(r, pos) ==
  IF pos = r.head THEN r ELSE LinkedAsHead(Unlinked(r, pos), pos)
=============================================================================
