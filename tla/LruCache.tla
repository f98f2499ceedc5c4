------------------------------ MODULE LruCache ------------------------------
(***************************************************************************)
(* lru_cache as a state machine. io_manager calls access(slot) for the     *)
(* slot of every page it touches and takes least() as the slot to evict;   *)
(* both promise "least recently used" although the object keeps no time,   *)
(* only links. `age` is a ghost: age[s] is the number of slots used more   *)
(* recently than s, which is what an LRU policy is about. The names start  *)
(* with Lru where the page cache, whose proofs use this module, has the    *)
(* plain one.                                                              *)
(***************************************************************************)
EXTENDS LruRing

VARIABLES
  ring,   \* the object: links and head
  age     \* ghost: how many slots were used since s was

lruVars == <<ring, age>>

LruInit ==
  /\ ring = NewRing
  /\ age = [s \in Slots |-> s]

\* The reference LRU policy: pos becomes the youngest slot, and only the
\* slots that were younger than pos get older.
Aged(a, pos) ==
  [s \in Slots |-> IF s = pos THEN 0
                   ELSE IF a[s] < a[pos] THEN a[s] + 1 ELSE a[s]]

Use(pos) ==
  /\ ring' = Access(ring, pos)
  /\ age' = Aged(age, pos)

LruNext == \E pos \in Slots : Use(pos)

LruSpec == LruInit /\ [][LruNext]_lruVars
-----------------------------------------------------------------------------
\* The state is well typed: every link names a slot and ages are 0..Capacity-1.
LruTypeOK ==
  /\ ring \in Rings
  /\ age \in [Slots -> Slots]

\* Walking `next` from the head visits every slot exactly once, youngest
\* first, and the last one leads back to the head: the relinking of
\* access() neither loses a slot, nor splits the circle, nor reorders the
\* slots it does not move, even when pos is the tail or there are two slots.
RingIsAgeOrder ==
  /\ age[ring.head] = 0
  /\ \A s \in Slots :
       /\ age[s] < Capacity - 1 => age[ring.next[s]] = age[s] + 1
       /\ age[s] = Capacity - 1 => ring.next[s] = ring.head

\* The two directions of the list agree: prev is the inverse of next. The
\* code follows prev (least) and next (unlink) of slots it wrote in
\* different calls.
LinksAgree ==
  \A s \in Slots : ring.prev[ring.next[s]] = s /\ ring.next[ring.prev[s]] = s

\* The slot that least() hands to replace() is the one that was not used
\* for the longest time: every other slot was used after it.
VictimIsOldest == \A s \in Slots : age[s] <= age[Least(ring)]
=============================================================================
