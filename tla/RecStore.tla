------------------------------ MODULE RecStore ------------------------------
(***************************************************************************)
(* Where records are put: add_rec and get_rec of fs/rec_manager.h over the *)
(* slotted pages of page/rec_page.cpp. Slots grow from the left behind the *)
(* fixed fields, records from the right; nothing is ever taken out. All    *)
(* quantities are bytes; the bytes themselves are known by their extents.  *)
(***************************************************************************)
EXTENDS Integers, Sequences

CONSTANTS PAGE_SIZE,  \* 8192
          end_fixed,  \* the fixed fields: 20
          SlotSize,   \* sizeof(offset_t): 4
          Sizes,      \* the lengths of records that are added
          MaxPages    \* bound: record pages

ERROR_PAGE == 0
PageIds == 1 .. MaxPages

ASSUME RecStoreAssumption ==
  /\ PAGE_SIZE \in Nat /\ end_fixed \in Nat \ {0} /\ SlotSize \in Nat \ {0}
  /\ end_fixed <= PAGE_SIZE
  /\ Sizes \subseteq 1 .. PAGE_SIZE
  /\ MaxPages \in Nat

VARIABLES
  pages,     \* rec_page by id: [end_free, ptr]; ptr_cnt is the length of ptr
  last_rec,  \* of the head page: the page that records go to
  page_cnt,  \* pages allocated
  placed     \* ghost: what add_rec was given, [page, slot, start, size]

vars == <<pages, last_rec, page_cnt, placed>>

\* The constructor of rec_page.
NewPage == [end_free |-> PAGE_SIZE, ptr |-> <<>>]

Init ==
  /\ pages = [p \in PageIds |-> NewPage]
  /\ last_rec = ERROR_PAGE
  /\ page_cnt = 0
  /\ placed = {}

left_space(p) == end_fixed + SlotSize * Len(p.ptr)

\* Variant: the line this one replaced; the unsigned difference wraps.
can_storeWraps(p, n) ==
  LET left == p.end_free - n - SlotSize IN left < 0 \/ left >= left_space(p)

can_storeTight(p, n) == p.end_free >= left_space(p) + n   \* Variant: no room for the slot.
can_store(p, n) == p.end_free > left_space(p) + n + SlotSize

\* rec_page::add_rec: the record ends where the free bytes ended.
Stored(p, n) == [end_free |-> p.end_free - n, ptr |-> Append(p.ptr, p.end_free - n)]

\* The record goes to page id, whose content is p; its position is
\* (slot << 32) | id.
AddTo(id, p, n) ==
  /\ pages' = [pages EXCEPT ![id] = Stored(p, n)]
  /\ placed' = placed \cup
       {[page |-> id, slot |-> Len(p.ptr), start |-> p.end_free - n, size |-> n]}

AddHere(n) ==
  /\ last_rec # ERROR_PAGE
  /\ can_store(pages[last_rec], n)
  /\ AddTo(last_rec, pages[last_rec], n)
  /\ UNCHANGED <<last_rec, page_cnt>>

\* Variant: the head is not told of the new page.
AddNewForgotten(n) ==
  /\ last_rec # ERROR_PAGE => ~can_store(pages[last_rec], n)
  /\ page_cnt < MaxPages
  /\ AddTo(IF last_rec = ERROR_PAGE THEN 1 ELSE last_rec, NewPage, n)
  /\ last_rec' = IF last_rec = ERROR_PAGE THEN 1 ELSE last_rec
  /\ page_cnt' = page_cnt + 1

\* No page, or no room: a new page, of which nothing is asked.
AddNew(n) ==
  /\ last_rec # ERROR_PAGE => ~can_store(pages[last_rec], n)
  /\ page_cnt < MaxPages
  /\ page_cnt' = page_cnt + 1
  /\ last_rec' = page_cnt'
  /\ AddTo(last_rec', NewPage, n)

add_rec(n) == AddHere(n) \/ AddNew(n)

\* get_rec and get_rec_size, which keeps no length: the record ends where the
\* one before it starts.
get_rec(id, slot) == pages[id].ptr[slot + 1]

get_rec_sizeLast(id, slot) ==   \* Variant: as if it were the page's last.
  pages[id].ptr[slot + 1] - pages[id].end_free

get_rec_size(id, slot) ==
  IF slot = 0 THEN PAGE_SIZE - pages[id].ptr[1]
  ELSE pages[id].ptr[slot] - pages[id].ptr[slot + 1]

Next == \E n \in Sizes : add_rec(n)

Spec == Init /\ [][Next]_vars
-----------------------------------------------------------------------------
\* Every variable has its type; an offset never runs out of its page.
Offsets == 0 .. PAGE_SIZE

Places ==
  [page : PageIds, slot : Nat, start : Offsets, size : Sizes]

TypeOK ==
  /\ pages \in [PageIds -> [end_free : Offsets, ptr : Seq(Offsets)]]
  /\ last_rec \in {ERROR_PAGE} \cup PageIds
  /\ page_cnt \in 0 .. MaxPages
  /\ placed \in SUBSET Places

\* No two records share a byte, and none covers the fixed fields or the slots
\* of its page, however many slots came after it.
Overlap(a, b) == a.start < b.start + b.size /\ b.start < a.start + a.size

RecordsApart ==
  \A a \in placed :
    /\ a.start >= left_space(pages[a.page])
    /\ a.start + a.size <= PAGE_SIZE
    /\ \A b \in placed \ {a} : a.page = b.page => ~Overlap(a, b)

\* Every position that was handed out leads back to exactly the bytes that
\* were stored under it, for good: get_rec finds the start, and get_rec_size,
\* which has only the slots to go by, the length.
ReadsBack ==
  \A a \in placed :
    /\ a.slot < Len(pages[a.page].ptr)
    /\ get_rec(a.page, a.slot) = a.start
    /\ get_rec_size(a.page, a.slot) = a.size
=============================================================================
