--------------------------- MODULE RowStoreProofs ---------------------------
(***************************************************************************)
(* Proofs about RowStore. Of the pages (RecStore): for every size of page, *)
(* fixed part and slot, records that a new page has room for stay apart    *)
(* and are found again. Of the columns (RowLayout): however many there     *)
(* are, which column the primary key is and when its value is taken from   *)
(* it, as long as no key clause was refused. Of the rows: if the longest   *)
(* fits a new page, which rec_manager.h (line 45) does not check, then     *)
(* whatever the columns, the strings and the number of rows, each reads    *)
(* back as it was inserted, because the places within a row are sums of    *)
(* the sizes before them and the rows are where the records are.           *)
(***************************************************************************)
EXTENDS RowStore, WellFoundedInduction, TLAPS

\* What add_rec assumes of its records and does not check.
SizesFit == \A n \in Sizes : n <= PAGE_SIZE - end_fixed - SlotSize

\* The pages that are in use are the first ones, and the last of them is the
\* page of the head.
PagesInUse ==
  /\ last_rec = page_cnt
  /\ \A p \in PageIds : p > page_cnt => pages[p] = NewPage

\* In a page, slots and free bytes are in their order.
Sorted(p) ==
  /\ p.end_free >= left_space(p)
  /\ \A i \in 1 .. Len(p.ptr) : p.end_free <= p.ptr[i]
  /\ \A i, j \in 1 .. Len(p.ptr) : i < j => p.ptr[j] <= p.ptr[i]
  /\ p.end_free = IF Len(p.ptr) = 0 THEN PAGE_SIZE ELSE p.ptr[Len(p.ptr)]

PagesSorted == \A p \in PageIds : Sorted(pages[p])

\* A record lies between its slot's offset and that of the slot before it.
EndOf(p, slot) == IF slot = 0 THEN PAGE_SIZE ELSE p.ptr[slot]

Located(a, p) ==
  /\ a.slot < Len(p.ptr)
  /\ a.start = p.ptr[a.slot + 1]
  /\ a.start + a.size = EndOf(p, a.slot)

PlacesLocated == \A a \in placed : Located(a, pages[a.page])

IInv == TypeOK /\ PagesInUse /\ PagesSorted /\ PlacesLocated
-----------------------------------------------------------------------------
\* Slots and fixed fields take a natural number of bytes.
LEMMA LeftSpaceType ==
  ASSUME NEW p, Len(p.ptr) \in Nat
  PROVE  left_space(p) \in Nat
<1> DEFINE slots == SlotSize * Len(p.ptr)
<1>1. SlotSize \in Nat /\ end_fixed \in Nat
  BY RecStoreAssumption
<1>2. slots \in Nat
  BY <1>1
<1>3. left_space(p) = end_fixed + slots
  BY DEF left_space
<1> HIDE DEF slots
<1> QED BY <1>1, <1>2, <1>3

\* The page that a record goes to, once the room for it is there.
LEMMA RoomForRecord ==
  ASSUME NEW p \in [end_free : Offsets, ptr : Seq(Offsets)], NEW n \in Sizes,
         NEW pid \in PageIds,
         Sorted(p),
         p.end_free >= left_space(p) + n + SlotSize
  PROVE  /\ Stored(p, n) \in [end_free : Offsets, ptr : Seq(Offsets)]
         /\ Sorted(Stored(p, n))
         /\ \A a \in Places : Located(a, p) => Located(a, Stored(p, n))
         /\ [page |-> pid, slot |-> Len(p.ptr), start |-> p.end_free - n,
             size |-> n] \in Places
         /\ Located([page |-> pid, slot |-> Len(p.ptr), start |-> p.end_free - n,
                     size |-> n], Stored(p, n))
<1> DEFINE q == Stored(p, n)
           s == p.end_free - n
<1>0. /\ PAGE_SIZE \in Nat /\ end_fixed \in Nat /\ SlotSize \in Nat
      /\ n \in 1 .. PAGE_SIZE /\ p.end_free \in 0 .. PAGE_SIZE
      /\ Len(p.ptr) \in Nat /\ p.ptr \in Seq(0 .. PAGE_SIZE)
  BY RecStoreAssumption DEF Offsets
<1>1. SlotSize * Len(p.ptr) \in Nat /\ SlotSize * (Len(p.ptr) + 1) = SlotSize * Len(p.ptr) + SlotSize
  BY <1>0
<1>2. s \in 0 .. PAGE_SIZE /\ s <= p.end_free
  <2>1. left_space(p) \in Nat
    BY <1>0, LeftSpaceType
  <2>2. n \in Nat /\ p.end_free \in Nat /\ p.end_free <= PAGE_SIZE
    BY <1>0
  <2>3. s \in Int /\ 0 <= s /\ s <= p.end_free
    BY <2>1, <2>2, <1>0
  <2> QED BY <2>2, <2>3, <1>0
<1>3. /\ q.end_free = s
      /\ q.ptr = Append(p.ptr, s)
      /\ Len(q.ptr) = Len(p.ptr) + 1
      /\ q.ptr[Len(p.ptr) + 1] = s
      /\ \A i \in 1 .. Len(p.ptr) : q.ptr[i] = p.ptr[i]
  BY <1>0, <1>2 DEF Stored
<1>4. q \in [end_free : Offsets, ptr : Seq(Offsets)]
  BY <1>0, <1>2 DEF Stored, Offsets
<1>5. \A i \in 1 .. Len(p.ptr) : p.ptr[i] \in 0 .. PAGE_SIZE
  BY <1>0
<1>6. Sorted(q)
  <2>1. q.end_free >= left_space(q)
    <3>1. left_space(p) \in Nat
      BY <1>0, LeftSpaceType
    <3>2. left_space(q) = left_space(p) + SlotSize
      BY <1>0, <1>1, <1>3 DEF left_space
    <3> QED BY <1>0, <1>2, <1>3, <3>1, <3>2
  <2>2. \A i \in 1 .. Len(q.ptr) : q.end_free <= q.ptr[i]
    BY <1>0, <1>2, <1>3, <1>5 DEF Sorted
  <2>3. ASSUME NEW i \in 1 .. Len(q.ptr), NEW j \in 1 .. Len(q.ptr), i < j
        PROVE  q.ptr[j] <= q.ptr[i]
    <3>1. i \in 1 .. Len(p.ptr) /\ q.ptr[i] = p.ptr[i]
      BY <1>0, <1>3, <2>3
    <3>2. CASE j = Len(p.ptr) + 1
      BY <3>1, <3>2, <1>0, <1>2, <1>3, <1>5 DEF Sorted
    <3>3. CASE j \in 1 .. Len(p.ptr)
      BY <3>1, <3>3, <1>3, <2>3 DEF Sorted
    <3> QED BY <1>0, <1>3, <3>2, <3>3
  <2>4. q.end_free = IF Len(q.ptr) = 0 THEN PAGE_SIZE ELSE q.ptr[Len(q.ptr)]
    BY <1>0, <1>3
  <2> QED BY <2>1, <2>2, <2>3, <2>4 DEF Sorted
<1>7. ASSUME NEW a \in Places, Located(a, p)
      PROVE  Located(a, q)
  <2>1. a.slot \in Nat /\ a.slot < Len(p.ptr)
    BY <1>7 DEF Places, Located
  <2>2. q.ptr[a.slot + 1] = p.ptr[a.slot + 1] /\ EndOf(q, a.slot) = EndOf(p, a.slot)
    <3>1. a.slot + 1 \in 1 .. Len(p.ptr) /\ (a.slot # 0 => a.slot \in 1 .. Len(p.ptr))
      BY <1>0, <2>1
    <3>2. q.ptr[a.slot + 1] = p.ptr[a.slot + 1]
      BY <1>3, <3>1
    <3>3. a.slot # 0 => q.ptr[a.slot] = p.ptr[a.slot]
      BY <1>3, <3>1
    <3> QED BY <3>2, <3>3 DEF EndOf
  <2> QED BY <1>0, <1>3, <1>7, <2>1, <2>2 DEF Located
<1>8. Located([page |-> pid, slot |-> Len(p.ptr), start |-> s, size |-> n], q)
  <2>1. EndOf(q, Len(p.ptr)) = p.end_free
    BY <1>0, <1>3 DEF EndOf, Sorted
  <2> QED BY <1>0, <1>2, <1>3, <2>1 DEF Located
<1>9. [page |-> pid, slot |-> Len(p.ptr), start |-> s, size |-> n] \in Places
  BY <1>0, <1>2 DEF Places, Offsets
<1> QED BY <1>4, <1>6, <1>7, <1>8, <1>9
-----------------------------------------------------------------------------
\* add_rec puts a record in one page, which has the room, and leaves the
\* others alone.
LEMMA AddToPreserves ==
  ASSUME IInv, NEW n \in Sizes, NEW pid \in PageIds,
         AddTo(pid, pages[pid], n),
         pages[pid].end_free >= left_space(pages[pid]) + n + SlotSize
  PROVE  /\ pages' \in [PageIds -> [end_free : Offsets, ptr : Seq(Offsets)]]
         /\ placed' \in SUBSET Places
         /\ PagesSorted' /\ PlacesLocated'
<1> DEFINE p == pages[pid]
           q == Stored(p, n)
           new == [page |-> pid, slot |-> Len(p.ptr), start |-> p.end_free - n, size |-> n]
<1>1. p \in [end_free : Offsets, ptr : Seq(Offsets)] /\ Sorted(p)
  BY DEF IInv, TypeOK, PagesSorted
<1>2. /\ q \in [end_free : Offsets, ptr : Seq(Offsets)]
      /\ Sorted(q)
      /\ \A a \in Places : Located(a, p) => Located(a, q)
      /\ new \in Places
      /\ Located(new, q)
  BY <1>1, RoomForRecord
<1>3. /\ pages' = [pages EXCEPT ![pid] = q]
      /\ placed' = placed \cup {new}
  BY DEF AddTo
<1>4. pages' \in [PageIds -> [end_free : Offsets, ptr : Seq(Offsets)]]
  BY <1>2, <1>3 DEF IInv, TypeOK
<1>5. placed' \in SUBSET Places
  BY <1>2, <1>3 DEF IInv, TypeOK
<1>6. /\ pages'[pid] = q
      /\ \A r \in PageIds \ {pid} : pages'[r] = pages[r]
  BY <1>3 DEF IInv, TypeOK
<1>7. PagesSorted'
  <2> SUFFICES ASSUME NEW r \in PageIds PROVE Sorted(pages'[r])
    BY DEF PagesSorted, Sorted, left_space
  <2> QED BY <1>2, <1>6 DEF IInv, PagesSorted
<1>8. PlacesLocated'
  <2> SUFFICES ASSUME NEW a \in placed' PROVE Located(a, pages'[a.page])
    BY DEF PlacesLocated, Located, EndOf
  <2>1. CASE a = new
    <3>1. a.page = pid BY <2>1
    <3> QED BY <1>2, <1>6, <2>1, <3>1
  <2>2. CASE a \in placed
    <3>1. a \in Places /\ Located(a, pages[a.page]) /\ a.page \in PageIds
      BY <2>2 DEF IInv, PlacesLocated, TypeOK, Places
    <3>2. CASE a.page = pid
      BY <1>2, <1>6, <3>1, <3>2
    <3>3. CASE a.page # pid
      BY <1>6, <3>1, <3>3
    <3> QED BY <3>2, <3>3
  <2> QED BY <1>3, <2>1, <2>2
<1> QED BY <1>4, <1>5, <1>7, <1>8

LEMMA InvInit == Init => IInv
<1> SUFFICES ASSUME Init PROVE IInv
  OBVIOUS
<1>1. /\ PAGE_SIZE \in Nat /\ end_fixed \in Nat /\ SlotSize \in Nat
      /\ end_fixed <= PAGE_SIZE /\ MaxPages \in Nat
  BY RecStoreAssumption
<1>2. NewPage \in [end_free : Offsets, ptr : Seq(Offsets)]
  BY <1>1 DEF NewPage, Offsets
<1>3. Sorted(NewPage)
  BY <1>1 DEF NewPage, Sorted, left_space
<1>4. TypeOK
  BY <1>1, <1>2 DEF Init, TypeOK
<1>5. PagesInUse
  BY DEF Init, PagesInUse, ERROR_PAGE
<1>6. PagesSorted /\ PlacesLocated
  BY <1>3 DEF Init, PagesSorted, PlacesLocated
<1> QED BY <1>4, <1>5, <1>6 DEF IInv

LEMMA InvNext ==
  ASSUME SizesFit, IInv, [Next]_vars
  PROVE  IInv'
<1>0. /\ PAGE_SIZE \in Nat /\ end_fixed \in Nat /\ SlotSize \in Nat
      /\ MaxPages \in Nat /\ Sizes \subseteq Nat
  BY RecStoreAssumption
<1>1. CASE UNCHANGED vars
  BY <1>1 DEF vars, IInv, TypeOK, PagesInUse, PagesSorted, Sorted, left_space,
              PlacesLocated, Located, EndOf
<1>2. ASSUME NEW n \in Sizes, AddHere(n)
      PROVE  IInv'
  <2>1. last_rec \in PageIds
    BY <1>2 DEF AddHere, IInv, TypeOK
  <2>2. pages[last_rec].end_free >= left_space(pages[last_rec]) + n + SlotSize
    <3>1. /\ pages[last_rec].end_free \in Nat
          /\ Len(pages[last_rec].ptr) \in Nat
      BY <1>0, <2>1 DEF IInv, TypeOK, Offsets
    <3>2. SlotSize * Len(pages[last_rec].ptr) \in Nat
      BY <1>0, <3>1
    <3> QED BY <1>0, <1>2, <3>1, <3>2 DEF AddHere, can_store, left_space
  <2>3. /\ pages' \in [PageIds -> [end_free : Offsets, ptr : Seq(Offsets)]]
        /\ placed' \in SUBSET Places
        /\ PagesSorted' /\ PlacesLocated'
    BY <1>2, <2>1, <2>2, AddToPreserves DEF AddHere
  <2>4. PagesInUse'
    <3>1. last_rec' = last_rec /\ page_cnt' = page_cnt
      BY <1>2 DEF AddHere
    <3>2. \A p \in PageIds : p > page_cnt => pages'[p] = pages[p]
      BY <1>2, <2>1 DEF AddHere, AddTo, IInv, TypeOK, PagesInUse, PageIds
    <3> QED BY <3>1, <3>2 DEF IInv, PagesInUse
  <2> QED BY <1>2, <2>3, <2>4 DEF AddHere, IInv, TypeOK
<1>3. ASSUME NEW n \in Sizes, AddNew(n)
      PROVE  IInv'
  <2>1. /\ last_rec' = page_cnt + 1 /\ page_cnt' = page_cnt + 1
        /\ page_cnt + 1 \in PageIds
    BY <1>0, <1>3 DEF AddNew, IInv, TypeOK, PageIds
  <2>2. pages[page_cnt + 1] = NewPage
    BY <2>1, <1>0 DEF IInv, PagesInUse, PageIds, TypeOK
  <2>3. NewPage.end_free >= left_space(NewPage) + n + SlotSize
    BY <1>0 DEF SizesFit, NewPage, left_space
  <2>4. AddTo(page_cnt + 1, pages[page_cnt + 1], n)
    BY <1>3, <2>1, <2>2 DEF AddNew
  <2>5. /\ pages' \in [PageIds -> [end_free : Offsets, ptr : Seq(Offsets)]]
        /\ placed' \in SUBSET Places
        /\ PagesSorted' /\ PlacesLocated'
    BY <2>1, <2>2, <2>3, <2>4, AddToPreserves
  <2>6. PagesInUse'
    <3>1. \A p \in PageIds : p > page_cnt + 1 => pages'[p] = pages[p]
      BY <2>1, <2>4 DEF AddTo, IInv, TypeOK, PageIds
    <3> QED BY <1>0, <2>1, <3>1 DEF IInv, PagesInUse, TypeOK, PageIds
  <2> QED BY <1>0, <2>1, <2>5, <2>6 DEF IInv, TypeOK, PageIds
<1> QED BY <1>1, <1>2, <1>3 DEF Next, add_rec

\* Slots are different for different records of a page, and lie as the
\* records do.
LEMMA InvApart ==
  ASSUME IInv PROVE RecordsApart
<1>0. /\ PAGE_SIZE \in Nat /\ Sizes \subseteq Nat
  BY RecStoreAssumption
<1> SUFFICES ASSUME NEW a \in placed
             PROVE  /\ a.start >= left_space(pages[a.page])
                    /\ a.start + a.size <= PAGE_SIZE
                    /\ \A b \in placed \ {a} : a.page = b.page => ~Overlap(a, b)
  BY DEF RecordsApart
<1> DEFINE p == pages[a.page]
<1>1. /\ p \in [end_free : Offsets, ptr : Seq(Offsets)] /\ Sorted(p)
      /\ p.end_free \in Nat /\ Len(p.ptr) \in Nat
      /\ \A i \in 1 .. Len(p.ptr) : p.ptr[i] \in 0 .. PAGE_SIZE
  BY <1>0 DEF IInv, TypeOK, PagesSorted, Places, Offsets
<1>2. ASSUME NEW b \in placed, b.page = a.page
      PROVE  /\ b.slot \in Nat /\ b.slot + 1 \in 1 .. Len(p.ptr)
             /\ b.start = p.ptr[b.slot + 1]
             /\ b.start + b.size = EndOf(p, b.slot)
             /\ b.slot # 0 => b.slot \in 1 .. Len(p.ptr)
             /\ b.start \in Nat /\ b.size \in Nat
             /\ b = [page |-> b.page, slot |-> b.slot, start |-> b.start, size |-> b.size]
  <2>1. b \in Places /\ Located(b, p)
    BY <1>2 DEF IInv, TypeOK, PlacesLocated
  <2>2. /\ b.slot \in Nat /\ b.start \in Nat /\ b.size \in Nat
        /\ b = [page |-> b.page, slot |-> b.slot, start |-> b.start, size |-> b.size]
    <3>1. /\ b.slot \in Nat /\ b.start \in Offsets /\ b.size \in Sizes
          /\ b = [page |-> b.page, slot |-> b.slot, start |-> b.start, size |-> b.size]
      BY <2>1 DEF Places
    <3> QED BY <1>0, <3>1 DEF Offsets
  <2>3. b.slot < Len(p.ptr)
    BY <2>1 DEF Located
  <2> QED BY <1>1, <2>1, <2>2, <2>3 DEF Located
<1>3. a.start >= left_space(p)
  <2>1. p.end_free <= a.start
    BY <1>1, <1>2 DEF Sorted
  <2>2. left_space(p) \in Int
    BY <1>1, RecStoreAssumption DEF left_space
  <2> QED BY <1>1, <1>2, <2>1, <2>2 DEF Sorted
<1>4. a.start + a.size <= PAGE_SIZE
  BY <1>0, <1>1, <1>2 DEF EndOf
<1>5. ASSUME NEW b \in placed, NEW c \in placed, b.page = a.page, c.page = a.page,
             b.slot < c.slot
      PROVE  c.start + c.size <= b.start
  <2>1. c.slot \in 1 .. Len(p.ptr) /\ c.start + c.size = p.ptr[c.slot]
    BY <1>2, <1>5 DEF EndOf
  <2>2. b.start = p.ptr[b.slot + 1] /\ b.slot + 1 \in 1 .. Len(p.ptr) /\ b.slot + 1 <= c.slot
    BY <1>2, <1>5
  <2>3. p.ptr[c.slot] <= p.ptr[b.slot + 1]
    BY <1>1, <2>1, <2>2 DEF Sorted
  <2> QED BY <2>1, <2>2, <2>3
<1>6. ASSUME NEW b \in placed \ {a}, a.page = b.page
      PROVE  ~Overlap(a, b)
  <2>1. a.slot # b.slot
    <3> SUFFICES ASSUME a.slot = b.slot PROVE FALSE
      OBVIOUS
    <3>1. a.start = b.start /\ a.size = b.size
      BY <1>2, <1>6
    <3> QED BY <1>2, <1>6, <3>1
  <2>2. a.slot < b.slot \/ b.slot < a.slot
    BY <1>2, <1>6, <2>1
  <2>3. a.start \in Nat /\ b.start \in Nat /\ a.size \in Nat /\ b.size \in Nat
    BY <1>2, <1>6
  <2> QED BY <1>5, <1>6, <2>2, <2>3 DEF Overlap
<1> QED BY <1>3, <1>4, <1>6

LEMMA InvReadsBack ==
  ASSUME IInv PROVE ReadsBack
<1> SUFFICES ASSUME NEW a \in placed
             PROVE  /\ a.slot < Len(pages[a.page].ptr)
                    /\ get_rec(a.page, a.slot) = a.start
                    /\ get_rec_size(a.page, a.slot) = a.size
  BY DEF ReadsBack
<1>1. Located(a, pages[a.page]) /\ a \in Places
  BY DEF IInv, PlacesLocated, TypeOK
<1>2. a.start \in Nat /\ a.size \in Nat
  <2>1. PAGE_SIZE \in Nat /\ Sizes \subseteq Nat
    BY RecStoreAssumption
  <2>2. a \in Places
    BY <1>1
  <2>3. a.start \in Offsets /\ a.size \in Sizes
    BY <2>2 DEF Places
  <2>4. Offsets \subseteq Nat
    BY <2>1 DEF Offsets
  <2> QED BY <2>1, <2>3, <2>4
<1>3. /\ pages[a.page].ptr[a.slot + 1] = a.start
      /\ EndOf(pages[a.page], a.slot) = a.start + a.size
  BY <1>1 DEF Located
<1>4. get_rec_size(a.page, a.slot) = EndOf(pages[a.page], a.slot) - pages[a.page].ptr[a.slot + 1]
  <2>1. CASE a.slot = 0
    BY <2>1 DEF get_rec_size, EndOf
  <2>2. CASE a.slot # 0
    BY <2>2 DEF get_rec_size, EndOf
  <2> QED BY <2>1, <2>2
<1>5. get_rec_size(a.page, a.slot) = a.size
  BY <1>2, <1>3, <1>4
<1> QED BY <1>1, <1>5 DEF Located, get_rec

\* Offsets never leave their page: rec_page.cpp, lines 22-42.
THEOREM RecStoreTypeCorrect ==
  ASSUME SizesFit PROVE Spec => []TypeOK
<1>1. Init => IInv
  BY InvInit
<1>2. IInv /\ [Next]_vars => IInv'
  BY InvNext
<1>3. IInv => TypeOK
  BY DEF IInv
<1> QED BY <1>1, <1>2, <1>3, PTL DEF Spec

\* However records and slots grow towards each other, no record that add_rec
\* stored is ever written over.
THEOREM RecordsStayApart ==
  ASSUME SizesFit PROVE Spec => []RecordsApart
<1>1. Init => IInv
  BY InvInit
<1>2. IInv /\ [Next]_vars => IInv'
  BY InvNext
<1>3. IInv => RecordsApart
  BY InvApart
<1> QED BY <1>1, <1>2, <1>3, PTL DEF Spec

\* A position handed out by add_rec leads get_rec to the bytes stored there.
THEOREM PositionsReadBack ==
  ASSUME SizesFit PROVE Spec => []ReadsBack
<1>1. Init => IInv
  BY InvInit
<1>2. IInv /\ [Next]_vars => IInv'
  BY InvNext
<1>3. IInv => ReadsBack
  BY InvReadsBack
<1> QED BY <1>1, <1>2, <1>3, PTL DEF Spec

-----------------------------------------------------------------------------
\* The columns.

ColumnTypes ==
  /\ open \in BOOLEAN /\ has_primary \in BOOLEAN
  /\ id \in Nat /\ primary_key \in Nat
  /\ columns \in Seq([name : Nat, type : Types])
  /\ declared \in Seq([type : Types, key : KeyWords])

\* The key was declared, and is in the column with its id.
KeyDeclared ==
  /\ primary_key < Len(columns)
  /\ columns[primary_key + 1].type \in KeyTypes
  /\ columns[primary_key + 1].name \in 1 .. Len(declared)
  /\ declared[columns[primary_key + 1].name].key = "primary"

KeyIsHidden ==
  /\ primary_key + 1 = Len(columns)
  /\ columns[primary_key + 1] = [name |-> Hidden, type |-> "bigint"]

\* While no clause was refused, the next id is the number of columns.
IdsFollow ==
  AllAccepted =>
    /\ ~open => id = Len(columns)
    /\ has_primary => KeyDeclared
    /\ open /\ ~has_primary => KeyIsHidden

\* The schema's numbers are SQLite's up to the first column of unknown type.
AllKnown(ds, n) == \A d \in 1 .. n : ds[d].type # "unknown"

Numbered ==
  /\ ~open => /\ Len(columns) <= Len(declared)
              /\ Len(columns) = Len(declared) <=> AllKnown(declared, Len(declared))
  /\ \A c \in 1 .. Len(columns) :
       columns[c].name # Hidden =>
         /\ columns[c].name \in 1 .. Len(declared)
         /\ c = columns[c].name <=> AllKnown(declared, columns[c].name - 1)

LInv == ColumnTypes /\ IdsFollow /\ Numbered
-----------------------------------------------------------------------------
LEMMA LInvInit == LayoutInit => LInv
<1> SUFFICES ASSUME LayoutInit PROVE LInv
  OBVIOUS
<1>1. /\ open \in BOOLEAN /\ has_primary \in BOOLEAN
      /\ ~open /\ ~has_primary
  BY DEF LayoutInit
<1>2. id = 0 /\ primary_key = 0 /\ columns = <<>> /\ declared = <<>>
  BY DEF LayoutInit
<1>3. ColumnTypes
  BY <1>1, <1>2 DEF ColumnTypes
<1>4. id = Len(columns)
  BY <1>2
<1>5. Numbered
  BY <1>2 DEF Numbered, AllKnown
<1> QED BY <1>1, <1>3, <1>4, <1>5 DEF LInv, IdsFollow

\* One more declaration: the ones before were accepted, and so is this one.
LEMMA AcceptedBefore ==
  ASSUME ColumnTypes, NEW t \in Types, NEW key \in KeyWords,
         declared' = Append(declared, [type |-> t, key |-> key]),
         AllAccepted'
  PROVE  /\ AllAccepted
         /\ key = "primary" =>
              t \in KeyTypes
                /\ \A d \in 1 .. Len(declared) : declared[d].key # "primary"
         /\ key = "key" => t # "text"
<1>1. /\ Len(declared') = Len(declared) + 1
      /\ declared'[Len(declared) + 1] = [type |-> t, key |-> key]
      /\ \A d \in 1 .. Len(declared) : declared'[d] = declared[d]
      /\ Len(declared) \in Nat
      /\ DOMAIN declared = 1 .. Len(declared)
      /\ DOMAIN declared' = 1 .. Len(declared')
  BY DEF ColumnTypes
<1>2. AllAccepted
  BY <1>1 DEF AllAccepted
<1>3. key = "primary" => t \in KeyTypes
  BY <1>1 DEF AllAccepted
<1>4. ASSUME key = "primary", NEW d \in 1 .. Len(declared),
             declared[d].key = "primary"
      PROVE  FALSE
  BY <1>1, <1>4 DEF AllAccepted
<1>5. key = "key" => t # "text"
  BY <1>1 DEF AllAccepted
<1> QED BY <1>2, <1>3, <1>4, <1>5

\* One more declaration, and one more column unless its type is unknown.
LEMMA DeclareNumbers ==
  ASSUME ColumnTypes, Numbered, NEW t \in Types, NEW key \in KeyWords, Declare(t, key)
  PROVE  Numbered'
<1> DEFINE n == Len(declared)
           m == Len(columns)
<1>1. /\ ~open /\ open' = open
      /\ declared' = Append(declared, [type |-> t, key |-> key])
      /\ [type |-> t, key |-> key] \in [type : Types, key : KeyWords]
  BY DEF Declare
<1>2. /\ n \in Nat /\ m \in Nat /\ m <= n
      /\ m = n <=> AllKnown(declared, n)
  BY <1>1 DEF ColumnTypes, Numbered
<1>3. /\ Len(declared') = n + 1
      /\ declared'[n + 1].type = t
      /\ \A d \in 1 .. n : declared'[d] = declared[d]
  BY <1>1 DEF ColumnTypes
<1>4. \A k \in 0 .. n : AllKnown(declared', k) = AllKnown(declared, k)
  BY <1>2, <1>3 DEF AllKnown
<1>5. AllKnown(declared', n + 1) <=> AllKnown(declared, n) /\ t # "unknown"
  BY <1>2, <1>3 DEF AllKnown
<1> HIDE DEF n, m
<1>6. CASE t = "unknown" /\ Skip
  <2>1. columns' = columns
    BY <1>6 DEF Skip
  <2>2. ~AllKnown(declared', n + 1) /\ m < n + 1
    BY <1>2, <1>5, <1>6
  <2>3. ASSUME NEW c \in 1 .. m, columns[c].name # Hidden
        PROVE  /\ columns[c].name \in 1 .. n
               /\ c = columns[c].name <=> AllKnown(declared, columns[c].name - 1)
    BY <2>3 DEF Numbered, n, m
  <2>4. ASSUME NEW c \in 1 .. m, columns[c].name # Hidden
        PROVE  /\ columns[c].name \in 1 .. n + 1
               /\ c = columns[c].name <=> AllKnown(declared', columns[c].name - 1)
    <3>1. columns[c].name \in 1 .. n /\ columns[c].name - 1 \in 0 .. n
      BY <1>2, <2>3, <2>4
    <3> QED BY <1>2, <1>4, <2>3, <2>4, <3>1
  <2>5. columns'= columns /\ Len(columns') = m /\ Len(declared') = n + 1
    BY <1>3, <2>1 DEF m
  <2>6. /\ m <= n + 1
        /\ m = n + 1 <=> AllKnown(declared', n + 1)
    BY <1>2, <2>2
  <2>7. ~open' => /\ Len(columns') <= Len(declared')
                  /\ Len(columns') = Len(declared') <=> AllKnown(declared', Len(declared'))
    BY <2>5, <2>6
  <2>8. \A c \in 1 .. Len(columns') :
          columns'[c].name # Hidden =>
            /\ columns'[c].name \in 1 .. Len(declared')
            /\ c = columns'[c].name <=> AllKnown(declared', columns'[c].name - 1)
    BY <2>4, <2>5
  <2> QED BY <2>7, <2>8 DEF Numbered
<1>7. CASE t # "unknown" /\ Emplaced(Len(declared'), t)
  <2> DEFINE col == [name |-> n + 1, type |-> t]
  <2>1. /\ columns' = Append(columns, col) /\ col.name = n + 1
        /\ col \in [name : Nat, type : Types]
    BY <1>2, <1>3, <1>7 DEF Emplaced
  <2>2. /\ Len(columns') = m + 1
        /\ columns'[m + 1].name = n + 1
        /\ \A c \in 1 .. m : columns'[c] = columns[c]
    BY <2>1 DEF ColumnTypes, m
  <2>3. AllKnown(declared', n + 1) <=> AllKnown(declared, n)
    BY <1>5, <1>7
  <2>4. /\ m + 1 <= n + 1
        /\ m + 1 = n + 1 <=> AllKnown(declared', n + 1)
    BY <1>2, <2>3
  <2>5. ASSUME NEW c \in 1 .. m + 1, columns'[c].name # Hidden
        PROVE  /\ columns'[c].name \in 1 .. n + 1
               /\ c = columns'[c].name <=> AllKnown(declared', columns'[c].name - 1)
    <3>1. CASE c = m + 1
      <4>1. columns'[c].name = n + 1 /\ n \in 0 .. n
        BY <1>2, <2>2, <3>1
      <4>2. AllKnown(declared', n) = AllKnown(declared, n)
        BY <1>4, <4>1
      <4>3. n + 1 \in 1 .. n + 1 /\ (n + 1) - 1 = n
        BY <1>2
      <4> QED BY <1>2, <3>1, <4>1, <4>2, <4>3
    <3>2. CASE c # m + 1
      <4>1. c \in 1 .. m /\ columns'[c] = columns[c]
        BY <1>2, <2>2, <3>2
      <4>2. /\ columns[c].name \in 1 .. n
            /\ c = columns[c].name <=> AllKnown(declared, columns[c].name - 1)
        BY <2>5, <4>1 DEF Numbered, n, m
      <4>3. columns[c].name \in 1 .. n + 1 /\ columns[c].name - 1 \in 0 .. n
        BY <1>2, <4>2
      <4> QED BY <1>4, <4>1, <4>2, <4>3
    <3> QED BY <3>1, <3>2
  <2>6. Len(declared') = n + 1
    BY <1>3
  <2>7. ~open' => /\ Len(columns') <= Len(declared')
                  /\ Len(columns') = Len(declared') <=> AllKnown(declared', Len(declared'))
    BY <2>2, <2>4, <2>6
  <2>8. \A c \in 1 .. Len(columns') :
          columns'[c].name # Hidden =>
            /\ columns'[c].name \in 1 .. Len(declared')
            /\ c = columns'[c].name <=> AllKnown(declared', columns'[c].name - 1)
    BY <2>2, <2>5, <2>6
  <2> QED BY <2>7, <2>8 DEF Numbered
<1> QED BY <1>6, <1>7 DEF Declare

LEMMA DeclareKeeps ==
  ASSUME LInv, NEW t \in Types, NEW key \in KeyWords, Declare(t, key)
  PROVE  LInv'
<1> USE DEF LInv
<1>1. /\ ~open /\ open' = open
      /\ declared' = Append(declared, [type |-> t, key |-> key])
      /\ [type |-> t, key |-> key] \in [type : Types, key : KeyWords]
  BY DEF Declare
<1>2. /\ declared' \in Seq([type : Types, key : KeyWords])
      /\ Len(declared') = Len(declared) + 1
      /\ Len(declared) \in Nat
      /\ declared'[Len(declared) + 1] = [type |-> t, key |-> key]
      /\ \A d \in 1 .. Len(declared) : declared'[d] = declared[d]
  BY <1>1 DEF ColumnTypes
<1>3. ASSUME AllAccepted'
      PROVE  AllAccepted /\ ~Refused(t, key)
  <2>1. AllAccepted /\ (key = "primary" => t \in KeyTypes) /\ (key = "key" => t # "text")
    BY <1>1, <1>3, AcceptedBefore
  <2>2. ASSUME key = "primary" PROVE ~has_primary
    BY <1>1, <1>3, <2>1, <2>2, AcceptedBefore DEF IdsFollow, KeyDeclared
  <2> QED BY <2>1, <2>2 DEF Refused
<1>6. Numbered'
  BY DeclareNumbers
<1>4. CASE t = "unknown" /\ Skip
  <2>1. UNCHANGED <<id, columns, has_primary, primary_key>>
    BY <1>4 DEF Skip
  <2>2. ColumnTypes'
    BY <1>1, <1>2, <2>1 DEF ColumnTypes
  <2>3. ASSUME AllAccepted', has_primary' PROVE KeyDeclared'
    BY <1>2, <1>3, <2>1, <2>3 DEF IdsFollow, KeyDeclared
  <2>4. ASSUME AllAccepted' PROVE id' = Len(columns')
    BY <1>1, <1>3, <2>1, <2>4 DEF IdsFollow
  <2> QED BY <1>1, <1>6, <2>2, <2>3, <2>4 DEF IdsFollow
<1>5. CASE /\ t # "unknown"
           /\ Emplaced(Len(declared'), t)
           /\ id' = IF Refused(t, key) THEN id ELSE id + 1
           /\ IF key = "primary" /\ ~Refused(t, key)
              THEN has_primary' = TRUE /\ primary_key' = id
              ELSE UNCHANGED <<has_primary, primary_key>>
  <2> DEFINE col == [name |-> Len(declared'), type |-> t]
  <2>1. /\ columns' = Append(columns, col)
        /\ col \in [name : Nat, type : Types]
    BY <1>2, <1>5 DEF Emplaced
  <2>2. /\ columns' \in Seq([name : Nat, type : Types])
        /\ Len(columns') = Len(columns) + 1 /\ Len(columns) \in Nat
        /\ columns'[Len(columns) + 1] = col
        /\ \A i \in 1 .. Len(columns) : columns'[i] = columns[i]
    BY <2>1 DEF ColumnTypes
  <2>3. id' \in Nat
    BY <1>5 DEF ColumnTypes
  <2>4. primary_key' \in Nat /\ has_primary' \in BOOLEAN
    BY <1>5 DEF ColumnTypes
  <2>5. ColumnTypes'
    BY <1>1, <1>2, <2>2, <2>3, <2>4 DEF ColumnTypes
  <2>6. ASSUME AllAccepted' PROVE id' = Len(columns')
    BY <1>1, <1>3, <1>5, <2>2, <2>6 DEF IdsFollow
  <2>7. ASSUME AllAccepted', has_primary' PROVE KeyDeclared'
    <3>1. CASE key = "primary"
      <4>1. primary_key' + 1 = Len(columns) + 1 /\ t \in KeyTypes
        BY <1>1, <1>3, <1>5, <2>7, <3>1, AcceptedBefore DEF IdsFollow
      <4>2. /\ columns'[primary_key' + 1] = col
            /\ primary_key' < Len(columns')
        <5>1. primary_key' + 1 = Len(columns) + 1 /\ primary_key' = Len(columns)
          BY <2>2, <2>4, <4>1
        <5> HIDE DEF col
        <5> QED BY <2>2, <5>1
      <4>3. Len(declared') \in 1 .. Len(declared')
        BY <1>2
      <4>4. declared'[Len(declared')].key = "primary"
        BY <1>2, <3>1
      <4> QED BY <4>1, <4>2, <4>3, <4>4 DEF KeyDeclared
    <3>2. CASE key # "primary"
      <4>1. KeyDeclared /\ primary_key' = primary_key
        BY <1>3, <1>5, <2>7, <3>2 DEF IdsFollow
      <4>2. primary_key + 1 \in 1 .. Len(columns)
        BY <2>2, <4>1 DEF KeyDeclared, ColumnTypes
      <4>3. /\ columns'[primary_key' + 1] = columns[primary_key + 1]
            /\ primary_key' < Len(columns')
        BY <2>2, <2>4, <4>1, <4>2
      <4>4. /\ columns[primary_key + 1].name \in 1 .. Len(declared')
            /\ declared'[columns[primary_key + 1].name].key = "primary"
        BY <1>2, <4>1 DEF KeyDeclared
      <4> QED BY <4>1, <4>3, <4>4 DEF KeyDeclared
    <3> QED BY <3>1, <3>2
  <2> QED BY <1>1, <1>6, <2>5, <2>6, <2>7 DEF IdsFollow
<1> QED BY <1>4, <1>5 DEF Declare

LEMMA EndDeclareKeeps ==
  ASSUME LInv, EndDeclare
  PROVE  LInv'
<1> USE DEF LInv
<1>1. ~open /\ open' /\ open' \in BOOLEAN /\ UNCHANGED <<id, has_primary, declared>>
  BY DEF EndDeclare
<1>2. AllAccepted' = AllAccepted
  BY <1>1 DEF AllAccepted
<1>3. CASE has_primary
  <2>1. UNCHANGED <<columns, primary_key>>
    BY <1>3 DEF EndDeclare
  <2>2. KeyDeclared' = KeyDeclared
    BY <1>1, <2>1 DEF KeyDeclared
  <2>3. Numbered'
    BY <1>1, <2>1 DEF Numbered, AllKnown
  <2> QED BY <1>1, <1>2, <1>3, <2>1, <2>2, <2>3 DEF ColumnTypes, IdsFollow
<1>4. CASE ~has_primary
  <2> DEFINE col == [name |-> Hidden, type |-> "bigint"]
  <2>1. /\ columns' = Append(columns, col) /\ primary_key' = id
        /\ col \in [name : Nat, type : Types]
    BY <1>4 DEF EndDeclare, Emplaced, Hidden, Types
  <2>2. /\ columns' \in Seq([name : Nat, type : Types])
        /\ Len(columns') = Len(columns) + 1 /\ Len(columns) \in Nat
        /\ columns'[Len(columns) + 1] = col
    BY <2>1 DEF ColumnTypes
  <2>3. ColumnTypes'
    BY <1>1, <2>1, <2>2 DEF ColumnTypes
  <2>4. ASSUME AllAccepted' PROVE KeyIsHidden'
    BY <1>1, <1>2, <2>1, <2>2, <2>4 DEF IdsFollow, KeyIsHidden
  <2>5. Numbered'
    <3>1. \A c \in 1 .. Len(columns) : columns'[c] = columns[c]
      BY <2>1 DEF ColumnTypes
    <3>2. columns'[Len(columns) + 1].name = Hidden
      BY <2>2
    <3>3. \A c \in 1 .. Len(columns') : c \in 1 .. Len(columns) \/ c = Len(columns) + 1
      BY <2>2
    <3> HIDE DEF col
    <3>4. ASSUME NEW c \in 1 .. Len(columns'), columns'[c].name # Hidden
          PROVE  c \in 1 .. Len(columns) /\ columns'[c].name = columns[c].name
      BY <3>1, <3>2, <3>3, <3>4
    <3>5. declared' = declared
      BY <1>1
    <3> QED BY <1>1, <3>4, <3>5 DEF Numbered, AllKnown
  <2> QED BY <1>1, <1>4, <2>3, <2>4, <2>5 DEF IdsFollow
<1> QED BY <1>3, <1>4 DEF LInv, ColumnTypes

LEMMA LInvNext == LInv /\ [StoreNext]_storeVars => LInv'
<1> SUFFICES ASSUME LInv, [StoreNext]_storeVars PROVE LInv'
  OBVIOUS
<1>1. CASE \E t \in Types, key \in KeyWords : Declare(t, key)
  BY <1>1, DeclareKeeps
<1>2. CASE EndDeclare
  BY <1>2, EndDeclareKeeps
<1>3. CASE UNCHANGED layoutVars
  BY <1>3 DEF layoutVars, LInv, ColumnTypes, IdsFollow, AllAccepted, KeyDeclared,
              KeyIsHidden, Numbered, AllKnown
<1>4. Construct \/ UNCHANGED layoutVars
  BY DEF StoreNext, Table, InsertRow, storeVars
<1> QED BY <1>1, <1>2, <1>3, <1>4 DEF Construct

\* For any declaration without a refused key clause, the schema's primary key
\* is the integer column that was declared so, or the hidden one behind all
\* others; its value is taken from that column of SQLite's exactly if no column
\* of unknown type stands before it.
THEOREM KeyIsInItsColumn == StoreSpec => []KeyColumnIsPrimary
<1>1. StoreInit => LInv
  BY LInvInit DEF StoreInit
<1>2. LInv => KeyColumnIsPrimary
  <2> SUFFICES ASSUME LInv, open, AllAccepted
               PROVE  KeyColumnIsPrimary
    BY DEF KeyColumnIsPrimary
  <2> DEFINE c == primary_key + 1
  <2>1. CASE has_primary
    <3>1. KeyDeclared
      BY <2>1 DEF LInv, IdsFollow
    <3>2. c \in 1 .. Len(columns) /\ columns[c].name # Hidden
      BY <3>1 DEF KeyDeclared, LInv, ColumnTypes, Hidden
    <3>3. c = columns[c].name <=> AllKnown(declared, columns[c].name - 1)
      BY <3>2 DEF LInv, Numbered
    <3> QED BY <2>1, <3>1, <3>3 DEF KeyDeclared, KeyColumnIsPrimary, AllKnown, TakenFrom
  <2>2. CASE ~has_primary
    BY <2>2 DEF LInv, ColumnTypes, IdsFollow, KeyIsHidden, KeyColumnIsPrimary,
                KeyTypes, Hidden
  <2> QED BY <2>1, <2>2
<1> QED BY <1>1, <1>2, LInvNext, PTL DEF StoreSpec
-----------------------------------------------------------------------------
\* The rows.

\* Among some numbers one is the least.
LEMMA LeastExists ==
  ASSUME NEW T \in SUBSET Nat, T # {}
  PROVE  \E x \in T : \A y \in T : x <= y
<1>1. PICK x \in T : \A y \in T : ~(<<y, x>> \in OpToRel(<, Nat))
  BY WFMin, NatLessThanWellFounded
<1>2. \A y \in T : ~(y < x)
  BY <1>1 DEF OpToRel
<1> QED BY <1>2

IsSums(f, size, n) ==
  f = [m \in 0 .. n |-> IF m = 0 THEN 0 ELSE f[m - 1] + size[m]]

LEMMA SumsExist ==
  ASSUME NEW size, NEW n \in Nat
  PROVE  \E f : IsSums(f, size, n)
<1> DEFINE Bad == {m \in Nat : ~\E f : IsSums(f, size, m)}
<1> SUFFICES ASSUME Bad # {} PROVE FALSE
  OBVIOUS
<1>1. PICK m \in Bad : \A y \in Bad : m <= y
  <2>1. Bad \in SUBSET Nat
    OBVIOUS
  <2> HIDE DEF Bad
  <2> QED BY <2>1, LeastExists
<1>2. m \in Nat /\ ~\E f : IsSums(f, size, m)
  BY <1>1
<1>3. CASE m = 0
  <2>1. PICK f : f = [i \in 0 .. m |-> 0]
    OBVIOUS
  <2>2. f = [i \in 0 .. m |-> IF i = 0 THEN 0 ELSE f[i - 1] + size[i]]
    BY <1>3, <2>1
  <2> QED BY <1>2, <2>2 DEF IsSums
<1>4. CASE m # 0
  <2>1. m - 1 \in Nat /\ ~(m <= m - 1)
    BY <1>2, <1>4
  <2>2. m - 1 \notin Bad
    <3> HIDE DEF Bad
    <3> QED BY <1>1, <2>1
  <2>3. PICK g : IsSums(g, size, m - 1)
    BY <2>1, <2>2
  <2>4. PICK f : f = [i \in 0 .. m |-> IF i <= m - 1 THEN g[i] ELSE g[m - 1] + size[m]]
    OBVIOUS
  <2>5. g = [i \in 0 .. m - 1 |-> IF i = 0 THEN 0 ELSE g[i - 1] + size[i]]
    BY <2>3 DEF IsSums
  <2>6. ASSUME NEW i \in 0 .. m PROVE f[i] = IF i = 0 THEN 0 ELSE f[i - 1] + size[i]
    <3>1. CASE i = 0
      <4>1. i \in 0 .. m - 1 /\ i <= m - 1
        BY <2>1, <3>1
      <4>2. g[i] = 0
        BY <2>5, <3>1, <4>1
      <4> QED BY <2>4, <3>1, <4>1, <4>2
    <3>2. CASE i # 0 /\ i <= m - 1
      <4>1. i \in 0 .. m - 1 /\ i - 1 \in 0 .. m /\ i - 1 <= m - 1
        BY <2>1, <3>2
      <4>2. g[i] = g[i - 1] + size[i]
        BY <2>5, <3>2, <4>1
      <4>3. f[i] = g[i] /\ f[i - 1] = g[i - 1]
        BY <2>4, <3>2, <4>1
      <4> QED BY <3>2, <4>2, <4>3
    <3>3. CASE i # 0 /\ ~(i <= m - 1)
      <4>1. i = m /\ m - 1 \in 0 .. m /\ m - 1 <= m - 1
        BY <2>1, <1>2, <3>3
      <4>2. f[i] = g[m - 1] + size[m] /\ f[m - 1] = g[m - 1]
        BY <2>4, <3>3, <4>1
      <4> QED BY <3>3, <4>1, <4>2
    <3> QED BY <3>1, <3>2, <3>3
  <2>7. f = [i \in 0 .. m |-> f[i]]
    BY <2>4
  <2>8. f = [i \in 0 .. m |-> IF i = 0 THEN 0 ELSE f[i - 1] + size[i]]
    BY <2>6, <2>7
  <2> QED BY <1>2, <2>8 DEF IsSums
<1> QED BY <1>3, <1>4

\* Sums is what its recursion says.
LEMMA SumsAre ==
  ASSUME NEW n \in Nat, NEW size \in [1 .. n -> Nat]
  PROVE  /\ Sums(size)[0] = 0
         /\ \A i \in 1 .. n : Sums(size)[i] = Sums(size)[i - 1] + size[i]
         /\ \A i \in 0 .. n : Sums(size)[i] \in Nat
<1> DEFINE sums == CHOOSE f : f = [m \in {0} \cup DOMAIN size |->
                                     IF m = 0 THEN 0 ELSE f[m - 1] + size[m]]
<1>1. Sums(size) = sums
  BY DEF Sums
<1>2. {0} \cup DOMAIN size = 0 .. n
  OBVIOUS
<1>3. sums = [m \in 0 .. n |-> IF m = 0 THEN 0 ELSE sums[m - 1] + size[m]]
  <2>1. \E f : f = [m \in 0 .. n |-> IF m = 0 THEN 0 ELSE f[m - 1] + size[m]]
    <3>1. PICK f : IsSums(f, size, n)
      BY SumsExist
    <3> QED BY <3>1 DEF IsSums
  <2> QED BY <1>2, <2>1
<1> HIDE DEF sums
<1>4. PICK f : f = Sums(size)
  OBVIOUS
<1>5. f[0] = 0 /\ \A i \in 1 .. n : f[i] = f[i - 1] + size[i]
  <2>1. 0 \in 0 .. n
    OBVIOUS
  <2>2. f[0] = 0
    BY <1>1, <1>3, <1>4, <2>1
  <2>3. ASSUME NEW i \in 1 .. n PROVE f[i] = f[i - 1] + size[i]
    <3>1. i \in 0 .. n /\ i # 0
      OBVIOUS
    <3> QED BY <1>1, <1>3, <1>4, <3>1
  <2> QED BY <2>2, <2>3
<1>6. \A i \in 0 .. n : f[i] \in Nat
  <2> DEFINE Bad == {i \in 0 .. n : f[i] \notin Nat}
  <2> SUFFICES ASSUME Bad # {} PROVE FALSE
    OBVIOUS
  <2>1. PICK m \in Bad : \A y \in Bad : m <= y
    <3>1. Bad \in SUBSET Nat
      OBVIOUS
    <3> HIDE DEF Bad
    <3> QED BY <3>1, LeastExists
  <2>2. m \in 0 .. n /\ f[m] \notin Nat
    BY <2>1
  <2>3. m # 0
    BY <1>5, <2>2
  <2>4. m - 1 \in 0 .. n /\ ~(m <= m - 1) /\ m \in 1 .. n
    BY <2>2, <2>3
  <2>5. m - 1 \notin Bad
    <3> HIDE DEF Bad
    <3> QED BY <2>1, <2>4
  <2>6. f[m - 1] \in Nat /\ size[m] \in Nat
    BY <2>4, <2>5
  <2> QED BY <1>5, <2>2, <2>4, <2>6
<1> QED BY <1>4, <1>5, <1>6

\* They grow.
LEMMA SumsGrow ==
  ASSUME NEW n \in Nat, NEW size \in [1 .. n -> Nat]
  PROVE  \A i, j \in 0 .. n : i <= j => Sums(size)[i] <= Sums(size)[j]
<1>1. PICK f : f = Sums(size)
  OBVIOUS
<1>2. /\ \A i \in 1 .. n : f[i] = f[i - 1] + size[i]
      /\ \A i \in 0 .. n : f[i] \in Nat
  BY <1>1, SumsAre
<1>3. ASSUME NEW i \in 0 .. n
      PROVE  \A j \in 0 .. n : i <= j => f[i] <= f[j]
  <2> DEFINE Bad == {j \in 0 .. n : i <= j /\ ~(f[i] <= f[j])}
  <2> SUFFICES ASSUME Bad # {} PROVE FALSE
    OBVIOUS
  <2>1. PICK m \in Bad : \A y \in Bad : m <= y
    <3>1. Bad \in SUBSET Nat
      OBVIOUS
    <3> HIDE DEF Bad
    <3> QED BY <3>1, LeastExists
  <2>2. m \in 0 .. n /\ i <= m /\ ~(f[i] <= f[m])
    BY <2>1
  <2>3. m # i
    BY <1>2, <2>2
  <2>4. m - 1 \in 0 .. n /\ ~(m <= m - 1) /\ i <= m - 1 /\ m \in 1 .. n
    BY <2>2, <2>3
  <2>5. m - 1 \notin Bad
    <3> HIDE DEF Bad
    <3> QED BY <2>1, <2>4
  <2>6. f[i] <= f[m - 1]
    BY <2>4, <2>5
  <2>7. f[m] = f[m - 1] + size[m] /\ size[m] \in Nat /\ f[m - 1] \in Nat /\ f[i] \in Nat
    BY <1>2, <2>4
  <2> QED BY <2>2, <2>6, <2>7
<1> QED BY <1>1, <1>3

\* They depend on the sizes summed only.
LEMMA SumsSame ==
  ASSUME NEW n \in Nat, NEW size \in [1 .. n -> Nat],
         NEW n2 \in Nat, NEW size2 \in [1 .. n2 -> Nat],
         NEW k \in 0 .. n, k <= n2, \A i \in 1 .. k : size[i] = size2[i]
  PROVE  Sums(size)[k] = Sums(size2)[k]
<1>1. PICK f : f = Sums(size)
  OBVIOUS
<1>2. PICK g : g = Sums(size2)
  OBVIOUS
<1>3. f[0] = 0 /\ \A i \in 1 .. n : f[i] = f[i - 1] + size[i]
  BY <1>1, SumsAre
<1>4. g[0] = 0 /\ \A i \in 1 .. n2 : g[i] = g[i - 1] + size2[i]
  BY <1>2, SumsAre
<1> DEFINE Bad == {j \in 0 .. k : f[j] # g[j]}
<1>5. SUFFICES ASSUME Bad # {} PROVE FALSE
  BY <1>1, <1>2
<1>6. PICK m \in Bad : \A y \in Bad : m <= y
  <2>1. Bad \in SUBSET Nat
    OBVIOUS
  <2> HIDE DEF Bad
  <2> QED BY <1>5, <2>1, LeastExists
<1>7. m \in 0 .. k /\ f[m] # g[m]
  BY <1>6
<1>8. m # 0
  BY <1>3, <1>4, <1>7
<1>9. m - 1 \in 0 .. k /\ ~(m <= m - 1) /\ m \in 1 .. k /\ m \in 1 .. n /\ m \in 1 .. n2
  BY <1>7, <1>8
<1>10. m - 1 \notin Bad
  <2> HIDE DEF Bad
  <2> QED BY <1>6, <1>9
<1>11. f[m - 1] = g[m - 1] /\ size[m] = size2[m]
  BY <1>9, <1>10
<1>12. f[m] = f[m - 1] + size[m] /\ g[m] = g[m - 1] + size2[m]
  BY <1>3, <1>4, <1>9
<1> QED BY <1>7, <1>11, <1>12

\* Sizes of at most b bytes come to at most as many times b.
LEMMA SumsBound ==
  ASSUME NEW n \in Nat, NEW size \in [1 .. n -> Nat], NEW b \in Nat,
         \A i \in 1 .. n : size[i] <= b
  PROVE  \A k \in 0 .. n : Sums(size)[k] <= k * b
<1>1. PICK f : f = Sums(size)
  OBVIOUS
<1>2. /\ f[0] = 0 /\ \A i \in 1 .. n : f[i] = f[i - 1] + size[i]
      /\ \A i \in 0 .. n : f[i] \in Nat
  BY <1>1, SumsAre
<1> DEFINE Bad == {j \in 0 .. n : ~(f[j] <= j * b)}
<1>5. SUFFICES ASSUME Bad # {} PROVE FALSE
  BY <1>1
<1>6. PICK m \in Bad : \A y \in Bad : m <= y
  <2>1. Bad \in SUBSET Nat
    OBVIOUS
  <2> HIDE DEF Bad
  <2> QED BY <1>5, <2>1, LeastExists
<1>7. m \in 0 .. n /\ ~(f[m] <= m * b)
  BY <1>6
<1>8. m # 0
  <2>1. 0 * b = 0
    OBVIOUS
  <2> QED BY <1>2, <1>7, <2>1
<1>9. m - 1 \in 0 .. n /\ ~(m <= m - 1) /\ m \in 1 .. n
  BY <1>7, <1>8
<1>10. m - 1 \notin Bad
  <2> HIDE DEF Bad
  <2> QED BY <1>6, <1>9
<1>11. f[m - 1] <= (m - 1) * b /\ f[m - 1] \in Nat
  BY <1>2, <1>9, <1>10
<1>12. f[m] = f[m - 1] + size[m] /\ size[m] \in Nat /\ size[m] <= b
  BY <1>2, <1>9
<1>13. m * b = (m - 1) * b + b
  BY <1>7
<1>14. (m - 1) * b \in Int /\ m * b \in Int
  BY <1>7
<1> DEFINE x == (m - 1) * b
           y == m * b
<1>15. f[m - 1] <= x /\ y = x + b /\ x \in Int /\ y \in Int /\ ~(f[m] <= y)
  BY <1>7, <1>11, <1>13, <1>14
<1> HIDE DEF x, y
<1> QED BY <1>11, <1>12, <1>15

-----------------------------------------------------------------------------
\* The columns are not more than were declared, but for the hidden one, and
\* `offset` is what they take together.
ColumnOK(i) ==
  /\ columns[i].name <= MaxColumns
  /\ columns[i].type # "unknown"
  /\ i > MaxColumns => columns[i].type # "text"

Measured ==
  /\ Len(declared) <= MaxColumns
  /\ Len(columns) <= Len(declared) + 1
  /\ ~open => Len(columns) <= Len(declared)
  /\ id <= Len(declared) /\ primary_key <= Len(declared)
  /\ \A i \in 1 .. Len(columns) : ColumnOK(i)
  /\ offset = FixedAt(Len(columns) + 1)
  /\ open \/ has_primary => 1 <= Len(columns)

MInv == LInv /\ Measured

LEMMA TypeSizes ==
  ASSUME NEW t
  PROVE  /\ TypeSize(t) \in Nat /\ Word \in Nat /\ 1 <= Word
         /\ Word <= TypeSize(t) /\ TypeSize(t) <= 2 * Word
         /\ t = "text" => TypeSize(t) = Word + Word
BY RowLayoutAssumption DEF TypeSize

LEMMA FixedSizesType ==
  ASSUME ColumnTypes
  PROVE  /\ Len(columns) \in Nat /\ Column = 1 .. Len(columns)
         /\ FixedSizes \in [1 .. Len(columns) -> Nat]
         /\ \A i \in 1 .. Len(columns) : FixedSizes[i] = TypeSize(columns[i].type)
<1>1. Len(columns) \in Nat
  BY DEF ColumnTypes
<1>2. ASSUME NEW i \in 1 .. Len(columns) PROVE TypeSize(columns[i].type) \in Nat
  BY TypeSizes
<1> QED BY <1>1, <1>2 DEF FixedSizes, Column

LEMMA FixedSizesTypeNext ==
  ASSUME ColumnTypes'
  PROVE  /\ Len(columns') \in Nat
         /\ FixedSizes' \in [1 .. Len(columns') -> Nat]
         /\ \A i \in 1 .. Len(columns') : FixedSizes'[i] = TypeSize(columns'[i].type)
<1>1. Len(columns') \in Nat
  BY DEF ColumnTypes
<1>2. ASSUME NEW i \in 1 .. Len(columns') PROVE TypeSize(columns'[i].type) \in Nat
  BY TypeSizes
<1> QED BY <1>1, <1>2 DEF FixedSizes, Column

LEMMA EmplacedMeasured ==
  ASSUME ColumnTypes, ColumnTypes', offset = FixedAt(Len(columns) + 1),
         NEW name \in Nat, NEW t \in Types, Emplaced(name, t)
  PROVE  /\ Len(columns') = Len(columns) + 1 /\ Len(columns) \in Nat
         /\ columns'[Len(columns')] = [name |-> name, type |-> t]
         /\ \A i \in 1 .. Len(columns) : columns'[i] = columns[i]
         /\ offset' = Sums(FixedSizes')[Len(columns')]
<1> DEFINE col == [name |-> name, type |-> t]
<1>1. columns' = Append(columns, col) /\ offset' = offset + TypeSize(t)
  BY DEF Emplaced
<1>2. /\ Len(columns') = Len(columns) + 1 /\ Len(columns) \in Nat
      /\ columns'[Len(columns')] = col
      /\ \A i \in 1 .. Len(columns) : columns'[i] = columns[i]
  <2>1. col \in [name : Nat, type : Types]
    OBVIOUS
  <2>2. columns \in Seq([name : Nat, type : Types])
    BY DEF ColumnTypes
  <2> HIDE DEF col
  <2> QED BY <1>1, <2>1, <2>2
<1>3. col.type = t
  OBVIOUS
<1> HIDE DEF col
<1>4. PICK n \in Nat : n = Len(columns)
  BY <1>2
<1>5. PICK s : s = FixedSizes
  OBVIOUS
<1>6. PICK s2 : s2 = FixedSizes'
  OBVIOUS
<1>7. /\ s \in [1 .. n -> Nat]
      /\ \A i \in 1 .. n : s[i] = TypeSize(columns[i].type)
  BY <1>4, <1>5, FixedSizesType
<1>8. /\ s2 \in [1 .. n + 1 -> Nat]
      /\ \A i \in 1 .. n + 1 : s2[i] = TypeSize(columns'[i].type)
  BY <1>2, <1>4, <1>6, FixedSizesTypeNext
<1>9. s2[n + 1] = TypeSize(t)
  <2>1. n + 1 \in 1 .. n + 1
    OBVIOUS
  <2> QED BY <1>2, <1>3, <1>4, <1>8, <2>1
<1>10. Sums(s)[n] = Sums(s2)[n]
  <2>1. \A i \in 1 .. n : s[i] = s2[i]
    <3>1. \A i \in 1 .. n : i \in 1 .. n + 1
      OBVIOUS
    <3> QED BY <1>2, <1>4, <1>7, <1>8, <3>1
  <2>2. n \in 0 .. n /\ n + 1 \in Nat /\ n <= n + 1
    OBVIOUS
  <2> QED BY <1>7, <1>8, <2>1, <2>2, SumsSame
<1>11. Sums(s2)[n + 1] = Sums(s2)[n] + s2[n + 1]
  <2>1. n + 1 \in Nat /\ n + 1 \in 1 .. n + 1 /\ (n + 1) - 1 = n
    OBVIOUS
  <2> QED BY <1>8, <2>1, SumsAre
<1>12. offset = Sums(s)[n]
  <2>1. (n + 1) - 1 = n
    OBVIOUS
  <2> QED BY <1>4, <1>5, <2>1 DEF FixedAt
<1>13. offset' = Sums(s2)[n + 1]
  BY <1>1, <1>9, <1>10, <1>11, <1>12
<1> QED BY <1>2, <1>4, <1>6, <1>13 DEF col

LEMMA MInvInit == LayoutInit => MInv
<1> SUFFICES ASSUME LayoutInit PROVE MInv
  OBVIOUS
<1>1. /\ open \in BOOLEAN /\ has_primary \in BOOLEAN
      /\ ~open /\ ~has_primary
  BY DEF LayoutInit
<1>2. id = 0 /\ primary_key = 0 /\ columns = <<>> /\ declared = <<>> /\ offset = 0
  BY DEF LayoutInit
<1>3. LInv /\ ColumnTypes
  BY LInvInit DEF LInv
<1>4. Len(columns) = 0 /\ Len(declared) = 0
  BY <1>2
<1>5. FixedAt(Len(columns) + 1) = 0
  <2>1. FixedSizes \in [1 .. 0 -> Nat]
    BY <1>3, <1>4, FixedSizesType
  <2>2. Sums(FixedSizes)[0] = 0
    BY <2>1, SumsAre
  <2>3. (0 + 1) - 1 = 0
    OBVIOUS
  <2> QED BY <1>4, <2>2, <2>3 DEF FixedAt
<1>6. MaxColumns \in Nat
  BY RowLayoutAssumption
<1> QED BY <1>1, <1>2, <1>3, <1>4, <1>5, <1>6 DEF MInv, Measured

LEMMA DeclareMeasured ==
  ASSUME MInv, NEW t \in Types, NEW key \in KeyWords, Declare(t, key)
  PROVE  MInv'
<1>0. LInv /\ ColumnTypes /\ Measured /\ LInv' /\ ColumnTypes' /\ MaxColumns \in Nat
  BY DeclareKeeps, RowLayoutAssumption DEF MInv, LInv
<1>1. /\ ~open /\ open' = open
      /\ declared' = Append(declared, [type |-> t, key |-> key])
      /\ Len(declared) < MaxColumns
  BY DEF Declare
<1>2. /\ Len(declared) \in Nat /\ Len(declared') = Len(declared) + 1
      /\ Len(declared') <= MaxColumns
  BY <1>0, <1>1 DEF ColumnTypes
<1>3. /\ Len(columns) <= Len(declared) /\ Len(columns) \in Nat
      /\ id <= Len(declared) /\ primary_key <= Len(declared)
      /\ id \in Nat /\ primary_key \in Nat
      /\ \A i \in 1 .. Len(columns) : ColumnOK(i)
      /\ offset = FixedAt(Len(columns) + 1)
      /\ has_primary => 1 <= Len(columns)
  BY <1>0, <1>1 DEF ColumnTypes, Measured
<1>4. CASE t = "unknown" /\ Skip
  <2>1. UNCHANGED <<id, columns, offset, has_primary, primary_key>>
    BY <1>4 DEF Skip
  <2>2. FixedAt(Len(columns) + 1)' = FixedAt(Len(columns) + 1)
    BY <2>1 DEF FixedAt, FixedSizes, Column
  <2>3. \A i \in 1 .. Len(columns') : ColumnOK(i)'
    BY <1>3, <2>1 DEF ColumnOK
  <2> QED BY <1>0, <1>1, <1>2, <1>3, <2>1, <2>2, <2>3 DEF MInv, Measured
<1>5. CASE /\ t # "unknown"
           /\ Emplaced(Len(declared'), t)
           /\ id' = IF Refused(t, key) THEN id ELSE id + 1
           /\ IF key = "primary" /\ ~Refused(t, key)
              THEN has_primary' = TRUE /\ primary_key' = id
              ELSE UNCHANGED <<has_primary, primary_key>>
  <2>1. /\ Len(columns') = Len(columns) + 1
        /\ columns'[Len(columns')] = [name |-> Len(declared'), type |-> t]
        /\ \A i \in 1 .. Len(columns) : columns'[i] = columns[i]
        /\ offset' = Sums(FixedSizes')[Len(columns')]
    BY <1>0, <1>2, <1>3, <1>5, EmplacedMeasured
  <2>2. offset' = FixedAt(Len(columns) + 1)'
    <3>1. (Len(columns') + 1) - 1 = Len(columns')
      BY <1>3, <2>1
    <3> QED BY <2>1, <3>1 DEF FixedAt
  <2>3. ASSUME NEW i \in 1 .. Len(columns') PROVE ColumnOK(i)'
    <3>1. CASE i \in 1 .. Len(columns)
      <4>1. columns'[i] = columns[i] /\ ColumnOK(i)
        BY <1>3, <2>1, <3>1
      <4> QED BY <4>1 DEF ColumnOK
    <3>2. CASE i = Len(columns) + 1
      <4>1. i <= MaxColumns /\ i \in Nat
        BY <1>0, <1>2, <1>3, <3>2
      <4>2. columns'[i].name = Len(declared') /\ columns'[i].type = t
        BY <2>1, <3>2
      <4> QED BY <1>0, <1>2, <1>5, <4>1, <4>2 DEF ColumnOK
    <3> QED BY <1>3, <2>1, <3>1, <3>2
  <2>4. id' \in Nat /\ primary_key' \in Nat /\ id' <= Len(declared') /\ primary_key' <= Len(declared')
    BY <1>2, <1>3, <1>5
  <2>5. Len(columns') <= Len(declared') /\ 1 <= Len(columns')
    BY <1>2, <1>3, <2>1
  <2> QED BY <1>0, <1>1, <1>2, <2>1, <2>2, <2>3, <2>4, <2>5, <1>3 DEF MInv, Measured
<1> QED BY <1>4, <1>5 DEF Declare

LEMMA EndDeclareMeasured ==
  ASSUME MInv, EndDeclare
  PROVE  MInv'
<1>0. LInv /\ ColumnTypes /\ Measured /\ LInv' /\ ColumnTypes' /\ MaxColumns \in Nat
  BY EndDeclareKeeps, RowLayoutAssumption DEF MInv, LInv
<1>1. ~open /\ open' /\ UNCHANGED <<id, has_primary, declared>>
  BY DEF EndDeclare
<1>2. /\ Len(columns) <= Len(declared) /\ Len(columns) \in Nat /\ Len(declared) \in Nat
      /\ Len(declared) <= MaxColumns
      /\ id <= Len(declared) /\ primary_key <= Len(declared)
      /\ \A i \in 1 .. Len(columns) : ColumnOK(i)
      /\ offset = FixedAt(Len(columns) + 1)
      /\ has_primary => 1 <= Len(columns)
  BY <1>0, <1>1 DEF ColumnTypes, Measured
<1>3. CASE has_primary
  <2>1. UNCHANGED <<columns, offset, primary_key>>
    BY <1>3 DEF EndDeclare
  <2>2. FixedAt(Len(columns) + 1)' = FixedAt(Len(columns) + 1)
    BY <2>1 DEF FixedAt, FixedSizes, Column
  <2>3. \A i \in 1 .. Len(columns') : ColumnOK(i)'
    BY <1>2, <2>1 DEF ColumnOK
  <2> QED BY <1>0, <1>1, <1>2, <1>3, <2>1, <2>2, <2>3 DEF MInv, Measured
<1>4. CASE ~has_primary
  <2>0. Emplaced(Hidden, "bigint") /\ primary_key' = id
    BY <1>4 DEF EndDeclare
  <2>1. /\ Len(columns') = Len(columns) + 1
        /\ columns'[Len(columns')] = [name |-> Hidden, type |-> "bigint"]
        /\ \A i \in 1 .. Len(columns) : columns'[i] = columns[i]
        /\ offset' = Sums(FixedSizes')[Len(columns')]
    <3>1. Hidden \in Nat /\ "bigint" \in Types
      BY DEF Hidden, Types
    <3> QED BY <1>0, <1>2, <2>0, <3>1, EmplacedMeasured
  <2>2. offset' = FixedAt(Len(columns) + 1)'
    <3>1. (Len(columns') + 1) - 1 = Len(columns')
      BY <1>2, <2>1
    <3> QED BY <2>1, <3>1 DEF FixedAt
  <2>3. ASSUME NEW i \in 1 .. Len(columns') PROVE ColumnOK(i)'
    <3>1. CASE i \in 1 .. Len(columns)
      <4>1. columns'[i] = columns[i] /\ ColumnOK(i)
        BY <1>2, <2>1, <3>1
      <4> QED BY <4>1 DEF ColumnOK
    <3>2. CASE i = Len(columns) + 1
      <4>2. columns'[i].name = 0 /\ columns'[i].type = "bigint"
        BY <2>1, <3>2 DEF Hidden
      <4> QED BY <1>0, <4>2 DEF ColumnOK
    <3> QED BY <1>2, <2>1, <3>1, <3>2
  <2>5. Len(columns') <= Len(declared') + 1 /\ 1 <= Len(columns')
    BY <1>1, <1>2, <2>1
  <2> QED BY <1>0, <1>1, <1>2, <2>0, <2>2, <2>3, <2>5 DEF MInv, Measured
<1> QED BY <1>3, <1>4

LEMMA MInvNext == MInv /\ [StoreNext]_storeVars => MInv'
<1> SUFFICES ASSUME MInv, [StoreNext]_storeVars PROVE MInv'
  OBVIOUS
<1>1. CASE \E t \in Types, key \in KeyWords : Declare(t, key)
  BY <1>1, DeclareMeasured
<1>2. CASE EndDeclare
  BY <1>2, EndDeclareMeasured
<1>3. CASE UNCHANGED layoutVars
  <2>1. LInv'
    BY LInvNext DEF MInv
  <2>2. Measured'
    BY <1>3 DEF MInv, layoutVars, Measured, ColumnOK, FixedAt, FixedSizes, Column
  <2> QED BY <2>1, <2>2 DEF MInv
<1>4. Construct \/ UNCHANGED layoutVars
  BY DEF StoreNext, Table, InsertRow, storeVars
<1> QED BY <1>1, <1>2, <1>3, <1>4 DEF Construct

LEMMA LayoutTypes == MInv => LayoutTypeOK
<1> SUFFICES ASSUME MInv PROVE LayoutTypeOK
  OBVIOUS
<1>1. ColumnTypes /\ Measured /\ MaxColumns \in Nat /\ Len(declared) \in Nat
  BY RowLayoutAssumption DEF MInv, LInv, ColumnTypes
<1>2. id \in 0 .. MaxColumns /\ primary_key \in 0 .. MaxColumns
  BY <1>1 DEF ColumnTypes, Measured
<1>3. Len(columns) \in Nat /\ columns \in [1 .. Len(columns) -> [name : Nat, type : Types]]
  <2> DEFINE R == [name : Nat, type : Types]
  <2>1. columns \in Seq(R)
    BY <1>1 DEF ColumnTypes
  <2> HIDE DEF R
  <2>2. Len(columns) \in Nat /\ columns \in [1 .. Len(columns) -> R]
    BY <2>1
  <2> QED BY <2>2 DEF R
<1>4. ASSUME NEW i \in 1 .. Len(columns)
      PROVE  columns[i] \in [name : 0 .. MaxColumns, type : Types \ {"unknown"}]
  <2>1. columns[i] \in [name : Nat, type : Types] /\ ColumnOK(i)
    BY <1>1, <1>3 DEF Measured
  <2>2. columns[i].name \in 0 .. MaxColumns /\ columns[i].type \in Types \ {"unknown"}
    BY <1>1, <2>1 DEF ColumnOK
  <2>3. columns[i] = [name |-> columns[i].name, type |-> columns[i].type]
    BY <2>1
  <2> QED BY <2>2, <2>3
<1>5. columns \in Seq([name : 0 .. MaxColumns, type : Types \ {"unknown"}])
  <2> DEFINE S == [name : 0 .. MaxColumns, type : Types \ {"unknown"}]
  <2>1. columns \in [1 .. Len(columns) -> S]
    BY <1>3, <1>4
  <2> HIDE DEF S
  <2>2. columns \in Seq(S)
    BY <1>3, <2>1
  <2> QED BY <2>2 DEF S
<1>6. offset \in Nat
  <2>1. FixedSizes \in [1 .. Len(columns) -> Nat]
    BY <1>1, FixedSizesType
  <2>2. (Len(columns) + 1) - 1 = Len(columns) /\ Len(columns) \in 0 .. Len(columns)
    BY <1>3
  <2>3. Sums(FixedSizes)[Len(columns)] \in Nat
    BY <1>3, <2>1, <2>2, SumsAre
  <2> QED BY <1>1, <2>2, <2>3 DEF Measured, FixedAt
<1> QED BY <1>1, <1>2, <1>5, <1>6 DEF LayoutTypeOK, ColumnTypes
-----------------------------------------------------------------------------
\* The places of the columns and of the strings of one row.
Laid(lens) ==
  /\ \A i \in Column :
       /\ FixedAt(i) \in Nat
       /\ FixedAt(i) + TypeSize(columns[i].type) <= offset
       /\ StringAt(lens, i) \in Nat /\ offset <= StringAt(lens, i)
       /\ i \in Texts => StringAt(lens, i) + lens[i] <= raw_size(lens)
  /\ \A i, j \in Column : i < j =>
       /\ FixedAt(i) + TypeSize(columns[i].type) <= FixedAt(j)
       /\ i \in Texts => StringAt(lens, i) + lens[i] <= StringAt(lens, j)
  /\ offset \in Nat /\ raw_size(lens) \in Nat /\ offset <= raw_size(lens)

\* What holds of sums holds of places: with f the sums of the sizes.
LEMMA SumsApart ==
  ASSUME NEW n \in Nat, NEW size \in [1 .. n -> Nat], NEW f, f = Sums(size)
  PROVE  /\ \A i \in 1 .. n : f[i - 1] \in Nat /\ f[i - 1] + size[i] <= f[n]
         /\ \A i, j \in 1 .. n : i < j => f[i - 1] + size[i] <= f[j - 1]
         /\ f[n] \in Nat
<1>1. /\ \A i \in 1 .. n : f[i] = f[i - 1] + size[i]
      /\ \A i \in 0 .. n : f[i] \in Nat
  BY SumsAre
<1>2. \A i, j \in 0 .. n : i <= j => f[i] <= f[j]
  BY SumsGrow
<1>3. ASSUME NEW i \in 1 .. n
      PROVE  f[i - 1] \in Nat /\ f[i - 1] + size[i] <= f[n]
  <2>1. i - 1 \in 0 .. n /\ i \in 0 .. n /\ n \in 0 .. n /\ i <= n
    OBVIOUS
  <2>2. f[i] = f[i - 1] + size[i] /\ f[i] <= f[n] /\ f[i - 1] \in Nat
    BY <1>1, <1>2, <2>1
  <2> QED BY <2>2
<1>4. ASSUME NEW i \in 1 .. n, NEW j \in 1 .. n, i < j
      PROVE  f[i - 1] + size[i] <= f[j - 1]
  <2>1. j - 1 \in 0 .. n /\ i \in 0 .. n /\ i <= j - 1
    BY <1>4
  <2>2. f[i] = f[i - 1] + size[i] /\ f[i] <= f[j - 1]
    BY <1>1, <1>2, <2>1
  <2> QED BY <2>2
<1>5. f[n] \in Nat
  <2>1. n \in 0 .. n
    OBVIOUS
  <2> QED BY <1>1, <2>1
<1> QED BY <1>3, <1>4, <1>5

LEMMA TextSizesType ==
  ASSUME ColumnTypes, NEW lens \in Lengths
  PROVE  /\ TextSizes(lens) \in [1 .. Len(columns) -> Nat]
         /\ \A i \in 1 .. Len(columns) :
              /\ i \in Texts => /\ TextSizes(lens)[i] = lens[i] /\ lens[i] \in Nat
                                /\ 1 <= lens[i] /\ lens[i] <= MaxLen
              /\ i \notin Texts => TextSizes(lens)[i] = 0
<1>1. Column = 1 .. Len(columns)
  BY FixedSizesType
<1>2. MaxLen \in Nat
  BY RowLayoutAssumption
<1>3. ASSUME NEW i \in Texts
      PROVE  lens[i] \in Nat /\ 1 <= lens[i] /\ lens[i] <= MaxLen
  BY <1>2 DEF Lengths
<1> QED BY <1>1, <1>3 DEF TextSizes

LEMMA RowLaid ==
  ASSUME MInv, NEW lens \in Lengths
  PROVE  Laid(lens)
<1>0. ColumnTypes /\ offset = FixedAt(Len(columns) + 1)
  BY DEF MInv, LInv, Measured
<1>1. PICK n \in Nat : n = Len(columns)
  BY <1>0, FixedSizesType
<1>2. PICK f : f = Sums(FixedSizes)
  OBVIOUS
<1>3. PICK g : g = Sums(TextSizes(lens))
  OBVIOUS
<1>4. PICK s : s = FixedSizes
  OBVIOUS
<1>5. PICK t : t = TextSizes(lens)
  OBVIOUS
<1>6. Column = 1 .. n /\ s \in [1 .. n -> Nat]
      /\ \A i \in 1 .. n : s[i] = TypeSize(columns[i].type)
  BY <1>0, <1>1, <1>4, FixedSizesType
<1>7. /\ t \in [1 .. n -> Nat]
      /\ \A i \in 1 .. n : i \in Texts => t[i] = lens[i]
  BY <1>0, <1>1, <1>5, TextSizesType
<1>8. /\ \A i \in 1 .. n : f[i - 1] \in Nat /\ f[i - 1] + s[i] <= f[n]
      /\ \A i, j \in 1 .. n : i < j => f[i - 1] + s[i] <= f[j - 1]
      /\ f[n] \in Nat
  BY <1>2, <1>4, <1>6, SumsApart
<1>9. /\ \A i \in 1 .. n : g[i - 1] \in Nat /\ g[i - 1] + t[i] <= g[n]
      /\ \A i, j \in 1 .. n : i < j => g[i - 1] + t[i] <= g[j - 1]
      /\ g[n] \in Nat
  BY <1>3, <1>5, <1>7, SumsApart
<1>10. \A i : FixedAt(i) = f[i - 1] /\ StringAt(lens, i) = offset + g[i - 1]
  BY <1>2, <1>3 DEF FixedAt, StringAt
<1>11. offset = f[n] /\ raw_size(lens) = offset + g[n]
  <2>1. (n + 1) - 1 = n
    OBVIOUS
  <2> QED BY <1>0, <1>1, <1>10, <2>1 DEF raw_size
<1>12. ASSUME NEW i \in Column
       PROVE  /\ FixedAt(i) \in Nat
              /\ FixedAt(i) + TypeSize(columns[i].type) <= offset
              /\ StringAt(lens, i) \in Nat /\ offset <= StringAt(lens, i)
              /\ i \in Texts => StringAt(lens, i) + lens[i] <= raw_size(lens)
  <2>1. i \in 1 .. n /\ s[i] = TypeSize(columns[i].type) /\ (i \in Texts => t[i] = lens[i])
    BY <1>6, <1>7
  <2>2. f[i - 1] \in Nat /\ f[i - 1] + s[i] <= f[n]
    BY <1>8, <2>1
  <2>3. g[i - 1] \in Nat /\ g[i - 1] + t[i] <= g[n] /\ t[i] \in Nat
    BY <1>7, <1>9, <2>1
  <2>4. FixedAt(i) = f[i - 1] /\ StringAt(lens, i) = offset + g[i - 1]
    BY <1>10
  <2> QED BY <1>8, <1>9, <1>11, <2>1, <2>2, <2>3, <2>4
<1>13. ASSUME NEW i \in Column, NEW j \in Column, i < j
       PROVE  /\ FixedAt(i) + TypeSize(columns[i].type) <= FixedAt(j)
              /\ i \in Texts => StringAt(lens, i) + lens[i] <= StringAt(lens, j)
  <2>1. i \in 1 .. n /\ j \in 1 .. n /\ s[i] = TypeSize(columns[i].type)
        /\ (i \in Texts => t[i] = lens[i])
    BY <1>6, <1>7
  <2>2. f[i - 1] + s[i] <= f[j - 1]
    BY <1>8, <1>13, <2>1
  <2>3. g[i - 1] + t[i] <= g[j - 1] /\ g[i - 1] \in Nat /\ g[j - 1] \in Nat /\ t[i] \in Nat
    BY <1>7, <1>9, <1>13, <2>1
  <2>4. /\ FixedAt(i) = f[i - 1] /\ StringAt(lens, i) = offset + g[i - 1]
        /\ FixedAt(j) = f[j - 1] /\ StringAt(lens, j) = offset + g[j - 1]
    BY <1>10
  <2> QED BY <1>8, <1>11, <2>1, <2>2, <2>3, <2>4
<1>14. offset \in Nat /\ raw_size(lens) \in Nat /\ offset <= raw_size(lens)
  BY <1>8, <1>9, <1>11
<1> QED BY <1>12, <1>13, <1>14 DEF Laid

\* The lengths of records that rows may have.
RowSizesAllowed ==
  Word .. 2 * Word * (MaxColumns + 1) + MaxColumns * MaxLen \subseteq Sizes

LEMMA RowSizesKnown ==
  ASSUME RowSizesAllowed, MInv, open, NEW lens \in Lengths
  PROVE  raw_size(lens) \in Sizes
<1>0. /\ Word \in Nat /\ 1 <= Word /\ MaxColumns \in Nat /\ MaxLen \in Nat
      /\ ColumnTypes /\ Measured
  BY RowLayoutAssumption DEF MInv, LInv
<1>1. PICK n \in Nat : n = Len(columns)
  BY <1>0, FixedSizesType
<1>2. /\ 1 <= n /\ n <= MaxColumns + 1
      /\ \A i \in 1 .. n : i > MaxColumns => columns[i].type # "text"
      /\ offset = FixedAt(n + 1)
  <2>1. Len(declared) \in Nat /\ Len(declared) <= MaxColumns /\ n <= Len(declared) + 1
    BY <1>0, <1>1 DEF Measured, ColumnTypes
  <2> QED BY <1>0, <1>1, <2>1 DEF Measured, ColumnOK
<1>3. PICK s : s = FixedSizes
  OBVIOUS
<1>4. PICK t : t = TextSizes(lens)
  OBVIOUS
<1>5. Column = 1 .. n /\ s \in [1 .. n -> Nat]
      /\ \A i \in 1 .. n : s[i] = TypeSize(columns[i].type)
  BY <1>0, <1>1, <1>3, FixedSizesType
<1>6. /\ t \in [1 .. n -> Nat]
      /\ \A i \in 1 .. n : t[i] <= MaxLen
      /\ \A i \in 1 .. n : i > MaxColumns => t[i] = 0
  <2>1. \A i \in 1 .. n : i > MaxColumns => i \notin Texts
    BY <1>2 DEF Texts
  <2> QED BY <1>0, <1>1, <1>4, <2>1, TextSizesType
<1>7. Word <= Sums(s)[n] /\ Sums(s)[n] \in Nat /\ Sums(s)[n] <= n * (2 * Word)
  <2>1. \A i \in 1 .. n : s[i] <= 2 * Word /\ Word <= s[i]
    BY <1>5, TypeSizes
  <2>2. n \in 0 .. n /\ 2 * Word \in Nat /\ 1 \in 1 .. n /\ 1 \in 0 .. n /\ 1 - 1 = 0
    BY <1>0, <1>2
  <2>3. Sums(s)[n] <= n * (2 * Word)
    BY <1>5, <2>1, <2>2, SumsBound
  <2>4. Sums(s)[0] = 0 /\ Sums(s)[1] = Sums(s)[1 - 1] + s[1] /\ Sums(s)[n] \in Nat
    BY <1>5, <2>2, SumsAre
  <2>5. Sums(s)[1] <= Sums(s)[n]
    BY <1>2, <1>5, <2>2, SumsGrow
  <2>6. s[1] \in Nat /\ Word <= s[1]
    BY <1>5, <2>1, <2>2
  <2>7. Sums(s)[1] = s[1]
    BY <2>2, <2>4, <2>6
  <2> QED BY <1>0, <2>3, <2>4, <2>5, <2>6, <2>7
<1>8. Sums(t)[n] \in Nat /\ Sums(t)[n] <= MaxColumns * MaxLen
  <2>1. \A k \in 0 .. n : Sums(t)[k] <= k * MaxLen /\ Sums(t)[k] \in Nat
    BY <1>0, <1>6, SumsBound, SumsAre
  <2>2. CASE n <= MaxColumns
    <3>1. n \in 0 .. n
      OBVIOUS
    <3>2. Sums(t)[n] <= n * MaxLen /\ Sums(t)[n] \in Nat
      BY <2>1, <3>1
    <3>3. n * MaxLen <= MaxColumns * MaxLen
      BY <1>0, <2>2
    <3>4. n * MaxLen \in Int /\ MaxColumns * MaxLen \in Int
      BY <1>0
    <3> DEFINE x == n * MaxLen
               y == MaxColumns * MaxLen
    <3>5. Sums(t)[n] <= x /\ x <= y /\ x \in Int /\ y \in Int
      BY <3>2, <3>3, <3>4
    <3> HIDE DEF x, y
    <3>6. Sums(t)[n] <= y
      BY <3>2, <3>5
    <3> QED BY <3>2, <3>6 DEF y
  <2>3. CASE n = MaxColumns + 1
    <3>1. n \in 1 .. n /\ n > MaxColumns /\ n - 1 = MaxColumns /\ MaxColumns \in 0 .. n
      BY <1>0, <2>3
    <3>2. t[n] = 0 /\ Sums(t)[n] = Sums(t)[n - 1] + t[n]
      BY <1>6, <3>1, SumsAre
    <3>3. Sums(t)[MaxColumns] <= MaxColumns * MaxLen /\ Sums(t)[MaxColumns] \in Nat
      BY <2>1, <3>1
    <3>4. Sums(t)[n] = Sums(t)[MaxColumns]
      BY <3>1, <3>2, <3>3
    <3> QED BY <3>3, <3>4
  <2> QED BY <1>0, <1>2, <2>2, <2>3
<1>9. raw_size(lens) = Sums(s)[n] + Sums(t)[n]
  <2>1. (n + 1) - 1 = n
    OBVIOUS
  <2> QED BY <1>1, <1>2, <1>3, <1>4, <2>1 DEF raw_size, StringAt, FixedAt
<1>10. n * (2 * Word) <= 2 * Word * (MaxColumns + 1)
  <2>1. PICK w \in Nat : w = 2 * Word
    BY <1>0
  <2>2. PICK m \in Nat : m = MaxColumns + 1
    BY <1>0
  <2>3. n * w <= w * m
    BY <1>2, <2>2
  <2> QED BY <2>1, <2>2, <2>3
<1>11. n * (2 * Word) \in Int /\ 2 * Word * (MaxColumns + 1) \in Int /\ MaxColumns * MaxLen \in Int
  BY <1>0
<1> DEFINE x == n * (2 * Word)
           y == 2 * Word * (MaxColumns + 1)
           z == MaxColumns * MaxLen
<1>12. /\ Sums(s)[n] <= x /\ x <= y /\ Sums(t)[n] <= z
       /\ x \in Int /\ y \in Int /\ z \in Int
  BY <1>7, <1>8, <1>10, <1>11
<1>13. Word .. y + z \subseteq Sizes
  BY DEF RowSizesAllowed
<1> HIDE DEF x, y, z
<1>14. raw_size(lens) \in Word .. y + z
  BY <1>0, <1>7, <1>8, <1>9, <1>12
<1> QED BY <1>13, <1>14
-----------------------------------------------------------------------------
\* Column i puts byte b at address a of its row.
Holds(row, lens, i, a, b) ==
  \/ i \in Texts /\ \E k \in 1 .. Word :
       a = FixedAt(i) + k - 1 /\ b = <<"number", StringAt(lens, i), 0, k>>
  \/ i \in Texts /\ \E k \in 1 .. Word :
       a = FixedAt(i) + Word + k - 1 /\ b = <<"number", lens[i], 0, k>>
  \/ i \in Texts /\ \E k \in 1 .. lens[i] :
       a = StringAt(lens, i) + k - 1 /\ b = <<"value", row, i, k>>
  \/ i \notin Texts /\ \E k \in 1 .. TypeSize(columns[i].type) :
       a = FixedAt(i) + k - 1 /\ b = <<"value", row, i, k>>

LEMMA PutNumber ==
  ASSUME NEW at, NEW n, NEW c
  PROVE  c \in Put(at, NumberBytes(n)) <=>
           \E k \in 1 .. Word : c = <<at + k - 1, <<"number", n, 0, k>>>>
BY DEF Put, NumberBytes

LEMMA PutValue ==
  ASSUME NEW at, NEW row, NEW i, NEW n, NEW c
  PROVE  c \in Put(at, ValueBytes(row, i, n)) <=>
           \E k \in 1 .. n : c = <<at + k - 1, <<"value", row, i, k>>>>
BY DEF Put, ValueBytes

LEMMA RowBytes ==
  ASSUME NEW row, NEW lens, NEW c
  PROVE  c \in rec2raw(row, lens) <=>
           \E i \in Column : \E a, b : c = <<a, b>> /\ Holds(row, lens, i, a, b)
<1> DEFINE Of(i) == IF i \in Texts
                    THEN Put(FixedAt(i), NumberBytes(StringAt(lens, i)))
                           \cup Put(FixedAt(i) + Word, NumberBytes(lens[i]))
                           \cup Put(StringAt(lens, i), ValueBytes(row, i, lens[i]))
                    ELSE Put(FixedAt(i), ValueBytes(row, i, TypeSize(columns[i].type)))
<1>1. c \in rec2raw(row, lens) <=> \E i \in Column : c \in Of(i)
  BY DEF rec2raw
<1>2. ASSUME NEW i \in Column
      PROVE  c \in Of(i) <=> \E a, b : c = <<a, b>> /\ Holds(row, lens, i, a, b)
  <2>1. CASE i \in Texts
    <3>1. c \in Of(i) <=>
            \/ c \in Put(FixedAt(i), NumberBytes(StringAt(lens, i)))
            \/ c \in Put(FixedAt(i) + Word, NumberBytes(lens[i]))
            \/ c \in Put(StringAt(lens, i), ValueBytes(row, i, lens[i]))
      BY <2>1
    <3>2. c \in Of(i) <=>
            \/ \E k \in 1 .. Word : c = <<FixedAt(i) + k - 1, <<"number", StringAt(lens, i), 0, k>>>>
            \/ \E k \in 1 .. Word : c = <<FixedAt(i) + Word + k - 1, <<"number", lens[i], 0, k>>>>
            \/ \E k \in 1 .. lens[i] : c = <<StringAt(lens, i) + k - 1, <<"value", row, i, k>>>>
      <4>1. c \in Put(FixedAt(i), NumberBytes(StringAt(lens, i))) <=>
              \E k \in 1 .. Word : c = <<FixedAt(i) + k - 1, <<"number", StringAt(lens, i), 0, k>>>>
        BY PutNumber
      <4>2. c \in Put(FixedAt(i) + Word, NumberBytes(lens[i])) <=>
              \E k \in 1 .. Word : c = <<FixedAt(i) + Word + k - 1, <<"number", lens[i], 0, k>>>>
        BY PutNumber
      <4>3. c \in Put(StringAt(lens, i), ValueBytes(row, i, lens[i])) <=>
              \E k \in 1 .. lens[i] : c = <<StringAt(lens, i) + k - 1, <<"value", row, i, k>>>>
        BY PutValue
      <4> HIDE DEF Of
      <4> QED BY <3>1, <4>1, <4>2, <4>3, Zenon
    <3> HIDE DEF Of
    <3> QED BY <2>1, <3>2, Zenon DEF Holds
  <2>2. CASE i \notin Texts
    <3>1. c \in Of(i) <=> c \in Put(FixedAt(i), ValueBytes(row, i, TypeSize(columns[i].type)))
      BY <2>2
    <3>2. c \in Of(i) <=>
            \E k \in 1 .. TypeSize(columns[i].type) :
              c = <<FixedAt(i) + k - 1, <<"value", row, i, k>>>>
      <4>1. c \in Put(FixedAt(i), ValueBytes(row, i, TypeSize(columns[i].type))) <=>
              \E k \in 1 .. TypeSize(columns[i].type) :
                c = <<FixedAt(i) + k - 1, <<"value", row, i, k>>>>
        BY PutValue
      <4> HIDE DEF Of
      <4> QED BY <3>1, <4>1, Zenon
    <3> HIDE DEF Of
    <3> QED BY <2>2, <3>2, Zenon DEF Holds
  <2> QED BY <2>1, <2>2
<1> HIDE DEF Of
<1> QED BY <1>1, <1>2

LEMMA HoldsWhere ==
  ASSUME MInv, NEW lens \in Lengths, NEW row, NEW i \in Column, NEW a, NEW b,
         Holds(row, lens, i, a, b)
  PROVE  /\ a \in Nat /\ a < raw_size(lens)
         /\ \/ FixedAt(i) <= a /\ a < FixedAt(i) + TypeSize(columns[i].type) /\ a < offset
            \/ /\ i \in Texts /\ offset <= a
               /\ StringAt(lens, i) <= a /\ a < StringAt(lens, i) + lens[i]
<1>1. /\ FixedAt(i) \in Nat
      /\ FixedAt(i) + TypeSize(columns[i].type) <= offset
      /\ StringAt(lens, i) \in Nat /\ offset <= StringAt(lens, i)
      /\ i \in Texts => StringAt(lens, i) + lens[i] <= raw_size(lens)
      /\ offset \in Nat /\ raw_size(lens) \in Nat /\ offset <= raw_size(lens)
  BY RowLaid DEF Laid
<1>2. TypeSize(columns[i].type) \in Nat /\ Word \in Nat
      /\ (i \in Texts => TypeSize(columns[i].type) = Word + Word)
  BY TypeSizes DEF Texts
<1>3. i \in Texts => lens[i] \in Nat
  <2>1. ColumnTypes /\ i \in 1 .. Len(columns)
    BY FixedSizesType DEF MInv, LInv
  <2> QED BY <2>1, TextSizesType
<1>4. CASE i \in Texts /\ \E k \in 1 .. Word : a = FixedAt(i) + k - 1
  BY <1>1, <1>2, <1>4
<1>5. CASE i \in Texts /\ \E k \in 1 .. Word : a = FixedAt(i) + Word + k - 1
  BY <1>1, <1>2, <1>5
<1>6. CASE i \in Texts /\ \E k \in 1 .. lens[i] : a = StringAt(lens, i) + k - 1
  BY <1>1, <1>3, <1>6
<1>7. CASE i \notin Texts /\ \E k \in 1 .. TypeSize(columns[i].type) : a = FixedAt(i) + k - 1
  BY <1>1, <1>2, <1>7
<1> QED BY <1>4, <1>5, <1>6, <1>7 DEF Holds

\* No address is written twice in a row.
LEMMA HoldsOnce ==
  ASSUME MInv, NEW lens \in Lengths, NEW row, NEW i \in Column, NEW j \in Column,
         NEW a, NEW b, NEW c, Holds(row, lens, i, a, b), Holds(row, lens, j, a, c)
  PROVE  b = c
<1>0. i \in Nat /\ j \in Nat
  <2>1. ColumnTypes
    BY DEF MInv, LInv
  <2> QED BY <2>1, FixedSizesType
<1>1. ASSUME NEW x \in Column, NEW y \in Column, x < y,
             NEW d, NEW e, Holds(row, lens, x, a, d), Holds(row, lens, y, a, e)
      PROVE  FALSE
  <2>1. Laid(lens)
    BY RowLaid
  <2>2. /\ FixedAt(x) + TypeSize(columns[x].type) <= FixedAt(y)
        /\ x \in Texts => StringAt(lens, x) + lens[x] <= StringAt(lens, y)
        /\ FixedAt(x) \in Nat /\ FixedAt(y) \in Nat
        /\ StringAt(lens, x) \in Nat /\ StringAt(lens, y) \in Nat
        /\ offset \in Nat
    BY <1>1, <2>1 DEF Laid
  <2>3. TypeSize(columns[x].type) \in Nat /\ (x \in Texts => lens[x] \in Nat)
    <3>1. ColumnTypes /\ x \in 1 .. Len(columns)
      BY FixedSizesType DEF MInv, LInv
    <3> QED BY <3>1, TextSizesType, TypeSizes
  <2>4. /\ a \in Nat
        /\ \/ FixedAt(x) <= a /\ a < FixedAt(x) + TypeSize(columns[x].type) /\ a < offset
           \/ /\ x \in Texts /\ offset <= a
              /\ StringAt(lens, x) <= a /\ a < StringAt(lens, x) + lens[x]
    BY <1>1, HoldsWhere
  <2>5. \/ FixedAt(y) <= a /\ a < offset
        \/ offset <= a /\ StringAt(lens, y) <= a
    BY <1>1, HoldsWhere
  <2> QED BY <2>2, <2>3, <2>4, <2>5
<1>2. CASE i = j
  <2>1. /\ FixedAt(i) \in Nat
        /\ FixedAt(i) + TypeSize(columns[i].type) <= offset
        /\ StringAt(lens, i) \in Nat /\ offset <= StringAt(lens, i) /\ offset \in Nat
    BY RowLaid DEF Laid
  <2>2. TypeSize(columns[i].type) \in Nat /\ Word \in Nat
        /\ (i \in Texts => TypeSize(columns[i].type) = Word + Word)
    BY TypeSizes DEF Texts
  <2>3. i \in Texts => lens[i] \in Nat
    <3>1. ColumnTypes /\ i \in 1 .. Len(columns)
      BY FixedSizesType DEF MInv, LInv
    <3> QED BY <3>1, TextSizesType
  <2> DEFINE First(x, k) == k \in 1 .. Word /\ a = FixedAt(i) + k - 1
                              /\ x = <<"number", StringAt(lens, i), 0, k>>
             Second(x, k) == k \in 1 .. Word /\ a = FixedAt(i) + Word + k - 1
                              /\ x = <<"number", lens[i], 0, k>>
             Third(x, k) == k \in 1 .. lens[i] /\ a = StringAt(lens, i) + k - 1
                              /\ x = <<"value", row, i, k>>
  <2>4. CASE i \in Texts
    <3>1. /\ \E k : First(b, k) \/ Second(b, k) \/ Third(b, k)
          /\ \E k : First(c, k) \/ Second(c, k) \/ Third(c, k)
      BY <1>2, <2>4 DEF Holds
    <3>2. PICK k : First(b, k) \/ Second(b, k) \/ Third(b, k)
      BY <3>1
    <3>3. PICK m : First(c, m) \/ Second(c, m) \/ Third(c, m)
      BY <3>1
    <3>4. PICK f \in Nat : f = FixedAt(i)
      BY <2>1
    <3>5. PICK t \in Nat : t = StringAt(lens, i)
      BY <2>1
    <3>6. PICK l \in Nat : l = lens[i]
      BY <2>3, <2>4
    <3>7. f + Word + Word <= t /\ Word \in Nat
      BY <2>1, <2>2, <2>4, <3>4, <3>5
    <3>8. CASE First(b, k)
      <4>1. k \in 1 .. Word /\ a = f + k - 1
        BY <3>4, <3>8
      <4>2. First(c, m) /\ k = m
        <5>1. First(c, m) => m \in 1 .. Word /\ a = f + m - 1
          BY <3>4
        <5>2. Second(c, m) => m \in 1 .. Word /\ a = f + Word + m - 1
          BY <3>4
        <5>3. Third(c, m) => m \in 1 .. l /\ a = t + m - 1
          BY <3>5, <3>6
        <5> HIDE DEF First, Second, Third
        <5> QED BY <3>3, <3>7, <4>1, <5>1, <5>2, <5>3
      <4> QED BY <3>8, <4>2
    <3>9. CASE Second(b, k)
      <4>1. k \in 1 .. Word /\ a = f + Word + k - 1
        BY <3>4, <3>9
      <4>2. Second(c, m) /\ k = m
        <5>1. First(c, m) => m \in 1 .. Word /\ a = f + m - 1
          BY <3>4
        <5>2. Second(c, m) => m \in 1 .. Word /\ a = f + Word + m - 1
          BY <3>4
        <5>3. Third(c, m) => m \in 1 .. l /\ a = t + m - 1
          BY <3>5, <3>6
        <5> HIDE DEF First, Second, Third
        <5> QED BY <3>3, <3>7, <4>1, <5>1, <5>2, <5>3
      <4> QED BY <3>9, <4>2
    <3>10. CASE Third(b, k)
      <4>1. k \in 1 .. l /\ a = t + k - 1
        BY <3>5, <3>6, <3>10
      <4>2. Third(c, m) /\ k = m
        <5>1. First(c, m) => m \in 1 .. Word /\ a = f + m - 1
          BY <3>4
        <5>2. Second(c, m) => m \in 1 .. Word /\ a = f + Word + m - 1
          BY <3>4
        <5>3. Third(c, m) => m \in 1 .. l /\ a = t + m - 1
          BY <3>5, <3>6
        <5> HIDE DEF First, Second, Third
        <5> QED BY <3>3, <3>7, <4>1, <5>1, <5>2, <5>3
      <4> QED BY <3>10, <4>2
    <3> HIDE DEF First, Second, Third
    <3> QED BY <3>2, <3>8, <3>9, <3>10
  <2>5. CASE i \notin Texts
    <3>1. PICK k \in 1 .. TypeSize(columns[i].type) :
            a = FixedAt(i) + k - 1 /\ b = <<"value", row, i, k>>
      BY <2>5 DEF Holds
    <3>2. PICK m \in 1 .. TypeSize(columns[i].type) :
            a = FixedAt(i) + m - 1 /\ c = <<"value", row, i, m>>
      BY <1>2, <2>5 DEF Holds
    <3>3. k = m
      BY <2>1, <2>2, <3>1, <3>2
    <3> QED BY <3>1, <3>2, <3>3
  <2> QED BY <2>4, <2>5
<1> QED BY <1>0, <1>1, <1>2

\* As far as the row reaches, raw has its bytes and no others.
SameBytes(raw, row, lens) ==
  \A a \in 0 .. raw_size(lens) - 1 :
    {c \in raw : c[1] = a} = {c \in rec2raw(row, lens) : c[1] = a}

LEMMA ByteFound ==
  ASSUME MInv, NEW lens \in Lengths, NEW row, NEW i \in Column, NEW a, NEW b,
         Holds(row, lens, i, a, b), NEW raw, SameBytes(raw, row, lens)
  PROVE  ByteAt(raw, a) = b
<1>1. a \in 0 .. raw_size(lens) - 1
  <2>1. a \in Nat /\ a < raw_size(lens)
    BY HoldsWhere
  <2>2. raw_size(lens) \in Nat
    BY RowLaid DEF Laid
  <2> QED BY <2>1, <2>2
<1>2. PICK e : e = <<a, b>>
  OBVIOUS
<1>3. e \in rec2raw(row, lens) /\ e[1] = a /\ e[2] = b
  BY <1>2, RowBytes
<1>4. ASSUME NEW c \in rec2raw(row, lens), c[1] = a PROVE c = e
  <2>1a. PICK j \in Column : \E x, y : c = <<x, y>> /\ Holds(row, lens, j, x, y)
    BY RowBytes
  <2>1. PICK x, y : c = <<x, y>> /\ Holds(row, lens, j, x, y)
    BY <2>1a
  <2>2. x = a
    BY <1>4, <2>1
  <2>3. y = b
    BY <2>1, <2>2, HoldsOnce
  <2> QED BY <1>2, <2>1, <2>2, <2>3
<1>5. {c \in raw : c[1] = a} = {e}
  <2>1. {c \in raw : c[1] = a} = {c \in rec2raw(row, lens) : c[1] = a}
    BY <1>1 DEF SameBytes
  <2>2. {c \in rec2raw(row, lens) : c[1] = a} = {e}
    BY <1>3, <1>4
  <2> QED BY <2>1, <2>2
<1>6. (CHOOSE c \in {e} : TRUE) = e
  OBVIOUS
<1> QED BY <1>3, <1>5, <1>6 DEF ByteAt

\* raw2rec returns what rec2raw was given.
LEMMA ColumnRead ==
  ASSUME MInv, NEW lens \in Lengths, NEW row, NEW i \in Column,
         NEW raw, SameBytes(raw, row, lens)
  PROVE  raw2rec(raw, i) =
           ValueBytes(row, i, IF i \in Texts THEN lens[i] ELSE TypeSize(columns[i].type))
<1>1. ASSUME NEW j \in Texts PROVE ReadLength(raw, j) = lens[j]
  <2>1. j \in Column /\ 1 \in 1 .. Word /\ Word \in Nat
    BY RowLayoutAssumption DEF Texts
  <2>2. FixedAt(j) \in Nat
    BY <2>1, RowLaid DEF Laid
  <2>3. FixedAt(j) + Word = FixedAt(j) + Word + 1 - 1
    BY <2>1, <2>2
  <2>4. Holds(row, lens, j, FixedAt(j) + Word, <<"number", lens[j], 0, 1>>)
    BY <2>1, <2>3 DEF Holds
  <2>5. ByteAt(raw, FixedAt(j) + Word) = <<"number", lens[j], 0, 1>>
    BY <2>1, <2>4, ByteFound
  <2> QED BY <2>5 DEF ReadLength
<1>2. [j \in Texts |-> ReadLength(raw, j)] = lens
  BY <1>1 DEF Lengths
<1>3. CASE i \in Texts
  <2>1. ASSUME NEW k \in 1 .. lens[i]
        PROVE  ByteAt(raw, StringAt(lens, i) + k - 1) = <<"value", row, i, k>>
    <3>1. Holds(row, lens, i, StringAt(lens, i) + k - 1, <<"value", row, i, k>>)
      BY <1>3 DEF Holds
    <3> QED BY <3>1, ByteFound
  <2>2. ReadBytes(raw, StringAt(lens, i), lens[i]) = ValueBytes(row, i, lens[i])
    BY <2>1 DEF ReadBytes, ValueBytes
  <2>3. raw2rec(raw, i) = ReadBytes(raw, StringAt(lens, i), lens[i])
    BY <1>1, <1>2, <1>3 DEF raw2rec
  <2> QED BY <1>3, <2>2, <2>3
<1>4. CASE i \notin Texts
  <2>1. ASSUME NEW k \in 1 .. TypeSize(columns[i].type)
        PROVE  ByteAt(raw, FixedAt(i) + k - 1) = <<"value", row, i, k>>
    <3>1. Holds(row, lens, i, FixedAt(i) + k - 1, <<"value", row, i, k>>)
      BY <1>4 DEF Holds
    <3> QED BY <3>1, ByteFound
  <2>2. ReadBytes(raw, FixedAt(i), TypeSize(columns[i].type))
          = ValueBytes(row, i, TypeSize(columns[i].type))
    BY <2>1 DEF ReadBytes, ValueBytes
  <2> QED BY <1>4, <2>2 DEF raw2rec
<1> QED BY <1>3, <1>4
-----------------------------------------------------------------------------
\* Every row that was kept has its record, with the length of the row; no two
\* have the same; and the bytes of the pages are those of the rows.
RecordOf(r) ==
  [page |-> r.page, slot |-> r.slot, start |-> get_rec(r.page, r.slot),
   size |-> raw_size(r.lens)]

RowKept(r) ==
  /\ open /\ r.page \in PageIds /\ r.slot \in Nat /\ r.lens \in Lengths
  /\ RecordOf(r) \in placed

ByteOf(r, b) ==
  \E c \in rec2raw(r.row, r.lens) :
    b = <<r.page, get_rec(r.page, r.slot) + c[1], c[2]>>

RowsKept ==
  /\ \A r \in kept : RowKept(r)
  /\ \A r, q \in kept : r.page = q.page /\ r.slot = q.slot => r = q
  /\ \A b : b \in bytes <=> \E r \in kept : ByteOf(r, b)

SInv == IInv /\ MInv /\ RowsKept

\* The bytes of another record are not within this row's.
LEMMA OtherBytes ==
  ASSUME SInv, NEW r \in kept, NEW q \in kept, q # r, q.page = r.page,
         NEW x \in Nat, x < raw_size(r.lens), NEW y \in Nat, y < raw_size(q.lens)
  PROVE  get_rec(q.page, q.slot) + y # get_rec(r.page, r.slot) + x
<1> DEFINE a == RecordOf(r)
           b == RecordOf(q)
<1>1. RowKept(r) /\ RowKept(q) /\ q.slot # r.slot
  BY DEF SInv, RowsKept
<1>2. a \in placed /\ b \in placed
  BY <1>1 DEF RowKept
<1>3. /\ a.page = b.page /\ a.slot # b.slot
      /\ a.start = get_rec(r.page, r.slot) /\ a.size = raw_size(r.lens)
      /\ b.start = get_rec(q.page, q.slot) /\ b.size = raw_size(q.lens)
  BY <1>1 DEF RecordOf
<1>4. a \in Places /\ b \in Places
  BY <1>2 DEF SInv, IInv, TypeOK
<1>5. a.start \in Nat /\ a.size \in Nat /\ b.start \in Nat /\ b.size \in Nat
  <2>1. PAGE_SIZE \in Nat /\ Sizes \subseteq Nat
    BY RecStoreAssumption
  <2> HIDE DEF a, b
  <2>2. a.start \in Offsets /\ a.size \in Sizes /\ b.start \in Offsets /\ b.size \in Sizes
    BY <1>4 DEF Places
  <2>3. Offsets \subseteq Nat
    BY <2>1 DEF Offsets
  <2> QED BY <2>1, <2>2, <2>3
<1> HIDE DEF a, b
<1>6. ~Overlap(a, b)
  <2>1. RecordsApart
    BY InvApart DEF SInv
  <2>2. b \in placed \ {a}
    BY <1>2, <1>3
  <2> QED BY <1>2, <1>3, <2>1, <2>2 DEF RecordsApart
<1>7. \/ a.start >= b.start + b.size
      \/ b.start >= a.start + a.size
  BY <1>5, <1>6 DEF Overlap
<1>8. a.start + x # b.start + y
  BY <1>3, <1>5, <1>7
<1> QED BY <1>3, <1>8

\* What get_rec points at begins with the bytes of the row.
LEMMA RowFound ==
  ASSUME SInv, NEW r \in kept
  PROVE  SameBytes(RawAt(r.page, r.slot), r.row, r.lens)
<1>1. RowKept(r) /\ MInv /\ r.lens \in Lengths
  BY DEF SInv, RowsKept, RowKept
<1>2. PICK s : s = get_rec(r.page, r.slot)
  OBVIOUS
<1>3. s \in Int
  <2>1. RecordOf(r) \in Places
    BY <1>1 DEF RowKept, SInv, IInv, TypeOK
  <2>2. RecordOf(r).start = s
    BY <1>2 DEF RecordOf
  <2>3. PAGE_SIZE \in Nat
    BY RecStoreAssumption
  <2> QED BY <2>1, <2>2, <2>3 DEF Places, Offsets
<1>4. PICK raw : raw = RawAt(r.page, r.slot)
  OBVIOUS
<1>5. raw = {<<c[2] - s, c[3]>> : c \in {b \in bytes : b[1] = r.page}}
  BY <1>2, <1>4 DEF RawAt
<1>6. ASSUME NEW q \in kept, NEW d \in rec2raw(q.row, q.lens)
      PROVE  \E x, y : d = <<x, y>> /\ x \in Nat /\ x < raw_size(q.lens)
  <2>1. q.lens \in Lengths
    BY DEF SInv, RowsKept, RowKept
  <2>2a. PICK i \in Column : \E x, y : d = <<x, y>> /\ Holds(q.row, q.lens, i, x, y)
    BY RowBytes
  <2>2. PICK x, y : d = <<x, y>> /\ Holds(q.row, q.lens, i, x, y)
    BY <2>2a
  <2>3. x \in Nat /\ x < raw_size(q.lens)
    BY <1>1, <2>1, <2>2, HoldsWhere
  <2> QED BY <2>2, <2>3
<1>7. ASSUME NEW a \in 0 .. raw_size(r.lens) - 1, NEW e \in raw, e[1] = a
      PROVE  e \in rec2raw(r.row, r.lens)
  <2>1. PICK c \in bytes : c[1] = r.page /\ e = <<c[2] - s, c[3]>>
    BY <1>5, <1>7
  <2>2. PICK q \in kept : ByteOf(q, c)
    BY DEF SInv, RowsKept
  <2>3. PICK t : t = get_rec(q.page, q.slot)
    OBVIOUS
  <2>4. PICK d \in rec2raw(q.row, q.lens) : c = <<q.page, t + d[1], d[2]>>
    BY <2>2, <2>3 DEF ByteOf
  <2>5. PICK x, y : d = <<x, y>> /\ x \in Nat /\ x < raw_size(q.lens)
    BY <1>6
  <2>6. c = <<q.page, t + x, y>>
    BY <2>4, <2>5
  <2>7. q.page = r.page /\ e = <<(t + x) - s, y>>
    BY <2>1, <2>6
  <2>8. (t + x) - s = a
    BY <1>7, <2>7
  <2>9. t \in Int
    <3>1. RowKept(q)
      BY DEF SInv, RowsKept
    <3>2. RecordOf(q) \in Places
      BY <3>1 DEF RowKept, SInv, IInv, TypeOK
    <3>3. RecordOf(q).start = t
      BY <2>3 DEF RecordOf
    <3>4. PAGE_SIZE \in Nat
      BY RecStoreAssumption
    <3> QED BY <3>2, <3>3, <3>4 DEF Places, Offsets
  <2>10. raw_size(r.lens) \in Nat
    BY <1>1, RowLaid DEF Laid
  <2>11. a \in Nat /\ a < raw_size(r.lens) /\ t + x = s + a
    BY <1>3, <2>5, <2>8, <2>9, <2>10
  <2>12. q = r
    <3> SUFFICES ASSUME q # r PROVE FALSE
      OBVIOUS
    <3>1. t + x # s + a
      BY <1>2, <2>3, <2>5, <2>7, <2>11, OtherBytes
    <3> QED BY <2>11, <3>1
  <2>13. x = a
    BY <1>2, <1>3, <2>3, <2>5, <2>11, <2>12
  <2> QED BY <2>5, <2>7, <2>8, <2>12, <2>13
<1>8. ASSUME NEW e \in rec2raw(r.row, r.lens)
      PROVE  e \in raw
  <2>1. PICK x, y : e = <<x, y>> /\ x \in Nat
    BY <1>6
  <2>2. PICK c : c = <<r.page, s + x, y>>
    OBVIOUS
  <2>3. ByteOf(r, c)
    BY <1>2, <2>1, <2>2 DEF ByteOf
  <2>4. c \in bytes
    BY <2>3 DEF SInv, RowsKept
  <2>5. c[1] = r.page /\ c[2] = s + x /\ c[3] = y
    BY <2>2
  <2>6. (s + x) - s = x
    BY <1>3, <2>1
  <2>7. e = <<c[2] - s, c[3]>>
    BY <2>1, <2>5, <2>6
  <2> QED BY <1>5, <2>4, <2>5, <2>7
<1> QED BY <1>4, <1>7, <1>8 DEF SameBytes

LEMMA InvRowsReadBack == SInv => RowsReadBack
<1> SUFFICES ASSUME SInv, NEW r \in kept, NEW i \in Column
             PROVE  Returned(r, i) = IF i \in Doubles THEN IntegerPart(Inserted(r, i))
                                     ELSE Inserted(r, i)
  BY DEF RowsReadBack
<1>1. MInv /\ r.lens \in Lengths
  BY DEF SInv, RowsKept, RowKept
<1>2. raw2rec(RawAt(r.page, r.slot), i) = Inserted(r, i)
  BY <1>1, RowFound, ColumnRead DEF Inserted
<1> QED BY <1>2 DEF Returned, decode, Doubles
-----------------------------------------------------------------------------
\* The columns stay what they are, and with them the layout of rows.
LEMMA LayoutSame ==
  ASSUME UNCHANGED layoutVars, NEW row, NEW lens
  PROVE  /\ Lengths' = Lengths
         /\ rec2raw(row, lens)' = rec2raw(row, lens)
         /\ raw_size(lens)' = raw_size(lens)
<1>1. columns' = columns /\ offset' = offset
  BY DEF layoutVars
<1>2. Column' = Column /\ Texts' = Texts /\ FixedSizes' = FixedSizes
  BY <1>1 DEF Column, Texts, FixedSizes
<1>3. Lengths' = Lengths
  BY <1>2 DEF Lengths
<1>4. TextSizes(lens)' = TextSizes(lens)
  BY <1>2 DEF TextSizes
<1>5. ASSUME NEW i PROVE FixedAt(i)' = FixedAt(i) /\ StringAt(lens, i)' = StringAt(lens, i)
  BY <1>1, <1>2, <1>4 DEF FixedAt, StringAt
<1>6. raw_size(lens)' = raw_size(lens)
  BY <1>1, <1>2, <1>4 DEF raw_size, StringAt
<1>7. rec2raw(row, lens)' = rec2raw(row, lens)
  BY <1>1, <1>2, <1>4 DEF rec2raw, FixedAt, StringAt
<1> QED BY <1>3, <1>6, <1>7

\* The page that a record goes to, and what is there then.
LEMMA RecordAdded ==
  ASSUME SizesFit, IInv, NEW n \in Sizes, add_rec(n)
  PROVE  /\ last_rec' \in PageIds
         /\ Len(pages'[last_rec'].ptr) = Len(pages[last_rec'].ptr) + 1
         /\ Len(pages[last_rec'].ptr) \in Nat
         /\ pages'[last_rec'].end_free
              = pages'[last_rec'].ptr[Len(pages[last_rec'].ptr) + 1]
         /\ [page |-> last_rec', slot |-> Len(pages[last_rec'].ptr),
             start |-> pages'[last_rec'].end_free, size |-> n] \in placed'
         /\ placed \subseteq placed'
         /\ \A p \in PageIds : \A i \in 1 .. Len(pages[p].ptr) :
              pages'[p].ptr[i] = pages[p].ptr[i]
<1>1. last_rec' \in PageIds /\ AddTo(last_rec', pages[last_rec'], n)
  <2>1. CASE AddHere(n)
    <3>1. last_rec' = last_rec /\ last_rec \in PageIds
      BY <2>1 DEF AddHere, IInv, TypeOK
    <3> QED BY <2>1, <3>1 DEF AddHere
  <2>2. CASE AddNew(n)
    <3>1. page_cnt \in Nat /\ MaxPages \in Nat
      BY RecStoreAssumption DEF IInv, TypeOK
    <3>2. last_rec' = page_cnt + 1 /\ page_cnt < MaxPages
      BY <2>2 DEF AddNew
    <3>3. page_cnt + 1 \in PageIds /\ page_cnt + 1 > page_cnt
      BY <3>1, <3>2 DEF PageIds
    <3>4. pages[page_cnt + 1] = NewPage
      BY <3>3 DEF IInv, PagesInUse
    <3> QED BY <2>2, <3>2, <3>3, <3>4 DEF AddNew
  <2> QED BY <2>1, <2>2 DEF add_rec
<1>2. PICK pid \in PageIds : pid = last_rec'
  BY <1>1
<1>3. PICK p : p = pages[pid]
  OBVIOUS
<1>4. pages \in [PageIds -> [end_free : Offsets, ptr : Seq(Offsets)]]
  BY DEF IInv, TypeOK
<1>5. p.ptr \in Seq(Offsets) /\ p.end_free \in Offsets
  BY <1>3, <1>4
<1>6. PICK q : q = Stored(p, n)
  OBVIOUS
<1>7. pages' = [pages EXCEPT ![pid] = q]
  BY <1>1, <1>2, <1>3, <1>6 DEF AddTo
<1>8. pages'[pid] = q /\ \A o \in PageIds \ {pid} : pages'[o] = pages[o]
  BY <1>4, <1>7
<1>9. PICK s \in Seq(Offsets) : s = p.ptr
  BY <1>5
<1>10. PICK e : e = p.end_free - n
  OBVIOUS
<1>11. q.end_free = e /\ q.ptr = Append(s, e)
  BY <1>6, <1>9, <1>10 DEF Stored
<1>12. /\ Len(Append(s, e)) = Len(s) + 1 /\ Len(s) \in Nat
       /\ Append(s, e)[Len(s) + 1] = e
       /\ \A i \in 1 .. Len(s) : Append(s, e)[i] = s[i]
  OBVIOUS
<1>13. \A o \in PageIds : \A i \in 1 .. Len(pages[o].ptr) : pages'[o].ptr[i] = pages[o].ptr[i]
  <2> SUFFICES ASSUME NEW o \in PageIds, NEW i \in 1 .. Len(pages[o].ptr)
               PROVE  pages'[o].ptr[i] = pages[o].ptr[i]
    OBVIOUS
  <2>1. CASE o = pid
    <3>1. pages[o].ptr = s /\ pages'[o].ptr = Append(s, e)
      BY <1>3, <1>8, <1>9, <1>11, <2>1
    <3> QED BY <1>12, <3>1
  <2>2. CASE o # pid
    BY <1>8, <2>2
  <2> QED BY <2>1, <2>2
<1>14. placed' = placed \cup {[page |-> pid, slot |-> Len(s), start |-> e, size |-> n]}
  BY <1>1, <1>2, <1>3, <1>9, <1>10 DEF AddTo
<1> QED BY <1>2, <1>3, <1>8, <1>9, <1>11, <1>12, <1>13, <1>14

LEMMA InsertKeeps ==
  ASSUME SizesFit, RowSizesAllowed, SInv, NEW lens \in Lengths, InsertRow(lens)
  PROVE  RowsKept'
<1>0. open /\ UNCHANGED layoutVars /\ open' = open /\ RowsKept /\ IInv
  BY DEF InsertRow, layoutVars, SInv
<1>1. PICK n \in Sizes : n = raw_size(lens)
  BY <1>0, RowSizesKnown DEF SInv
<1>2. add_rec(n)
  BY <1>1 DEF InsertRow
<1>3. PICK pid \in PageIds : pid = last_rec'
  BY <1>0, <1>2, RecordAdded
<1>4. PICK m \in Nat : m = Len(pages[pid].ptr)
  BY <1>0, <1>2, <1>3, RecordAdded
<1>5. PICK e : e = pages'[pid].end_free
  OBVIOUS
<1>6. /\ Len(pages'[pid].ptr) = m + 1
      /\ e = pages'[pid].ptr[m + 1]
      /\ [page |-> pid, slot |-> m, start |-> e, size |-> n] \in placed'
      /\ placed \subseteq placed'
      /\ \A p \in PageIds : \A i \in 1 .. Len(pages[p].ptr) : pages'[p].ptr[i] = pages[p].ptr[i]
  BY <1>0, <1>2, <1>3, <1>4, <1>5, RecordAdded
<1>7. PICK row : row = Cardinality(kept)
  OBVIOUS
<1>8. PICK z : z = [page |-> pid, slot |-> m, row |-> row, lens |-> lens]
  OBVIOUS
<1>9. z.page = pid /\ z.slot = m /\ z.row = row /\ z.lens = lens
  BY <1>8
<1>10. kept' = kept \cup {z}
  <2>1. (m + 1) - 1 = m
    OBVIOUS
  <2> QED BY <1>3, <1>6, <1>7, <1>8, <2>1 DEF InsertRow
<1>11. bytes' = bytes \cup {<<pid, e + c[1], c[2]>> : c \in rec2raw(row, lens)}
  BY <1>3, <1>5, <1>7 DEF InsertRow
<1>12. ASSUME NEW r \in kept
       PROVE  /\ r.slot \in Nat /\ r.page \in PageIds /\ r.lens \in Lengths
              /\ RecordOf(r) \in placed
              /\ r.slot < Len(pages[r.page].ptr)
              /\ pages'[r.page].ptr[r.slot + 1] = pages[r.page].ptr[r.slot + 1]
  <2>1. RowKept(r)
    BY <1>0 DEF RowsKept
  <2>2. RecordOf(r) \in placed /\ r.slot \in Nat /\ r.page \in PageIds /\ r.lens \in Lengths
    BY <2>1 DEF RowKept
  <2>3. RecordOf(r).page = r.page /\ RecordOf(r).slot = r.slot
    BY DEF RecordOf
  <2>4. r.slot < Len(pages[r.page].ptr)
    BY <1>0, <2>2, <2>3 DEF IInv, PlacesLocated, Located
  <2>5. Len(pages[r.page].ptr) \in Nat
    BY <1>0, <2>2 DEF IInv, TypeOK
  <2>6. r.slot + 1 \in 1 .. Len(pages[r.page].ptr)
    BY <2>2, <2>4, <2>5
  <2> QED BY <1>6, <2>2, <2>4, <2>6
<1>13. ASSUME NEW r \in kept
       PROVE  /\ RowKept(r)'
              /\ \A b : ByteOf(r, b)' <=> ByteOf(r, b)
  <2>1. get_rec(r.page, r.slot)' = get_rec(r.page, r.slot)
    BY <1>12 DEF get_rec
  <2>2. /\ raw_size(r.lens)' = raw_size(r.lens)
        /\ rec2raw(r.row, r.lens)' = rec2raw(r.row, r.lens)
        /\ Lengths' = Lengths
    BY <1>0, LayoutSame
  <2>3. RecordOf(r)' = RecordOf(r)
    BY <2>1, <2>2 DEF RecordOf
  <2>4. RowKept(r)'
    BY <1>0, <1>6, <1>12, <2>2, <2>3 DEF RowKept
  <2>5. ASSUME NEW b PROVE ByteOf(r, b)' <=> ByteOf(r, b)
    BY <2>1, <2>2 DEF ByteOf
  <2> QED BY <2>4, <2>5
<1>14. /\ RowKept(z)'
       /\ \A b : ByteOf(z, b)' <=> b \in {<<pid, e + c[1], c[2]>> : c \in rec2raw(row, lens)}
  <2>1. get_rec(z.page, z.slot)' = e
    BY <1>6, <1>9 DEF get_rec
  <2>2. /\ raw_size(z.lens)' = n
        /\ rec2raw(z.row, z.lens)' = rec2raw(row, lens)
        /\ Lengths' = Lengths
    BY <1>0, <1>1, <1>9, LayoutSame
  <2>3. RecordOf(z)' = [page |-> pid, slot |-> m, start |-> e, size |-> n]
    BY <1>9, <2>1, <2>2 DEF RecordOf
  <2>4. RowKept(z)'
    BY <1>0, <1>6, <1>9, <2>2, <2>3 DEF RowKept
  <2>5. ASSUME NEW b
        PROVE  ByteOf(z, b)' <=> b \in {<<pid, e + c[1], c[2]>> : c \in rec2raw(row, lens)}
    <3>1. ByteOf(z, b)' <=> \E c \in rec2raw(row, lens) : b = <<pid, e + c[1], c[2]>>
      BY <1>9, <2>1, <2>2 DEF ByteOf
    <3> QED BY <3>1
  <2> QED BY <2>4, <2>5
<1>15. \A r \in kept' : RowKept(r)'
  BY <1>10, <1>13, <1>14
<1>16. ASSUME NEW r \in kept', NEW q \in kept', r.page = q.page, r.slot = q.slot
       PROVE  r = q
  <2>1. ASSUME NEW o \in kept, o.page = pid PROVE o.slot # m
    BY <1>4, <1>12, <2>1
  <2>2. CASE r \in kept /\ q \in kept
    BY <1>0, <1>16, <2>2 DEF RowsKept
  <2>3. CASE r = z /\ q \in kept
    BY <1>9, <1>16, <2>1, <2>3
  <2>4. CASE r \in kept /\ q = z
    BY <1>9, <1>16, <2>1, <2>4
  <2> QED BY <1>10, <2>2, <2>3, <2>4
<1>17. ASSUME NEW b PROVE b \in bytes' <=> \E r \in kept' : ByteOf(r, b)'
  <2>1. b \in bytes <=> \E r \in kept : ByteOf(r, b)
    BY <1>0 DEF RowsKept
  <2>2. b \in bytes' <=> b \in bytes \/ b \in {<<pid, e + c[1], c[2]>> : c \in rec2raw(row, lens)}
    BY <1>11
  <2>3. ByteOf(z, b)' <=> b \in {<<pid, e + c[1], c[2]>> : c \in rec2raw(row, lens)}
    BY <1>14
  <2>4. \A r \in kept : ByteOf(r, b)' <=> ByteOf(r, b)
    BY <1>13
  <2> QED BY <1>10, <2>1, <2>2, <2>3, <2>4
<1> QED BY <1>15, <1>16, <1>17 DEF RowsKept

LEMMA SInvInit == StoreInit => SInv
<1> SUFFICES ASSUME StoreInit PROVE SInv
  OBVIOUS
<1>1. IInv /\ MInv
  BY InvInit, MInvInit DEF StoreInit
<1>2. kept = {} /\ bytes = {}
  BY DEF StoreInit
<1> QED BY <1>1, <1>2 DEF SInv, RowsKept

LEMMA SInvNext ==
  ASSUME SizesFit, RowSizesAllowed
  PROVE  SInv /\ [StoreNext]_storeVars => SInv'
<1> SUFFICES ASSUME SInv, [StoreNext]_storeVars PROVE SInv'
  OBVIOUS
<1>1. MInv'
  BY MInvNext DEF SInv
<1>2. IInv'
  <2>1. ASSUME NEW lens \in Lengths, InsertRow(lens) PROVE Next
    <3>1. raw_size(lens) \in Sizes
      BY <2>1, RowSizesKnown DEF InsertRow, SInv
    <3> QED BY <2>1, <3>1 DEF InsertRow, Next
  <2>2. [Next]_vars
    BY <2>1 DEF StoreNext, Table, storeVars
  <2> QED BY <2>2, InvNext DEF SInv
<1>3. RowsKept'
  <2>1. CASE \E lens \in Lengths : InsertRow(lens)
    BY <2>1, InsertKeeps
  <2>2. CASE Table
    <3>1. ~open /\ UNCHANGED <<bytes, kept>>
      BY <2>2 DEF Table, Construct, Declare, EndDeclare
    <3>2. kept = {}
      BY <3>1 DEF SInv, RowsKept, RowKept
    <3>3. bytes = {}
      BY <3>2 DEF SInv, RowsKept
    <3> QED BY <3>1, <3>2, <3>3 DEF RowsKept
  <2>3. CASE UNCHANGED storeVars
    <3>1. UNCHANGED layoutVars /\ UNCHANGED <<pages, placed, kept, bytes, open>>
      BY <2>3 DEF storeVars, vars, layoutVars
    <3>2. ASSUME NEW r PROVE RowKept(r)' <=> RowKept(r)
      <4>1. raw_size(r.lens)' = raw_size(r.lens) /\ Lengths' = Lengths
        BY <3>1, LayoutSame
      <4>2. get_rec(r.page, r.slot)' = get_rec(r.page, r.slot)
        BY <3>1 DEF get_rec
      <4> QED BY <3>1, <4>1, <4>2 DEF RowKept, RecordOf
    <3>3. ASSUME NEW r, NEW b PROVE ByteOf(r, b)' <=> ByteOf(r, b)
      <4>1. rec2raw(r.row, r.lens)' = rec2raw(r.row, r.lens)
        BY <3>1, LayoutSame
      <4>2. get_rec(r.page, r.slot)' = get_rec(r.page, r.slot)
        BY <3>1 DEF get_rec
      <4> QED BY <4>1, <4>2 DEF ByteOf
    <3> QED BY <3>1, <3>2, <3>3 DEF SInv, RowsKept
  <2> QED BY <2>1, <2>2, <2>3 DEF StoreNext
<1> QED BY <1>1, <1>2, <1>3 DEF SInv

LEMMA InvStoreTypeOK == SInv => StoreTypeOK
<1> SUFFICES ASSUME SInv PROVE StoreTypeOK
  OBVIOUS
<1>1. TypeOK /\ LayoutTypeOK
  BY LayoutTypes DEF SInv, IInv
<1>2. \A r \in kept : r.page \in PageIds /\ r.slot \in Nat /\ r.lens \in Lengths
  BY DEF SInv, RowsKept, RowKept
<1>3. ASSUME NEW b \in bytes PROVE b[1] \in PageIds /\ b[2] \in 0 .. PAGE_SIZE - 1
  <2>1. PICK r \in kept : ByteOf(r, b)
    BY DEF SInv, RowsKept
  <2>2. PICK s : s = get_rec(r.page, r.slot)
    OBVIOUS
  <2>3. PICK c \in rec2raw(r.row, r.lens) : b = <<r.page, s + c[1], c[2]>>
    BY <2>1, <2>2 DEF ByteOf
  <2>4a. PICK i \in Column : \E x, y : c = <<x, y>> /\ Holds(r.row, r.lens, i, x, y)
    BY RowBytes
  <2>4. PICK x, y : c = <<x, y>> /\ Holds(r.row, r.lens, i, x, y)
    BY <2>4a
  <2>5. MInv /\ r.lens \in Lengths /\ RowKept(r)
    BY DEF SInv, RowsKept, RowKept
  <2>6. x \in Nat /\ x < raw_size(r.lens)
    BY <2>4, <2>5, HoldsWhere
  <2>7. b = <<r.page, s + x, y>>
    BY <2>3, <2>4
  <2>8. PICK a : a = RecordOf(r)
    OBVIOUS
  <2>9. a \in placed /\ a.start = s /\ a.size = raw_size(r.lens)
    BY <2>2, <2>5, <2>8 DEF RowKept, RecordOf
  <2>10. PAGE_SIZE \in Nat /\ Sizes \subseteq Nat
    BY RecStoreAssumption
  <2>11. a.start + a.size <= PAGE_SIZE
    <3>1. RecordsApart
      BY InvApart DEF SInv
    <3> QED BY <2>9, <3>1 DEF RecordsApart
  <2>12. a.start \in Nat /\ a.size \in Nat
    <3>1. a \in Places
      BY <1>1, <2>9 DEF TypeOK
    <3>2. a.start \in Offsets /\ a.size \in Sizes
      BY <3>1 DEF Places
    <3>3. Offsets \subseteq Nat
      BY <2>10 DEF Offsets
    <3> QED BY <2>10, <3>2, <3>3
  <2>13. s + x \in 0 .. PAGE_SIZE - 1
    BY <2>6, <2>9, <2>10, <2>11, <2>12
  <2>14. b[1] = r.page /\ b[2] = s + x
    BY <2>7
  <2> QED BY <1>2, <2>13, <2>14
<1> QED BY <1>1, <1>2, <1>3 DEF StoreTypeOK

\* The invariant of the table, from which the rest follows.
LEMMA SInvAlways ==
  ASSUME SizesFit, RowSizesAllowed PROVE StoreSpec => []SInv
<1>1. StoreInit => SInv
  BY SInvInit
<1>2. SInv /\ [StoreNext]_storeVars => SInv'
  BY SInvNext
<1> QED BY <1>1, <1>2, PTL DEF StoreSpec

\* Under the same assumption addresses stay in their pages: parser.cpp
\* copies where rec_page.cpp has made room.
THEOREM StoreTypeCorrect ==
  ASSUME SizesFit, RowSizesAllowed PROVE StoreSpec => []StoreTypeOK
BY SInvAlways, InvStoreTypeOK, PTL

\* Nor is a row written over by another, or by the slots of its page, in a
\* table of any columns (rec_manager.h, lines 37-48).
THEOREM RowsStayApart ==
  ASSUME SizesFit, RowSizesAllowed PROVE StoreSpec => []RecordsApart
<1>1. SInv => RecordsApart
  BY InvApart DEF SInv
<1> QED BY SInvAlways, <1>1, PTL

\* And the position that the index keeps of a row leads back to its bytes.
THEOREM RowsAreFound ==
  ASSUME SizesFit, RowSizesAllowed PROVE StoreSpec => []ReadsBack
<1>1. SInv => ReadsBack
  BY InvReadsBack DEF SInv
<1> QED BY SInvAlways, <1>1, PTL

\* If the longest row fits a new page: every row reads back as it was inserted,
\* for any columns and any number of rows: what rec2raw lays out (parser.cpp, lines
\* 86-120) raw2rec and get_rec find again (lines 46-84).
THEOREM RowsComeBack ==
  ASSUME SizesFit, RowSizesAllowed PROVE StoreSpec => []RowsReadBack
BY SInvAlways, InvRowsReadBack, PTL
=============================================================================
