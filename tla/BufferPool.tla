----------------------------- MODULE BufferPool -----------------------------
(***************************************************************************)
(* The page cache of one table: io_manager (fs/io_manager.h) over the LRU  *)
(* ring, the page-to-slot map (utils/duplex_map.h), the table file         *)
(* (fs/disk.h) and the page counter of the free manager                    *)
(* (fs/free_manager.h).                                                    *)
(*                                                                         *)
(* The object is one record, `pool`, and each member function is an        *)
(* operator from pool to pool, so that an action composes the calls its    *)
(* handler makes. A cached page is [cls, data]: the C++ class the object   *)
(* in the slot was constructed as, and the 8K body.                        *)
(***************************************************************************)
EXTENDS LruRing, FiniteSets

CONSTANTS MaxPage,    \* bound: largest page id handed out
          Data,       \* page bodies
          ClassOf,    \* page id -> the class its users static_cast it to
          NoClass     \* the slot holds a null pointer

PageIds == 1 .. MaxPage
ERROR_PAGE == 0            \* also the head page: never cached
ERROR_INDEX == Capacity    \* "not cached"
Classes == {ClassOf[p] : p \in PageIds}

ASSUME PoolAssumption ==
  /\ MaxPage \in Nat
  /\ Data # {}
  /\ ClassOf \in [PageIds -> Classes]
  /\ NoClass \notin Classes

VARIABLES
  pool,      \* [disk, map, rev, dirty, slot, ring]
  pageCnt,   \* head_page.page_cnt
  ret,       \* what the last read_op's reference showed, as [page, data]
  after      \* ghost: pages accessed since the last access of each page

vars == <<pool, pageCnt, ret, after>>

SomeData == CHOOSE d \in Data : TRUE
NoObject == [cls |-> NoClass, data |-> SomeData]

Objects == [cls : Classes \cup {NoClass}, data : Data]
Pools ==
  [disk : [PageIds \cup {ERROR_PAGE} -> Data],
   map  : [PageIds -> Slots \cup {ERROR_INDEX}],
   rev  : [Slots -> PageIds \cup {ERROR_PAGE}],
   dirty : SUBSET Slots,
   slot : [Slots -> Objects],
   ring : Rings]

\* A new io_manager over a table file.
Opened(file) ==
  [disk |-> file,
   map  |-> [p \in PageIds |-> ERROR_INDEX],
   rev  |-> [s \in Slots |-> ERROR_PAGE],
   dirty |-> {},
   slot |-> [s \in Slots |-> NoObject],
   ring |-> NewRing]
-----------------------------------------------------------------------------
\* Variant: only the forward direction is recorded.
WithMappingForward(b, p, s) == [b EXCEPT !.map[p] = s]

\* duplex_map: create_mapping overwrites both directions and clears nothing.
WithMapping(b, p, s) == [b EXCEPT !.map[p] = s, !.rev[s] = p]

WithoutMapping(b, s) ==
  IF b.rev[s] = ERROR_PAGE THEN b
  ELSE [b EXCEPT !.map[b.rev[s]] = ERROR_INDEX, !.rev[s] = ERROR_PAGE]

\* Variant: the dirty bit is cleared and nothing is written.
WrittenBackNever(b, s) == [b EXCEPT !.dirty = @ \ {s}]

\* replace(s), first half: a dirty slot is written back and its object
\* destroyed; a clean slot keeps its old object.
WrittenBack(b, s) ==
  IF s \notin b.dirty THEN b
  ELSE [b EXCEPT !.disk[b.rev[s]] = b.slot[s].data,
                 !.dirty = @ \ {s},
                 !.slot[s] = NoObject]

Replaced(b, s) == WithoutMapping(WrittenBack(b, s), s)

Holding(b, s, obj) == [b EXCEPT !.slot[s] = obj]
DirtiedNever(b, s) == b   \* Variant: write_op forgets the dirty bit.
Dirtied(b, s) == [b EXCEPT !.dirty = @ \cup {s}]

\* create_mapping(p, s); access(s), with obj as the page in the slot.
Placed(b, p, s, obj) ==
  [Holding(WithMapping(b, p, s), s, obj) EXCEPT !.ring = Access(@, s)]

\* The class of the object that will hold a page of class c in slot s: the
\* old object if there is one, else a newly constructed one.
Reused(b, s, c) == IF b.slot[s].cls = NoClass THEN c ELSE b.slot[s].cls

\* common_op<page class c>(p): the pool after the page is in a slot, its own
\* or the one that was not used for the longest time.
Fetched(b, p, c) ==
  IF b.map[p] # ERROR_INDEX
  THEN [b EXCEPT !.ring = Access(@, b.map[p])]
  ELSE LET s == Least(b.ring)
           e == Replaced(b, s)
       IN  Placed(e, p, s, [cls |-> Reused(e, s, c), data |-> e.disk[p]])

\* alloc<page class c>() of the new page p. get_as copies the page header
\* only: the body is whatever the slot's object held, or the uninitialised
\* memory d of a new object.
Allocated(b, p, c, d) ==
  LET s == Least(b.ring)
      e == Replaced(b, s)
      body == IF e.slot[s].cls = NoClass THEN d ELSE e.slot[s].data
  IN  Dirtied(Placed(e, p, s, [cls |-> Reused(e, s, c), data |-> body]), s)

\* Storing d through the reference write_op returned. The object must be of
\* the class it is used as; otherwise the cast is undefined behaviour and the
\* body may end up as anything.
Stored(b, p, d) ==
  LET s == b.map[p]
  IN  Dirtied(Holding(b, s, [cls |-> b.slot[s].cls, data |-> d]), s)

CastIsSafe(b, p) == b.slot[b.map[p]].cls = ClassOf[p]
Outcomes(b, p, d) == IF CastIsSafe(b, p) THEN {d} ELSE Data

\* replace_page_specific(p, object): the transaction's private copy becomes
\* the cached page; the moved object brings its own class.
Installed(b, p, d) ==
  LET f == Fetched(b, p, ClassOf[p])
      s == f.map[p]
  IN  Dirtied(Holding(f, s, [cls |-> ClassOf[p], data |-> d]), s)

\* ~io_manager: every mapped dirty slot is written; nothing else happens.
Flushed(b) ==
  [q \in PageIds \cup {ERROR_PAGE} |->
     IF \E s \in b.dirty : b.rev[s] = q /\ q # ERROR_PAGE
     THEN b.slot[CHOOSE s \in b.dirty : b.rev[s] = q].data
     ELSE b.disk[q]]
-----------------------------------------------------------------------------
Existing == 1 .. pageCnt - 1

Touch(p) ==
  after' = [q \in PageIds |-> IF q = p THEN {} ELSE after[q] \cup {p}]

Init ==
  /\ \E file \in [PageIds \cup {ERROR_PAGE} -> Data] : pool = Opened(file)
  /\ pageCnt = 1
  /\ ret = [page |-> ERROR_PAGE, data |-> SomeData]
  /\ after = [p \in PageIds |-> PageIds]

\* read_op<T>(p), and the caller looking at the page.
ReadOp(p) ==
  /\ p \in Existing
  /\ pool' = Fetched(pool, p, ClassOf[p])
  /\ \E d \in Outcomes(pool', p, pool'.slot[pool'.map[p]].data) :
       ret' = [page |-> p, data |-> d]
  /\ Touch(p)
  /\ UNCHANGED pageCnt

\* write_op<T>(p), and the caller storing new_data through the reference.
WriteOp(p, new_data) ==
  /\ p \in Existing
  /\ LET f == Fetched(pool, p, ClassOf[p])
     IN  \E d \in Outcomes(f, p, new_data) : pool' = Stored(f, p, d)
  /\ Touch(p)
  /\ UNCHANGED <<pageCnt, ret>>

\* alloc<T>(): the page counter gives the id (the free list is empty: under
\* lazy deletion nothing calls dealloc).
Alloc(d) ==
  /\ pageCnt \in PageIds
  /\ pool' = Allocated(pool, pageCnt, ClassOf[pageCnt], d)
  /\ pageCnt' = pageCnt + 1
  /\ Touch(pageCnt)
  /\ UNCHANGED ret

\* A committing transaction hands over its private copy of page p.
ReplacePageSpecific(p, d) ==
  /\ p \in Existing
  /\ pool' = Installed(pool, p, d)
  /\ Touch(p)
  /\ UNCHANGED <<pageCnt, ret>>

\* The process exits and the table is opened again.
ExitAndReopen ==
  /\ pool' = Opened(Flushed(pool))
  /\ after' = [p \in PageIds |-> PageIds]
  /\ UNCHANGED <<pageCnt, ret>>

Next ==
  \/ \E p \in PageIds : ReadOp(p)
  \/ \E p \in PageIds, d \in Data : WriteOp(p, d)
  \/ \E p \in PageIds, d \in Data : ReplacePageSpecific(p, d)
  \/ \E d \in Data : Alloc(d)
  \/ ExitAndReopen

Spec == Init /\ [][Next]_vars
-----------------------------------------------------------------------------
\* Every field of the pool has its type.
TypeOK ==
  /\ pool \in Pools
  /\ pageCnt \in 1 .. MaxPage + 1
  /\ ret \in [page : PageIds \cup {ERROR_PAGE}, data : Data]
  /\ after \in [PageIds -> SUBSET PageIds]

\* duplex_map's two directions are inverse although create_mapping clears no
\* old pair: a page is in at most one slot, a slot holds at most one page.
MapIsInverse ==
  \A p \in PageIds, s \in Slots : pool.map[p] = s <=> pool.rev[s] = p

\* A dirty slot is mapped and holds an object. replace() writes a dirty slot
\* to find_rev(index), which is page 0, the table head, when it is unmapped,
\* and dereferences the object without a check.
DirtyIsMapped ==
  \A s \in pool.dirty : pool.rev[s] # ERROR_PAGE /\ pool.slot[s].cls # NoClass

\* A cached page that is not dirty is the same in memory and in the file, so
\* dropping it without a write loses nothing.
CleanMatchesFile ==
  \A s \in Slots :
    pool.rev[s] # ERROR_PAGE /\ s \notin pool.dirty =>
      pool.slot[s].data = pool.disk[pool.rev[s]]

\* The content of a page as its users see it: cached if mapped, else in the
\* file.
View == [p \in PageIds |-> IF pool.map[p] # ERROR_INDEX
                           THEN pool.slot[pool.map[p]].data
                           ELSE pool.disk[p]]

\* Pages in the object that was built for a page of another class.
Garbled == {p \in PageIds : pool.map[p] # ERROR_INDEX /\ ~CastIsSafe(pool, p)}

\* The cache is a page store, with pages of both classes in it: whatever is
\* evicted, written back, re-read or reopened, the content of a page changes
\* only by a store to it, and a read returns it - unless the page is in an
\* object of the other class, which a clean slot keeps for the next page: then
\* what is read or stored may be anything (it is taken to stay in that page).
Store == INSTANCE PageStore WITH content <- View, garbled <- Garbled
ImplementsPageStore == Store!Spec

\* The window in which a caller may go on using a reference into a page:
\* while fewer than Capacity other pages were accessed since, the page is
\* still cached. query() holds one into a record page while it decodes the
\* record, other connections use the cache meanwhile, and nothing pins a page.
\* (replace_page_specific takes the object away from a cached page as well:
\* that is a step of Cursor's commit, not an eviction.)
RefWindow ==
  \A p \in PageIds :
    Cardinality(after[p]) < Capacity => pool.map[p] # ERROR_INDEX

\* Rule 1 of page.h ("all data of a page is in `data`, no further members")
\* would make it irrelevant which page class an object was built as. It is
\* not: bplus_page and rec_page keep pointers in members of their own, so the
\* object in a slot must be of the class the page is used as.
SlotClassMatches ==
  \A p \in PageIds : pool.map[p] # ERROR_INDEX => CastIsSafe(pool, p)
=============================================================================
