# vSQL-remaster in TLA+

vSQL-remaster is a SQLite virtual-table module with a storage engine of its
own: a page cache over a table file, a B+ tree as primary index, append-only
record pages, and transactions with a redo/undo log. This directory models the
engine in TLA+, checks it with TLC on small instances, and proves the theorems
listed below with TLAPS for every value of the constants.

Paths in this file are relative to `src/src/` of the repository.

## 1. The system

### Components, their state and their operations

| component | state | operations | correct when |
|---|---|---|---|
| LRU list (`fs/lru_cache.h`, `utils/array_list.h`) | a circular list of all cache slots in an array of `(prev, next)`; `head` | `access(pos)`, `least()` | walking from `head` is the order of use; `least()` is the slot unused for longest |
| Page cache (`fs/io_manager.h`, `utils/duplex_map.h`, `fs/disk.h`) | slots with page objects, dirty bits, page-to-slot map in both directions, table file | `read_op`, `write_op`, `alloc`, `replace_page_specific`, destructor | a read returns the last write to the page, whatever was evicted; a reference stays valid for a known window |
| Page ids (`fs/free_manager.*`) | `page_cnt` in the head page, a free list | `alloc`, `dealloc` | ids are never handed out twice; a new page's header is reset |
| Transactions, log, recovery (`fs/fs.cpp`, `tx/*`, `page/log_page.*`, `fs/header_factory.*`) | private page copies, backups, log file, head page | `start_transaction`, transactional `read_op`/`write_op`, `commit`, `recover` | after any crash the table is the last committed one; uncommitted changes of the tree are not visible |
| Record pages (`fs/rec_manager.h`, `page/rec_page.*`) | append-only pages with a slot table growing towards the records; `rec_to_commit` | `add_rec`, `get_rec` | records never overlap; a position leads back to its bytes; records an index entry points to are readable after recovery |
| B+ tree (`fs/bplus_tree.h`, `page/bplus_page.h`, `page/mem_node.h`) | nodes, root, leaf chain; removal is lazy (entry set to `ERROR_PAGE`) | `add`, `remove`, `split`, `insert_parent` | a map from keys to record positions; one tree; search order; filled pages |
| Range queries (`fs/bplus_tree.h`) | none | `find_range`, `traverse` | exactly the live records of the interval, in order |
| Search in a page (`page/bplus_page.h`) | loop variables | `find_first_ge`, `find_first_gt` | first qualifying position, or `key_cnt` |
| Cursor (`table/cursor.*`, `table/iterator.*`), constraints (`table/constrain.h`) | position in a leaf; `[min, max]` and filters | `query`, `next`, `eof` | the rows the SQL constraint asks for |
| SQLite glue (`api/vtable.cpp`) | connections, each with a table object and its own copy of the tree's `root`; a global mutex with `has_mtx` | `xConnect`, `xBegin`, `xUpdate`, `xCommit`, `xFilter`, ... | the protocol of SQLite is met, one writer at a time |
| Schema, parsing, record encoding (`schema/*`, `table/parser.*`, ...) | columns, primary key | create, encode, decode | a row read back is the row written |

Disabled or foreign code (`fs/fast_io.h`, `fs/index.h`, `utils/trie.*`,
`tx/log_manager.*`, `tx/log_obj.*`, `api/templatevtable.c`, `sqlite/*`) is
listed in `PROJECT.json` and not modelled.

### How they interact

* `bplus_tree` asks `io_manager` for references into pages and goes on using
  them across further calls; nothing pins a page. `io_manager` asks `lru_cache`
  for the slot to reuse and writes its old page back if it is dirty.
* With a transaction set, `io_manager` redirects the *tree's* page accesses to
  private copies in `tx`; the first write of a page backs it up and forces an
  UNDO record into the log. Record pages and the head page bypass the
  transaction.
* `fs::commit` logs the private pages and the touched record pages as REDO,
  forces a COMMITTED record that carries the head page, and only then moves the
  private pages into the cache.
* Every connection has a table object, and with it a `bplus_tree` that reads
  `root` from the head page once; `io_manager`, `tx_manager` and the head page are
  one per table file (`fs/binder.h`, `fs/header_factory.cpp`).
* `xConnect` runs `recover()`, also in a process that is up, and takes no mutex;
  the destructors of the singletons write the cache and the head page on a regular
  exit.
* A table that is created in a transaction has no xBegin in it: until the COMMIT
  its tree has no `cur_tx` and writes the shared pages directly.

### Where it is hard

Eviction at any point of a transaction; a crash between any two appends, page writes,
or steps of a recovery; unflushed log records of which an arbitrary prefix survives;
connections that recover a table others are using; commits that replace shared pages
under their readers; divisions that climb several levels of the tree while parent
fields are being corrected; stale bytes in reused memory; references across calls that
may evict; off-by-one errors at cuts and binary searches. The `hazards` list of
`PROJECT.json` has each of these at its line, with the properties that watch it.

## 2. Modules and how they correspond to the code

```
LruRing --EXTENDS--> BufferPool --implements--> PageStore
   \--> LruCache ------------------> BufferPoolProofs
TxLog --> TxLogProofs   (sees the cache as what BufferPool promises)
RowLayout --> RowStore --> MCRowStore, RowStoreProofs
RecStore   ------/
BPlusNode --> BPlusTree --implements--> KeyTable
                  |--> BPlusTreeProofs
                  \--> BPlusScan --> MCBPlusTree
                           \--> Cursor --> Connections --> MCCursor, BPlusScanProofs
KeySearch --> KeySearchProofs
Filter --> Statements --> MCStatements, StatementsProofs
Rows   ------/
VtabTx --> VtabTxProofs
```

Inside the modules, a definition commented "Variant" is a deliberately wrong
form of the one after it; it is used only to make sure that the properties
notice the difference.

**LruRing** has the list as pure operators on a record `[prev, next, head]`:
`NewRing`, `Least`, `Access` (unlink, then relink behind the tail *read after
the unlinking*). **LruCache** makes it a state machine (`Use`) with a ghost
`age`, the number of slots used since.

**BufferPool** is `io_manager` with everything below it. The object is one record
`pool` = `[disk, map, rev, dirty, slot, ring]`, and each member function an operator
from pool to pool, so that an action composes the calls that its handler makes:
`ReadOp`, `WriteOp`, `Alloc`, `ReplacePageSpecific`, `ExitAndReopen` (destructor, then
a new object over the same file). A slot keeps the C++ class its object was
constructed as; using it through a cast to another class is undefined behaviour, so
the body may become anything (`Garbled`). A handed-over page (`ReplacePageSpecific`)
is a new object of its class. The 8K `fwrite` of a page is atomic here. The free list
is left out: nothing calls `dealloc` under lazy deletion, so the list is always empty.
**PageStore** is the promise: pages by id, no slots, no file. It makes one exception:
while a page is in an object of another class (`garbled`), what is read from it or
stored in it may be anything.

**TxLog** is one table's transaction machinery. Memory (`head`, `shared`, `priv`,
`backed`, `recToCommit`) dies with the process, files (`disk`, `diskHead`, `log`) do
not. Every append, page write and page hand-over is a step, and so is every eviction.
`Crash` keeps the log up to some length between the last `fflush` and its end, as
stdio may have written a prefix by itself; page writes to the table file follow an
`fseek`, which flushes the previous one, so they are taken to be in the file.
`recover()` reads the log into local lists up to the next COMMITTED record; as reading
changes nothing else, this is one step (`ReadToCommitted`), and each page it then
writes is a step of its own (`rcv.pending` are the log positions of the images still
to be written). `Reconnect` starts the same function in a process that is up: its
steps come between those of the others, of a `commit()` too, and the process may die
between them. It overwrites the file under the cache (pages of which the cache has a
copy go on showing it, until they are evicted) and the head that everybody shares.
`WriteBare` is a write with `cur_tx` null, in the shared page and without a log
record, and `CommitBare` the `commit()` that then returns at once. The data are
abstracted: an index page is the newest record it points to, the record page (one,
append-only) the number of its records, the head the set of pages allocated.

**BPlusNode** has one page and the two divisions, **BPlusTree** the tree:
`Add` (first add, revive or ignore, insert, divide a leaf), `LazyRemove`, and
`InsertParent`, one recursive call of `insert_parent` per step (new root, room,
divide the parent). `up` holds the arguments of the pending call. **KeyTable**
is what the tree promises. **BPlusScan** adds the queries as functions of a
state. **KeySearch** has the binary searches loop by loop; BPlusNode uses their
results by definition ("first position whose key ..."), and KeySearch shows
that the loops find it.

**Cursor** puts a transaction around the tree: `node` of BPlusTree is what the tree
itself sees (private copies where there are some), `shared` is what `io_manager`
holds. A call of the tree is made in a transaction (`InTransaction`) or without one,
on the shared pages themselves (`WithoutTransaction`), and `query()` descends through
the former but reads leaves from the latter, as `cursor.cpp` does. A commit replaces
the shared pages one by one, in any order (`Commit`, `InstallPage`, `EndCommit`); a
query is one step. **Connections** lets several connections take turns on this tree:
each has its own copy of `root` in `roots`, read from `headRoot` when it connects and
changed only by its own divisions. `queryOf` is `query()` of a connection without a
transaction, which descends from its own root through the shared pages while another
one's transaction is at any point, its commit included.

**RecStore** is `add_rec` over the slotted pages, in bytes: pages are their
free end and their slots, records their extents, and a ghost keeps what was
stored. **RowLayout** is the constructor of `schema`, one turn of its loop per
step with its `continue`s, and the layout of a row: `rec2raw` as the set of
bytes it puts where, `raw2rec` as what it reads back from there, and `decode` as
what `vtab_column` then gives SQLite; `TakenFrom` is the column of SQLite's that
`vtab_update` takes a value from. **RowStore**
composes the two: a declared table, rows laid out and handed to `add_rec`, their
bytes in the pages. A byte is known by the row, column and position it comes
from, so that bytes that end up in the wrong place are seen.

**Filter** is `vtab_best_index` and `vtab_filter` with the intervals of
`constrain.h` and the bounds that `query()` takes from them, over machine
integers that wrap around. An argument is the integer that `sqlite3_value_int64`
makes of it together with what that conversion drops: a fraction, that it was a
text, or that it was NULL. **Rows** is `vtab_update` and `vtab_rowid` over the
key table that BPlusTree implements, with the union that turns a 32-bit key
into the key of the index and the generator of hidden keys. **Statements**
composes the two: a statement is planned and filtered, `query()` copies the
rows into the iterator, and SQLite updates or deletes them one by one.

**VtabTx** is the process: connections in threads of their own, the global
mutex and `has_mtx`, each assignment a step. SQLite is external: it calls
xBegin before the first write to a table, counts a created table as joined
without xBegin, calls xCommit of the joined tables in the order in which they
joined, and, `xRollback` being null, nothing on ROLLBACK. The ghosts `bare`,
`rolled` and `twice` keep the commits without a begin, and who rolled back or
began a second table in its transaction.

## 3. Runs

| run | question | bounds |
|---|---|---|
| `lru_order` | is the list the order of use? | 6 slots: all 720 orders |
| `pool_content` | does the cache lose or mix up pages (refinement of PageStore)? are its maps and dirty bits sound? how long does a page stay cached? | 2 slots, 3 pages of two classes, 2 bodies: more pages than slots, so every access may evict, and a slot's object meets both classes |
| `tx_crash` | is the last committed table restored after any crash? what do readers see? does the table come up again? | 2 index pages, 1 record, log of 9, 2 crashes or exits, any number of connects, one at a time |
| `tx_orphan` | violation: the scheme is "certainly right" | log of 9, 1 crash |
| `tree_calls` | do add, remove and queries do what a key table does? | order 4, none or 9 keys in one of three orders prepared, then any 2 calls over 20 keys and 2 records; the stale `next` is 0 or a page |
| `tree_levels` | one tree, filled pages, search order, chain; does a division end? | order 5, 30 or 28 keys prepared (three levels), then 2 calls over 64 keys |
| `key_search` | do the binary searches find the first position, and end? | pages of 0..6 keys from 6, both searches |
| `statements` | does a statement find the rows of its WHERE clause, and change those and no others? | INT of two bits, index keys -2..3, 2 bodies, 3 terms, 2 generated keys; arguments are all integers, fractions at 0 and at both ends, a text, NULL |
| `row_update` | violation: UPDATE replaces a row by another | as `statements`, 1 term |
| `row_places` | which column is the key? do records overlap? do rows read back? | every declaration of 3 columns, INT of one byte, strings of 1 or 2, 2 pages of 18 bytes, 2 fixed, slots of 1: every row fits a fresh page |
| `vtab_threads` | is there one transaction at a time? who waits for whom? | 3 connections, 2 tables, every interleaving |
| `cursor_scan` | what does a scan return in the middle of a transaction or a commit, of the connection's own or of another's? | order 4, up to 9 keys committed, then 3 calls with commits anywhere over 10 keys, 2 connections |

Why these are enough. *Cache*: eviction, write-back, re-fetch and reuse of a slot all
need only one page more than there are slots, and the casts one page of each class;
the theorems cover other sizes and assignments of classes. *Log*: two crashes allow a
crash in the recovery from a crash, or a crash after work that followed one; a log of
9 has room for two transactions, with eviction anywhere between. The safety properties
speak of states that are not `taint`ed. There are five taints: REDO records left
behind by a crashed commit ("orphan REDO", the subject of `tx_orphan`); a write
without a transaction ("unlogged write", `BareCommitsSurvive` below); a connect that
meets an open transaction ("connect in transaction", `ConnectTakesNothingBack` below);
a process exit in an open transaction of a table that has never committed ("exit in
transaction": the destructor writes the head with the uncommitted page ids, and there
is no COMMITTED record to restore it); and a page that somebody reads from the file
between two page writes of a connect's replay ("read too early": it stays cached as it
was then, and older than the last commit). What follows a taint is explored as long as
nothing was logged and nothing has stopped (constraint `KeepsToPromises`): no property
promises anything there but `TypeOK` and `ComesUp`. One connection connects at a time,
and no write without a transaction comes in the middle of a `commit()`; both are
bounds. A crash is one of the process, not of the machine: what was written to a file
is there. *Tree*: the smallest even and odd orders the cut arithmetic allows (4 and 5)
make every kind of division happen; the prepared sequences go upwards, downwards and
inwards, and the free calls then hit every position of the trees they make.
*Statements*: two bits hold both signs of an INT and the gap between its keys and
those of a BIGINT; the ends of the machine integers are the ends of the index keys, so
that every bound can overflow. Statements with several terms meet an empty table
(constraint `TermsAlone`): which keys a scan visits does not depend on the rows; with
three terms the arguments are integers, as two already mix every pair of fractions.
Each statement is its own transaction here, and Cursor has the rest. *Connections*:
two are enough for one to have an old root and for the other to divide it twice, as
the first key is committed apart and the calls go on where the longest prepared tree
is about to grow; what a third reads depends on no other reader. A write without a
transaction comes only while no other transaction is open. The stale `next` is zero in
these runs, `tree_calls` has others and the theorems all. The constraint
`NobodyAstray` leaves out what follows a write under an old root. *Threads*:
`vtab_threads` looks at states in which every commit was begun (constraint
`AllBegun`), which are those the properties speak of; a third connection is there to
find the mutex freed by the second. *Rows*: three columns let one be left out or
refused before, between or behind others, and let two strings follow each other; a
page holds from one row to eight, so that a row can be between two others.

Deadlock checking is off where the bounded system stops: TxLog (log and crash
bounds used up while the process stays up with nothing to do), BPlusTree and
Cursor (`MaxOps` calls made), KeySearch (the search has returned), Statements
(the key generator has reached `MaxGen`), RowStore (`MaxPages` full), and in
VtabTx, where threads really may wait for themselves: see `WaitEnds`.

### Fairness

* `TxLog!FairSpec`: `WF(Start)`, somebody opens the table again after it went
  down, and `WF(Recover)`, `recover()` is a plain loop of the connecting
  thread. Crashes stay possible, finitely often (`MaxStops`). Nothing is
  assumed of transactions: they may stay open.
* `BPlusTree!FairSpec`: `WF(InsertParent)`; the recursion runs in the calling
  thread and waits for nothing. `KeySearch!FairSpec`: the same of the loop.

### Findings

Two runs show a disagreement between the code and what it says of itself;
`PROJECT.json` quotes the lines.

1. `tx_orphan`: `recover()` replays REDO records of a commit that crashed as
   soon as a later transaction commits.
2. `row_update`: UPDATE to a key that is taken removes the old row and then
   does not add the new one, for nobody looks at the result of `add`.

### Known not to hold

These are stated in the modules but belong to no run; the right column says how
TLC shows it. Where it is a `.cfg` of this directory, `tlc -config X.cfg` on the
module of that name ends with the counterexample.

| property | what happens | instance |
|---|---|---|
| `TxLog!ConnectTakesNothingBack` | `recover()` on connect reads an old head over the live one: page ids that an open transaction has handed out are handed out again (`fs/fs.cpp`, 60; `fs/fs.h`, 27, has it for after a crash only) | `MCTxLogConnect.cfg` |
| `TxLog!BareCommitsSurvive` | rows put into a table in the transaction that created it are written without a log and lost in a crash after their COMMIT (`fs/bplus_tree.h`, 97; by line 36 there are only queries without a transaction) | `MCTxLogBare.cfg` |
| `Connections!UntouchedRowsStay` | between two pages of a commit that divides a leaf, a scan of another connection misses committed rows that the commit leaves alone (`fs/fs.cpp`, 120; `fs/io_manager.h`, 33, calls the shared pages a read-committed cache) | `MCCursorInstall.cfg` |
| `Connections!SeesOneTable` | after a division in its own transaction a scan starts in the new leaf, which is empty among the shared pages: it sees neither the committed table nor its own (`table/cursor.cpp`, 31; `fs/bplus_tree.h` says both that reads see the private state, 11, and that pure reads do not, 13) | `MCCursorOwn.cfg` |
| `BufferPool!SlotClassMatches` | a clean slot's object is reused for a page of the other class, although `bplus_page` and `rec_page` keep pointers in members of their own, against rule 1 of `page.h` (`fs/io_manager.h`, 60) | `MCBufferPoolClasses.cfg` |
| `BPlusScan!CopyingHeaderSuffices` | a new root leaf's `next` is never written, so a range query that comes to the end of the chain follows whatever the memory held (`fs/free_manager.h`, 46) | `MCBPlusTreeStale.cfg` |
| `VtabTx!CreateLeavesMutex` | the commit of a CREATE TABLE unlocks the mutex under another connection's transaction (`api/vtable.cpp`, 284) | `MCVtabTxBare.cfg` |
| `Rows!InsertAdds` | the generator of hidden keys restarts with the table object, and an INSERT that gets a used key is dropped (`schema/id_gen.h`, 7) | `MCStatementsInsert.cfg` |
| `RecStore!RecordsApart` for all lengths | a record that fits a page but not with the fixed fields and its slot is written over them: a new page is not asked (`fs/rec_manager.h`, 45) | `MCRowStoreLong.cfg` |
| `RowLayout!HiddenIsPrimary` | a refused key clause (`primary` or `key` on a string, a second `primary`) skips `++id`, and the key is read from a visible column, although the comment says that no id has to change (`schema/schema.cpp`, 46 and 58) | `MCRowStoreHidden.cfg` |
| `Filter!PlanIsAlive` | `vtab_filter` deletes `idxStr`, and a second xFilter of the same plan, as in a join, reads it (`api/vtable.cpp`, 120) | `MaxFilters = 2` in `MCStatements.cfg` |
| `RowLayout!ColumnsAreSQLites` | a column of a type that `col_type_handler` does not know is declared to SQLite but left out of the schema, and the columns behind it are taken for their neighbours (`schema/schema.cpp`, 35); the primary key too, as `KeyColumnIsPrimary` says | `MCRowStore.cfg` |
| `Filter!ScanMissesNothing` | an argument between two integers is cut towards zero: `id < 2.5` becomes `id < 2`, `id > -2.5` becomes `id > -2`, and the key next to it is never visited; so is every key for `id < 'x'` (`api/vtable.cpp`, 106) | `MCStatements.cfg` |
| `RowStore!DoublesComeBack` | a DOUBLE is returned through `sqlite3_result_int` (`table/parser.cpp`, 12) | `MCRowStore.cfg` |
| `Rows!InsertReportsRow` | the rowid reported of an INSERT of a negative INT key has a sign, the key that the row is stored under has not (`api/vtable.cpp`, 212) | `MCStatements.cfg` |
| `Connections!EveryoneReads` | a connection that opened the table when it was empty keeps `root` = `ERROR_PAGE` and finds no row, whatever others commit (`fs/bplus_tree.h`, 520) | `MCCursor.cfg` |
| `Connections!KeysOnce` | such a connection, when it writes, makes a tree of its own and sets the head to it; one with an older root enters keys a second time (`fs/bplus_tree.h`, 195 and 286) | `MCCursor.cfg` without the constraint |

Properties that hold also name what they leave out:

* `WaitEnds` (`api/vtable.cpp`, 268): a transaction over two tables locks itself
  out of its mutex, and so does the next one after a ROLLBACK, which no callback
  sees; everyone else then waits for a thread that waits for itself. The property
  excepts a holder that did one of the two (`twice`, `rolled`).
* `CrashSafe`, `UndoIsRedundant` and `SharedIsCommitted` speak of untainted states;
  three of the taints are those of `tx_orphan`, `ConnectTakesNothingBack` and
  `BareCommitsSurvive`, the other two the exit in the first transaction and the page
  read too early.
* `LookupFindsRow` leaves out the INT keys below zero, which are stored under
  another number than the one looked for (`api/vtable.cpp`, 205).
* `KeyColumnIsPrimary` leaves out the declarations with a refused clause, and
  `RecordsApart` and `RowsReadBack` rows that do not fit a fresh page.
* `FreshScanIsCommitted` leaves out scans that start in a leaf of their own
  transaction (`SeesOneTable`), and `OldRootsSuffice` the time in which a commit that
  divides a page is installed (`UntouchedRowsStay`).
* `ImplementsPageStore` promises nothing of a page while it is in an object of
  another class (`SlotClassMatches`), but that no other page suffers.
* `ScanCorrect` and the properties of Connections speak of scans that come to an
  end (`ComesToEnd`): either there is a key behind the interval, or the chain's last
  `next` happens to be zero (`CopyingHeaderSuffices`).

## 4. Theorems

All are proved by `tlapm` to the last leaf. Assumptions are the named `ASSUME`s
of the modules (a positive capacity, integer keys, ...), nothing else, apart
from the premises given for `ReferencesLast` and RowStore.

* **BufferPoolProofs** - of lru_cache: `LruTypeCorrect`, `RingOrder`, `LeastIsOldest`:
  for every number of slots the ring is the age order and the victim is the oldest.
  `RingIsAgeOrder` and `LinksAgree` (the `prev` links) are not inductive each for
  itself; the invariant joins them with "ages are distinct" (`age` is a bijection),
  from which follows which slots are the neighbours of the one that moves. Of the page
  cache: `PoolTypeCorrect`, `MappingIsInverse`, `DirtyHasAPage`,
  `CleanPagesAreInTheFile`, `PoolIsAPageStore`, `ReferencesLast`. The inductive
  invariant is `TypeOK`, the soundness of the pool (inverse maps, dirty slots mapped
  and with an object, clean pages equal to the file) and the freshness of page ids (no
  page id from `pageCnt` on is cached), without which `alloc` could map a page twice.
  Each pool operator has its own lemmas (what it keeps, what it shows), and an
  action's step combines those of the calls it makes. The refinement holds for any
  classes of pages; what it says of a page that is in a reused object of another class
  is only that no other page suffers. `ReferencesLast` (`RefWindow`: a page stays
  cached, but see `ReplacePageSpecific` for the hand-over that puts another object in
  its slot) uses the first part: the pool's ring is in the order of some ages, and
  every slot younger than a page's slot holds a page accessed since (`Window`); when a
  page is evicted its slot is the oldest, so `Capacity - 1` different pages were
  accessed, and the one that evicts it is another. Its premise is `MaxPage >=
  Capacity`: the ghost `after` of a page that was never accessed is the set of all
  pages, which stands for "many".
* **BPlusTreeProofs** - `TreeInvariant`, `TypeCorrect`, `FilledPages`, `TreeShape`,
  `DescentFinds`, `MovesRight`, `KeyTableRefined`: for every order of 4 and more,
  every set of integer keys and every number of pages. None of the properties is
  inductive: while a division climbs, keys are in a page to which no descent leads,
  and `insert_parent` finds its way by fields that the last call has changed. The
  invariant (`Inv`) says that on each level above the leaves every integer, key or
  not, has one owner (`Owners`): the page where a descent for it passes. The owner of
  the root's level is the root; the owner on the next level is the child in whose gap
  the integer is, unless that child is the half that was divided and the integer is
  not less than the separating key: then it is the pending half (`Leads`). Keys of a
  page are owned by it, levels are counted by a height for each page (`Heights`), and
  the parent fields name the page above (`Linked`, `Named`, `Waiting`). A division
  gives the upper part of what a page owns to the new page; the step of
  `insert_parent` that tells the parent makes the correction superfluous. A page in
  the act of being divided must be half full although it may still be the root
  (`HalfFull`), or the new root would leave it too short. `down_to_leaf` is then shown
  to return the owner on the lowest level, for the function that the code's loop
  computes is the path of the owners. For the refinement, each step says what it does
  to the entries of the leaves (`Entered`, `LeavesKept`), and `EntriesKnown` that
  `Content` is what they hold. Where a proof needs induction it takes a least element
  (`LeastExists`, from the library's well-foundedness of the natural numbers).
* **BPlusScanProofs** - `RangeQueries` (`ScanCorrect`): for every value that the first
  leaf's `next` may have been left with. Every leaf but the last has a successor that
  the tree has set; so a scan ends in the chain if some key is behind its interval,
  and else where the last `next` is zero. These are the scans that `ComesToEnd` allows
  (`CopyingHeaderSuffices` has the others). From `Owners` the leaves own intervals of
  the integers and `next` leads from each to the next (`Chained`, kept by the division
  of a leaf, which alone changes the owners). The loop of `traverse` stands at a
  position and at a number f: keys it has passed are below f, those before it are not,
  and it has gathered exactly the live keys below f (`Stands`, `Gathered`). It never
  comes back to a leaf (`Visited`), so it is done within `MaxSteps` iterations. The
  answer is defined by ranks, so that no induction over sequences is needed: the i-th
  record is that of the live key with i live keys up to it (`Rank`). `FreshScans`
  (`FreshScanIsCommitted`) and `OldRootsRead` (`OldRootsSuffice`), of Connections: for
  any number of connections, transactions and divisions, as long as nobody wrote under
  an old root (`~astray`, the constraint of the run), and again for scans that come to
  an end. Both speak of two trees at once, the one of the last commit among the shared
  pages and the one that the transaction sees. The invariant (`ConnInv`) therefore has
  the owners of both, `at0` and `at`: page ids below the counter of the last commit
  are the committed tree (`CommittedTree`), those behind it still have fresh headers
  among the shared pages (`Fresh`), and an owner in `at` is the one of `at0` or a new
  page, but for small enough numbers always the former (`Since`). It is not inductive
  without a fact about every step of the tree: `Follows` says that a step gives
  numbers only to the page it allocates, and none of those at the left end
  (`Inherits`; one clause of each step of BPlusTreeProofs). From this the first leaf
  of a scan, if it is an old one, owned the bound at the last commit already. While a
  commit that has divided no page is installed, each shared page is the old one or the
  new one (`Installed`), both trees have the same owners, and what a scan meets is a
  chain for a table that has some rows old and some new (`MixOf`, `MixedLeaf`). An old
  root owns numbers as small as one likes on its level (`FirstOf`), so a descent from
  there passes owners of numbers up to the bound (`LeadsTo`): where the gap it takes
  lies to the right of such a number, the key left of the gap is another one. It ends
  in the right leaf or in one left of it, and from there the scan has every row of the
  interval, and before them at most some rows below it, which SQLite drops.
  `TreeIsShared` follows from the same invariant: until somebody writes under an old
  root, no key is in two leaves, so that write is the only way in which `KeysOnce`
  fails.
* **KeySearchProofs** - `SearchTypeCorrect`, `SearchFindsFirst`: for every page length
  and key set. The invariant says that the answer is never outside `[lo, hi]`, unless
  it is "none".
* **TxLogProofs** - `TxLogTypeCorrect`, `TxLogInvariant`, `CrashIsSafe`,
  `UndoNeverNeeded`, `ReadersSeeCommitted`: for any number of pages, records, log
  entries, crashes, exits and connects. `CrashSafe` is far from inductive: it says
  what a recovery *would* bring back, not why. The invariant says that, while nothing
  is tainted, *the log alone restores the committed table* (`LogRestores`): the head
  from the last COMMITTED record, which is forced; each committed page from its last
  REDO record before it, whatever is in the file; and UNDO records behind it repeat
  what is committed. So no step may disturb the log in that range, and evictions,
  half-done recoveries and lost log tails are harmless. The rest says, for each phase
  of the process, what will make it true of the next commit: a clean page equals the
  file and record pages are in the log or to be logged (`Memory`), shared pages are
  the committed ones (`Working`, `Idle`), copies that were only read equal them
  (`OnlyRead`), every page that a commit has gone over is in the log (`Logging`),
  while a commit installs its pages those left show the commit before (`Installing`),
  and a recovery has brought each page of the file as far as it has read, but for
  images it still has to write (`Restoring`), or further, where the cache has evicted
  the newest one meanwhile. When a connect replays the log in a process that is up,
  cache and file show committed images, and dirty pages the newest (`Replaying`); at
  its end, clean pages equal the file again, unless one was read too early. In a
  process that starts nothing is cached (`FreshCache`).
* **StatementsProofs** - of Filter, `FilterTypeCorrect` and `ScanVisitsTheWanted`: for
  every width of the integers and number of terms, and arguments of every kind but
  those whose conversion loses keys (`Lost`). Lemmas say what an interval means, that
  `&` intersects, that a term's interval holds what meets the term, and that the
  computed bounds visit the inside of the interval: where `lo + 1` or `hi - 1` would
  overflow, `runnable()` has said no. The invariant relates the interval to the
  arguments read so far. Further `RowsTypeCorrect`, `RowidIsIndexKey`, `LookupIsRight`
  and `UpdateKeepsRow` of Rows, and `CopiesStayTrue` of Statements. The invariant is
  that every row is under the key that its own primary key converts to; for the copies
  in the iterator, that a change of one row leaves the others, by rowid, alone: an
  UPDATE that moves a row onto a taken key does not overwrite it.
* **RowStoreProofs** - `RecStoreTypeCorrect`, `RecordsStayApart`, `PositionsReadBack`
  of RecStore, under the premise that each length leaves room for the fixed fields and
  a slot on a fresh page (`SizesFit`; `add_rec` does not check it). The invariant
  keeps the slots of a page in descending order above the free bytes, and every stored
  record between its slot's offset and that of the slot before. `RowsStayApart` and
  `RowsAreFound` carry them over to the rows of any table; `StoreTypeCorrect` and
  `RowsComeBack` say that every byte lands in its page and that every row, of any
  columns, reads back as it was inserted. The premise on `Sizes` is that it holds the
  lengths such rows can have (`RowSizesAllowed`). The invariant says that `offset` is
  the sum of the columns' sizes, that every row inserted has a record of its own with
  the length of the row, and that the bytes of the pages are those of the rows. Places
  within a row are sums of the sizes before them (`Sums`, a recursive function, with
  lemmas that it exists, grows and is bounded): so no address of a row is written
  twice (`HoldsOnce`), what lies at it is what was put there (`ByteFound`), and the
  lengths read lead from string to string (`ColumnRead`). `KeyIsInItsColumn`: for any
  number of columns, the schema's key is the declared column or the hidden one, as
  long as no key clause was refused, and takes that column's value exactly if no
  column was left out before it: the columns kept so far are then those declared so
  far. The invariant says that until then the next id is the number of columns, and
  that a key once found stays in the column with its id.
* **VtabTxProofs** - `VtabTypeCorrect`, `TransactionsExclude`, `FlagIsInLock`,
  `WaitsEnd`: for every number of connections and tables, as long as every commit was
  begun. The invariant adds where the holder of the mutex is in its calls; for
  `WaitsEnd`, that the holder has the flag set from its lock to its unlock and its
  begun table is still to be committed, unless it rolled back, and that it does not
  wait itself, unless it began a second table.

Of what the passing runs check, only model-checked:

* liveness (`ComesUp`, `DivisionEnds`, `Returns`), which is out of the prover's
  reach.

## 5. Not modelled

What is modelled covers about a third of the lines of the program itself; most
lines of the repository are SQLite's (`sqlite/*`, 80 %).

* *SQLite* is vendored. It is seen through the order in which it calls the module
  (VtabTx, Statements) and through its comparisons and conversions (Filter).
* *Code that nothing runs*: files that are not built or wholly commented out
  (`fs/fast_io.h`, `fs/index.h`, `utils/trie.*`, `tx/log_manager.*`, `tx/log_obj.*`,
  `api/templatevtable.c`); the eager removal with `coalesce` and `redistribute`
  (`fs/bplus_tree.h`), whose only caller `remove_nolazy` is commented out; with
  it `io_manager::dealloc` and the free list, to which nothing else adds;
  `constrain::valid` and `always_false`.
* *Utilities* (`utils/tools.h`, `guard.h`, `array.h`, `fixed_map.h`, `defs/defs.h`)
  keep no state of their own.
* *The bytes of a page*: the offsets of the fields in the 8K buffer, copying and
  moving of page objects (`page/page.*`). That a reused object keeps pointers of
  its former class is in BufferPool as an undefined outcome; what they point to
  is not.
* *Text*: parsing the words of a column declaration, the declaration that
  `vtab_create` assembles for SQLite, and what SQLite makes of a value of another
  type than its column's.
* *Memory*: transaction objects stay in `tx_manager`'s map for the life of the
  process, because they are filed under an id that they do not know
  (`fs/fs.cpp`, 127); no model counts memory.
* *Together*: the tree over the cache (every model of a layer sees the one below
  through what was shown of it), connections that come and go in the middle of a
  transaction on the tree (TxLog has them on the log), several that connect at once,
  and hidden keys of several connections, whose generators are as independent as
  after a `Reopen`.
* *Below a step*: a query, an append to the log and a page write are one step each.
  Other connections' threads can come between the page reads of a query, whose
  references nothing pins (`RefWindow` says how long they last), and between an
  `fseek` on the log and the access after it (`tx/tx_io.cpp`, 16 and 59), so that
  a record is read or written in the other's place; `io_manager` and its maps have
  no lock either.
