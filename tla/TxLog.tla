------------------------------- MODULE TxLog -------------------------------
(***************************************************************************)
(* Transactions, the log and recovery of one table: fs::start_transaction, *)
(* fs::commit and fs::recover (fs/fs.cpp), the transactional read_op and   *)
(* write_op of io_manager, add_rec of rec_manager, the private pages and   *)
(* backups of tx, and the log file of tx_io.                               *)
(*                                                                         *)
(* Atomic steps: one append to the log, one page written, one record of    *)
(* the log read back. The process may die between any two of them, and     *)
(* whatever was appended after the last fflush may or may not have reached *)
(* the file. The page cache is seen through what BufferPool proves of it:  *)
(* `shared` is the content it shows; a page that is dirty but equal to its *)
(* image in the file is the same as a clean one that is cached or not.     *)
(*                                                                         *)
(* The content of an index page is abstracted to the newest record it      *)
(* points to (0: none), the content of the record page to the number of    *)
(* records in it (it is append-only), the head page to the set of pages    *)
(* allocated so far (it holds page_cnt, root and last_rec).                *)
(*                                                                         *)
(* Several connections of one process share everything but `cur_tx`, and   *)
(* each of them runs recover() when it connects (Reconnect): its steps come *)
(* between those of the others, of commit() too, and the process may die   *)
(* between them. A connection whose table was created in its own open      *)
(* transaction has no `cur_tx` and writes the shared pages (WriteBare).    *)
(***************************************************************************)
EXTENDS Naturals, Sequences, FiniteSets

CONSTANTS IndexPages,   \* ids of the B+ tree pages
          RecPage,      \* id of the record page
          NoPage,       \* "the transaction has no private copy"
          MaxRecs,      \* bound: records added
          MaxLog,       \* bound: log records
          MaxStops      \* bound: crashes and exits

Pages == IndexPages \cup {RecPage}
Contents == 0 .. MaxRecs

ASSUME TxLogAssumption ==
  /\ RecPage \notin IndexPages
  /\ NoPage \notin Nat
  /\ IsFiniteSet(IndexPages)
  /\ MaxRecs \in Nat /\ MaxLog \in Nat /\ MaxStops \in Nat

VARIABLES
  disk,         \* table file, pages 1..
  diskHead,     \* table file, page 0
  log,          \* log file as written; records after `flushed` may be lost
  flushed,      \* length of the log at the last fflush
  pc,           \* what the process is doing
  head,         \* head_page in memory, shared by everyone
  shared,       \* content of every page as the page cache shows it
  dirty,        \* cached pages to be written back
  txOpen,       \* bplus_tree::cur_tx is set
  priv,         \* tx::p_data: private copies
  backed,       \* tx::old_p_data: pages already backed up and UNDO-logged
  recToCommit,  \* rec_manager::rec_to_commit
  todo,         \* pages left in the loop of commit() that is running
  rcv,          \* locals of a running recover(): records there are, records
                \* read, and those left to write
  stops,        \* number of crashes and exits so far (bounded)
  committed,    \* ghost: head and pages as of the last completed commit, and
                \* the pages as of the one before
  taint         \* ghost: what has happened that voids the promises

fileVars == <<disk, diskHead, log, flushed>>
memVars == <<head, shared, dirty>>
txVars == <<txOpen, priv, backed, recToCommit, todo>>
ghostVars == <<committed, taint>>
vars == <<fileVars, pc, memVars, txVars, rcv, stops, ghostVars>>

UndoRec(p, v) == [type |-> "UNDO", page |-> p, data |-> v, head |-> {}]
RedoRec(p, v) == [type |-> "REDO", page |-> p, data |-> v, head |-> {}]
CommittedRec(h) == [type |-> "COMMITTED", page |-> NoPage, data |-> 0, head |-> h]

NotRecovering == [on |-> FALSE, len |-> 0, i |-> 0, pending |-> {}]
NoCopies == [p \in IndexPages |-> NoPage]
NoRecords == [p \in IndexPages |-> 0]
Copied == {p \in IndexPages : priv[p] # NoPage}

\* Variant: force_flush is ignored.
Append_logLazy(r, force_flush) == log' = Append(log, r) /\ UNCHANGED flushed

\* append_log: the record goes behind the last one; it is certain to be in
\* the file only after an fflush.
Append_log(r, force_flush) ==
  /\ log' = Append(log, r)
  /\ flushed' = IF force_flush THEN Len(log') ELSE flushed

\* A table that was created and closed, never written to: empty file, empty
\* log, head page as head_page() makes it.
Init ==
  /\ disk = [p \in Pages |-> 0]
  /\ diskHead = {}
  /\ log = <<>> /\ flushed = 0
  /\ pc = "down"
  /\ head = {} /\ shared = disk /\ dirty = {}
  /\ txOpen = FALSE /\ priv = NoCopies /\ backed = {}
  /\ recToCommit = {} /\ todo = {}
  /\ rcv = NotRecovering
  /\ stops = 0
  /\ committed = [head |-> {}, data |-> NoRecords, before |-> NoRecords]
  /\ taint = {}
-----------------------------------------------------------------------------
\* The transaction's own work. SQLite calls xBegin before the first write.

\* Bound: n more records of the running transaction, the REDO records of its
\* pages, one of the record page and COMMITTED still fit in the log.
Room(n) == Len(log) + n + Cardinality(Copied) + 2 <= MaxLog

StartTransaction ==
  /\ pc = "up" /\ ~txOpen
  /\ Room(0)
  /\ txOpen' = TRUE
  /\ taint' = IF rcv.on THEN taint \cup {"connect in transaction"} ELSE taint
  /\ UNCHANGED <<fileVars, pc, memVars, priv, backed, recToCommit, todo, rcv,
                 stops, committed>>

InTx == pc = "up" /\ txOpen

\* rec_manager::add_rec: records bypass the transaction and are appended in
\* the shared record page, which is allocated first if there is none. A
\* connection without a transaction does the same.
RecordCount == IF RecPage \in head THEN shared[RecPage] ELSE 0

AddRec ==
  /\ pc = "up"
  /\ RecordCount < MaxRecs
  /\ shared' = [shared EXCEPT ![RecPage] = RecordCount + 1]
  /\ dirty' = dirty \cup {RecPage}
  /\ head' = head \cup {RecPage}
  /\ recToCommit' = recToCommit \cup {RecPage}
  /\ taint' = IF txOpen THEN taint ELSE taint \cup {"unlogged write"}
  /\ UNCHANGED <<fileVars, pc, txOpen, priv, backed, todo, rcv, stops,
                 committed>>

\* Variants: the private copy is expected to exist; the page is read from
\* the file although the cache has a newer one.
SeenPrivate(p) == priv[p]
SeenInFile(p) == IF priv[p] # NoPage THEN priv[p] ELSE disk[p]

\* What the transaction sees of an index page.
Seen(p) == IF priv[p] # NoPage THEN priv[p] ELSE shared[p]

SeenPages == [p \in IndexPages |-> IF p \in head THEN Seen(p) ELSE 0]

\* read_op(tx, p): even a read makes a private copy, to be logged on commit.
TxReadOp(p) ==
  /\ InTx
  /\ p \in (head \cap IndexPages) \ Copied
  /\ Room(1)
  /\ priv' = [priv EXCEPT ![p] = shared[p]]
  /\ UNCHANGED <<fileVars, pc, memVars, txOpen, backed, recToCommit, todo, rcv,
                 stops, ghostVars>>

\* write_op(tx, p) and the caller's change of the private page: the first
\* write backs the page up and forces an UNDO record to the log before.
WriteOp(p, old, v) ==
  /\ Room(Cardinality({p} \ backed) + Cardinality({p} \ Copied))
  /\ v # old /\ v <= RecordCount
  /\ IF p \in backed THEN UNCHANGED <<log, flushed>>
     ELSE Append_log(UndoRec(p, old), TRUE)
  /\ backed' = backed \cup {p}
  /\ priv' = [priv EXCEPT ![p] = v]
  /\ UNCHANGED <<disk, diskHead, pc, txOpen, recToCommit, todo, rcv, stops,
                 ghostVars>>

TxWriteOp(p, v) ==
  /\ InTx
  /\ p \in head \cap IndexPages
  /\ WriteOp(p, Seen(p), v)
  /\ UNCHANGED memVars

\* A new tree page is written in the statement that allocates it:
\* alloc<index_page>() takes an id from the head and leaves the page, with an
\* empty header, in the shared cache; write_op then copies it from there.
AllocAndWrite(p, v) ==
  /\ InTx
  /\ p \in IndexPages \ head
  /\ head' = head \cup {p}
  /\ shared' = [shared EXCEPT ![p] = 0]
  /\ dirty' = dirty \cup {p}
  /\ WriteOp(p, IF p \in Copied THEN priv[p] ELSE 0, v)

\* write_op(p) with cur_tx null, on an old page or one that the statement has
\* allocated: the shared page itself is written, and nothing is logged. SQLite
\* calls no xBegin for a table that was created in the transaction. Bound: not
\* while a commit() is running, which such a statement could also do.
WriteBare(p, v) ==
  /\ pc = "up"
  /\ p \in head => v # shared[p]
  /\ v <= RecordCount
  /\ head' = head \cup {p}
  /\ shared' = [shared EXCEPT ![p] = v]
  /\ dirty' = dirty \cup {p}
  /\ taint' = taint \cup {"unlogged write"}
  /\ UNCHANGED <<fileVars, pc, txVars, rcv, stops, committed>>

\* The xCommit of such a connection: `if(!b_index.has_tx()) return;`, so that
\* only SQLite takes what was written as committed.
CommitBare ==
  /\ pc = "up" /\ ~txOpen
  /\ "unlogged write" \in taint
  /\ committed' = [head |-> head,
                    data |-> [p \in IndexPages |-> IF p \in head THEN shared[p] ELSE 0],
                    before |-> committed.data]
  /\ UNCHANGED <<fileVars, pc, memVars, txVars, rcv, stops, taint>>
-----------------------------------------------------------------------------
\* fs::commit, one loop iteration at a time.

\* if(!has_tx()) return; then the loop over redo_map.
Commit ==
  /\ InTx
  /\ pc' = "redo"
  /\ todo' = Copied
  /\ UNCHANGED <<fileVars, memVars, txOpen, priv, backed, recToCommit, rcv,
                 stops, ghostVars>>

LogRedo(p) ==
  /\ pc = "redo" /\ p \in todo
  /\ Append_log(RedoRec(p, priv[p]), FALSE)
  /\ todo' = todo \ {p}
  /\ UNCHANGED <<disk, diskHead, pc, memVars, txOpen, priv, backed, recToCommit,
                 rcv, stops, ghostVars>>

\* The record pages touched since the last commit, from the shared cache.
LogRecords ==
  /\ pc = "redo" /\ todo = {} /\ recToCommit # {}
  /\ Append_log(RedoRec(RecPage, shared[RecPage]), FALSE)
  /\ recToCommit' = {}
  /\ UNCHANGED <<disk, diskHead, pc, memVars, txOpen, priv, backed, todo, rcv,
                 stops, ghostVars>>

\* The COMMITTED record carries the head page and is forced to the file:
\* the transaction is durable from here on.
LogCommitted ==
  /\ pc = "redo" /\ todo = {} /\ recToCommit = {}
  /\ Append_log(CommittedRec(head), TRUE)
  /\ pc' = "install"
  /\ todo' = Copied
  /\ committed' = [head |-> head, data |-> SeenPages, before |-> committed.data]
  /\ UNCHANGED <<disk, diskHead, memVars, txOpen, priv, backed, recToCommit,
                 rcv, stops, taint>>

\* replace_page_specific: the private page moves into the shared cache, where
\* the other connections read without a lock.
Install(p) ==
  /\ pc = "install" /\ p \in todo
  /\ shared' = [shared EXCEPT ![p] = priv[p]]
  /\ dirty' = dirty \cup {p}
  /\ priv' = [priv EXCEPT ![p] = NoPage]
  /\ todo' = todo \ {p}
  /\ UNCHANGED <<fileVars, pc, head, txOpen, backed, recToCommit, rcv, stops,
                 ghostVars>>

\* set_tx(nullptr). remove_tx finds nothing: get_tx makes every transaction
\* object with the id 0, so that the object stays, which nobody looks at again.
EndCommit ==
  /\ pc = "install" /\ todo = {}
  /\ pc' = "up"
  /\ txOpen' = FALSE /\ backed' = {}
  /\ UNCHANGED <<fileVars, memVars, priv, recToCommit, todo, rcv, stops,
                 ghostVars>>
-----------------------------------------------------------------------------
\* The page cache writes a dirty page back whenever some access needs its
\* slot. It drops a clean one, which recover() may have changed in the file.
Evict(p) ==
  /\ pc \in {"up", "redo", "install"}
  /\ shared[p] # disk[p]
  /\ IF p \in dirty
     THEN disk' = [disk EXCEPT ![p] = shared[p]] /\ UNCHANGED shared
     ELSE shared' = [shared EXCEPT ![p] = disk[p]] /\ UNCHANGED disk
  /\ dirty' = dirty \ {p}
  /\ UNCHANGED <<diskHead, log, flushed, pc, head, txVars, rcv, stops,
                 ghostVars>>

CommitRecords(l) == {i \in 1 .. Len(l) : l[i].type = "COMMITTED"}
LastCommit(l) ==
  IF CommitRecords(l) = {} THEN 0
  ELSE CHOOSE i \in CommitRecords(l) : \A j \in CommitRecords(l) : j <= i

\* The memory of the process is gone.
Forget ==
  /\ pc' = "down"
  /\ head' = {} /\ dirty' = {}
  /\ txOpen' = FALSE /\ priv' = NoCopies /\ backed' = {}
  /\ recToCommit' = {} /\ todo' = {}
  /\ rcv' = NotRecovering

\* The process dies; k log records had reached the file. REDO records of an
\* unfinished commit that stay in the log are noted as a taint.
Crash ==
  /\ pc # "down" /\ stops < MaxStops
  /\ stops' = stops + 1
  /\ \E k \in flushed .. Len(log) :
       /\ log' = SubSeq(log, 1, k)
       /\ flushed' = k
       /\ taint' = taint \cup
            (IF \E i \in LastCommit(log') + 1 .. k : log'[i].type = "REDO"
             THEN {"orphan REDO"} ELSE {})
  /\ Forget
  /\ shared' = disk
  /\ UNCHANGED <<disk, diskHead, committed>>

\* The process exits between two statements and connects, perhaps with an open
\* transaction (xRollback is null, nothing is undone): the destructors of
\* io_manager and header_factory write the cache and the head.
CleanExit ==
  /\ pc = "up" /\ ~rcv.on /\ stops < MaxStops
  /\ stops' = stops + 1
  /\ disk' = [p \in Pages |-> IF p \in dirty THEN shared[p] ELSE disk[p]]
  /\ diskHead' = head
  /\ flushed' = Len(log)
  /\ taint' = taint \cup
       (IF CommitRecords(log) = {} /\ head # committed.head
        THEN {"exit in transaction"} ELSE {})
  /\ Forget
  /\ shared' = disk'
  /\ UNCHANGED <<log, committed>>

\* get_log_cnt is asked once, before the loop.
StartOfLog == [on |-> TRUE, len |-> Len(log), i |-> 0, pending |-> {}]

\* The table is opened by the first connection of a process: binder::create
\* reads the head and the log length, vtab_connect calls recover().
Start ==
  /\ pc = "down"
  /\ pc' = "recover"
  /\ head' = diskHead
  /\ flushed' = Len(log)
  /\ rcv' = StartOfLog
  /\ UNCHANGED <<disk, diskHead, log, shared, dirty, txVars, stops, ghostVars>>

\* Another connection opens it: vtab_connect takes no mutex and calls recover()
\* in the midst of what the others do. Bound: one connects at a time.
Reconnect ==
  /\ pc \in {"up", "redo", "install"} /\ ~rcv.on
  /\ rcv' = StartOfLog
  /\ taint' = IF txOpen THEN taint \cup {"connect in transaction"} ELSE taint
  /\ UNCHANGED <<fileVars, pc, memVars, txVars, stops, committed>>
-----------------------------------------------------------------------------
\* fs::recover. The records up to the next COMMITTED one are read in one step:
\* their REDO pages, of whatever transaction, are what the inner loop then
\* writes, and the lists start again empty. Reading changes locals of the loop
\* only, but flushes what was appended. `pending` has the records whose pages
\* are left to write, by their place in the log.

Recovering == rcv.on /\ rcv.pending = {}
CommitsAhead == {i \in CommitRecords(log) : rcv.i < i /\ i <= rcv.len}
OfTypes(types, to) == {i \in rcv.i + 1 .. to : log[i].type \in types}

ReadToCommitted ==
  /\ Recovering
  /\ \E c \in CommitsAhead :
       /\ \A j \in CommitsAhead : c <= j
       /\ rcv' = [rcv EXCEPT !.i = c,
                             !.pending = OfTypes({"REDO", "COMMITTED"}, c)]
  /\ flushed' = Len(log)
  /\ UNCHANGED <<disk, diskHead, log, pc, memVars, txVars, stops, ghostVars>>

\* disk.read(0, head) and set_root; the variant leaves them out.
HeadKept(h) == UNCHANGED head
HeadRead(h) == head' = h

\* disk.write goes past the page cache. In a process that is up the page may
\* be cached, and goes on to be what it was there; it is cached if dirty, or
\* if it differs from the file.
WritePast(p, v) ==
  /\ disk' = [disk EXCEPT ![p] = v]
  /\ \/ pc # "recover" /\ UNCHANGED shared
     \/ /\ p \notin dirty /\ shared[p] = disk[p]
        /\ shared' = [shared EXCEPT ![p] = v]

\* disk.write of the next page, and after the head image of a COMMITTED
\* record the head, which all connections share, is read back.
WriteImage(r) ==
  IF r.type = "COMMITTED"
  THEN /\ diskHead' = r.head
       /\ HeadRead(r.head)
       /\ UNCHANGED <<disk, shared>>
  ELSE /\ WritePast(r.page, r.data)
       /\ UNCHANGED <<diskHead, head>>

WritePending ==
  /\ rcv.on
  /\ \E j \in rcv.pending :
       /\ \A k \in rcv.pending : j <= k
       /\ WriteImage(log[j])
       /\ rcv' = [rcv EXCEPT !.pending = @ \ {j}]
  /\ UNCHANGED <<log, flushed, pc, dirty, txVars, stops, ghostVars>>

\* Variant: the loop over the log does not advance.
ReadUndoAgain ==
  /\ Recovering /\ CommitsAhead = {} /\ rcv.i < rcv.len
  /\ rcv' = [rcv EXCEPT !.pending = OfTypes({"UNDO"}, rcv.len)]
  /\ flushed' = Len(log)
  /\ UNCHANGED <<disk, diskHead, log, pc, memVars, txVars, stops, ghostVars>>

\* After the last COMMITTED record, the UNDO pages behind it.
ReadUndo ==
  /\ Recovering /\ CommitsAhead = {} /\ rcv.i < rcv.len
  /\ rcv' = [rcv EXCEPT !.i = rcv.len, !.pending = OfTypes({"UNDO"}, rcv.len)]
  /\ flushed' = Len(log)
  /\ UNCHANGED <<disk, diskHead, log, pc, memVars, txVars, stops, ghostVars>>

\* The pages that somebody read from the file between two writes of this
\* recover() are still cached as they were then.
ReadTooEarly == {p \in head \ dirty : shared[p] # disk[p]}

EndRecover ==
  /\ Recovering /\ rcv.i = rcv.len
  /\ pc' = IF pc = "recover" THEN "up" ELSE pc
  /\ rcv' = NotRecovering
  /\ taint' = IF ReadTooEarly = {} THEN taint ELSE taint \cup {"read too early"}
  /\ UNCHANGED <<fileVars, memVars, txVars, stops, committed>>
-----------------------------------------------------------------------------
\* What recover() makes of table file d, head page h and log l, in one step:
\* the last backup behind the last commit, else the last REDO image before
\* it, else the page as it is in the file.
ImagesOf(l, type, p, from, to) ==
  {i \in from .. to : l[i].type = type /\ l[i].page = p}

Newest(S) == CHOOSE i \in S : \A j \in S : j <= i

RecoveredPage(d, l, p) ==
  LET c == LastCommit(l)
      undo == ImagesOf(l, "UNDO", p, c + 1, Len(l))
      redo == ImagesOf(l, "REDO", p, 1, c)
  IN  IF undo # {} THEN l[Newest(undo)].data
      ELSE IF redo # {} THEN l[Newest(redo)].data
      ELSE d[p]

RecoveredHead(h, l) == IF LastCommit(l) = 0 THEN h ELSE l[LastCommit(l)].head

Recover == ReadToCommitted \/ WritePending \/ ReadUndo \/ EndRecover
CommitStep == \/ \E p \in IndexPages : LogRedo(p) \/ Install(p)
              \/ LogRecords \/ LogCommitted \/ EndCommit

Next ==
  \/ StartTransaction \/ AddRec \/ Commit \/ CommitStep \/ CommitBare
  \/ \E p \in IndexPages : TxReadOp(p)
  \/ \E p \in IndexPages, v \in Contents : \/ TxWriteOp(p, v) \/ AllocAndWrite(p, v)
                                        \/ WriteBare(p, v)
  \/ \E p \in Pages : Evict(p)
  \/ Crash \/ CleanExit \/ Start \/ Recover \/ Reconnect

Spec == Init /\ [][Next]_vars

\* recover() is one loop of the connecting thread, and someone opens the
\* table again after it went down.
FairSpec == Spec /\ WF_vars(Start) /\ WF_vars(Recover)
-----------------------------------------------------------------------------
LogEntries ==
  [type : {"UNDO", "REDO"}, page : Pages, data : Contents, head : {{}}]
    \cup [type : {"COMMITTED"}, page : {NoPage}, data : {0}, head : SUBSET Pages]

RecoverStates(n) ==
  [on : BOOLEAN, len : 0 .. n, i : 0 .. n, pending : SUBSET (1 .. n)]

Commits == [head : SUBSET Pages, data : [IndexPages -> Contents],
            before : [IndexPages -> Contents]]

\* Every variable has its type; the log only ever grows behind `flushed`.
TypeOK ==
  /\ disk \in [Pages -> Contents] /\ diskHead \in SUBSET Pages
  /\ log \in Seq(LogEntries) /\ flushed \in 0 .. Len(log)
  /\ pc \in {"down", "recover", "up", "redo", "install"}
  /\ head \in SUBSET Pages /\ shared \in [Pages -> Contents]
  /\ dirty \in SUBSET Pages
  /\ txOpen \in BOOLEAN
  /\ priv \in [IndexPages -> Contents \cup {NoPage}]
  /\ backed \in SUBSET IndexPages
  /\ recToCommit \in SUBSET {RecPage}
  /\ todo \in SUBSET IndexPages
  /\ rcv \in RecoverStates(Len(log))
  /\ stops \in 0 .. MaxStops
  /\ committed \in Commits
  /\ taint \in SUBSET {"orphan REDO", "exit in transaction", "unlogged write",
                       "connect in transaction", "read too early"}

\* The pages of the tree that a recovery from d, h and l brings back, given
\* the records it finds.
SameTable(h, data, rec) ==
  /\ h = committed.head
  /\ \A p \in IndexPages \cap committed.head :
       /\ data[p] = committed.data[p]
       /\ data[p] <= (IF RecPage \in h THEN rec ELSE 0)

RecoversCommitted(d, dh, l) ==
  SameTable(RecoveredHead(dh, l),
            [p \in IndexPages |-> RecoveredPage(d, l, p)],
            RecoveredPage(d, l, RecPage))

\* Crash safety: when the process dies, however much of the unflushed log
\* survives, and also in the middle of an earlier recovery or of a connect,
\* recover() restores exactly the last committed tree and every record it
\* points to. It does so as long as none of the known ways out, which `taint`
\* keeps apart, has been taken: AtomicRecovery, ConnectTakesNothingBack and
\* BareCommitsSurvive show three of them; the others are an exit in a
\* transaction before the first commit (CleanExit) and a page that is read
\* while a connect is halfway through the log (EndRecover).
CrashSafe ==
  taint = {} =>
    \A k \in flushed .. Len(log) :
      RecoversCommitted(disk, diskHead, SubSeq(log, 1, k))

\* The UNDO images never make a difference: a private page reaches the table
\* file only after its transaction's COMMITTED record is durable, so for every
\* page of the committed table the forced UNDO record repeats what redo or
\* the file already give.
UndoIsRedundant ==
  taint = {} =>
    \A p \in IndexPages \cap committed.head :
      RecoveredPage(disk, log, p)
        = RecoveredPage(disk, SubSeq(log, 1, LastCommit(log)), p)

\* A page image that some transaction has committed.
WasCommitted(p, v) ==
  \E i \in 1 .. LastCommit(log) :
    log[i].type = "REDO" /\ log[i].page = p /\ log[i].data = v

\* What statements outside the transaction find on the shared pages of the
\* tree. As a rule it is the last committed table, whatever is evicted or read
\* back. While commit() installs its pages one by one, those that are left
\* show the commit before, so that a scan may meet pages of both. While
\* another connection replays the log, a page shows some committed image, not
\* always the last. A page that is not committed is never shown. All this as
\* long as `taint` is empty: a connect in a transaction voids it.
SharedIsCommitted ==
  taint = {} /\ pc \in {"up", "redo", "install"} =>
    /\ \A p \in IndexPages \cap committed.head :
         IF rcv.on THEN WasCommitted(p, shared[p])
         ELSE /\ shared[p] = IF pc = "install" /\ p \in todo
                             THEN committed.before[p] ELSE committed.data[p]
              /\ shared[p] <= shared[RecPage]
    /\ ~txOpen /\ ~rcv.on => head = committed.head

\* The comment in bplus_tree.h (line 21) that writing redo and undo, the
\* undo first and forced, "is certainly right this way" - without the
\* exception CrashSafe makes for REDO records of a commit that crashed.
AtomicRecovery ==
  taint \subseteq {"orphan REDO"} =>
    RecoversCommitted(disk, diskHead, log)

\* The comment in fs.h (line 27) that recover() is "only suited to the recovery
\* from a crash (writes in a single thread)": it takes nothing back of what a
\* running transaction has done. As it runs on every connect (vtable.cpp, line
\* 47), one in an open transaction takes back the ids of its pages.
ConnectTakesNothingBack ==
  [][txOpen /\ pc = "up" /\ pc' = "up" /\ taint = {"connect in transaction"}
       => head \subseteq head']_vars

\* The comment in bplus_tree.h (line 36) that there is no transaction "by
\* default, as in queries, which need no state of one": whatever is written is
\* then written in one, and survives a crash once it is committed. The rows put
\* into a table in the transaction that created it do not.
BareCommitsSurvive ==
  pc = "down" /\ taint \subseteq {"unlogged write"} =>
    RecoversCommitted(disk, diskHead, log)

\* After any failure the table comes up again: recovery terminates although
\* it may itself be interrupted, and leaves the state that serves requests.
ComesUp == pc = "down" ~> pc = "up"
=============================================================================
