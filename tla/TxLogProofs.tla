----------------------------- MODULE TxLogProofs -----------------------------
(***************************************************************************)
(* Proofs about TxLog, for any number of pages, records, transactions,     *)
(* crashes and connects: as long as none of the events that `taint` keeps  *)
(* has happened, recovery restores the last committed table whenever the   *)
(* process dies, and readers see committed pages only.                     *)
(***************************************************************************)
EXTENDS TxLog, TLAPS, WellFoundedInduction, SequenceTheorems

\* v is the last REDO image of page p among the first n records of log l.
IsRedo(r, p) == r.type = "REDO" /\ r.page = p

NewestRedo(l, p, n, j) ==
  /\ j \in 1 .. n /\ IsRedo(l[j], p)
  /\ \A k \in 1 .. n : IsRedo(l[k], p) => k <= j

Redone(l, p, n, v) == \E j \in 1 .. n : NewestRedo(l, p, n, j) /\ l[j].data = v

\* The log alone restores the committed table: the head from the last
\* COMMITTED record, each page from its last REDO record before that one. UNDO
\* records behind it repeat what is committed.
lastC == LastCommit(log)

LogRestores ==
  /\ lastC <= flushed
  /\ IF lastC = 0 THEN committed.head = {} /\ diskHead = {}
     ELSE log[lastC].head = committed.head
  /\ \A p \in IndexPages \cap committed.head : Redone(log, p, lastC, committed.data[p])
  /\ RecPage \in committed.head =>
       \E n \in Nat : /\ Redone(log, RecPage, lastC, n)
                      /\ \A p \in IndexPages \cap committed.head :
                           committed.data[p] <= n
  /\ RecPage \notin committed.head =>
       \A p \in IndexPages \cap committed.head : committed.data[p] = 0
  /\ \A p \in IndexPages \ committed.head : committed.data[p] = 0
  /\ \A i \in lastC + 1 .. Len(log) :
       log[i].type = "UNDO" /\ log[i].page \in committed.head =>
         log[i].data = committed.data[log[i].page]
  /\ pc # "redo" => \A i \in lastC + 1 .. Len(log) : log[i].type # "REDO"

\* The memory of a process that is up.
Memory ==
  /\ committed.head \subseteq head
  /\ \A p \in head : p \in dirty \/ shared[p] = disk[p]
  /\ \A p \in IndexPages \cap head : Seen(p) <= RecordCount
  /\ RecPage \in head /\ recToCommit = {} =>
       Redone(log, RecPage, Len(log), shared[RecPage])

Working ==
  /\ \A p \in IndexPages \cap committed.head :
       shared[p] = committed.data[p] /\ shared[p] <= RecordCount
  /\ \A p \in (IndexPages \cap head) \ committed.head : p \in Copied /\ shared[p] = 0

Idle ==
  ~txOpen => head = committed.head /\ priv = NoCopies /\ recToCommit = {}

\* Private copies that were only read are equal to the shared pages.
OnlyRead ==
  \A p \in (Copied \cap committed.head) \ backed : priv[p] = shared[p]

Logging ==
  /\ txOpen
  /\ \A p \in (IndexPages \cap head) \ todo : Redone(log, p, Len(log), Seen(p))

Installing ==
  /\ txOpen /\ head = committed.head /\ todo = Copied /\ recToCommit = {}
  /\ \A p \in IndexPages \cap committed.head : Seen(p) = committed.data[p]
  /\ \A p \in todo \cap committed.head :
       shared[p] = committed.before[p] /\ shared[p] <= RecordCount

\* Replaying the log has brought the file as far as the records read say, but
\* for the pages whose newest image is still to be written. A page that the
\* cache has written back meanwhile is there already.
Restoring ==
  /\ rcv.len = Len(log)
  /\ rcv.i <= lastC \/ rcv.i = Len(log)
  /\ rcv.pending \subseteq 1 .. rcv.i
  /\ rcv.i > lastC => \A j \in rcv.pending : j > lastC /\ log[j].type = "UNDO"
  /\ rcv.i <= lastC => \A j \in rcv.pending : log[j].type # "UNDO"
  /\ \A j \in rcv.pending : log[j].type = "COMMITTED" => j = rcv.i
  /\ IF lastC = 0 THEN head = {}
     ELSE rcv.i >= lastC /\ lastC \notin rcv.pending => head = committed.head
  /\ \A p \in committed.head, j \in 1 .. rcv.i :
       NewestRedo(log, p, rcv.i, j) =>
         j \in rcv.pending \/ disk[p] = log[j].data \/ Redone(log, p, lastC, disk[p])
  /\ \A p \in committed.head, j \in rcv.pending :
       IsRedo(log[j], p) => \E m \in rcv.pending : NewestRedo(log, p, rcv.i, m)

NoTransaction == ~txOpen /\ priv = NoCopies /\ recToCommit = {}

\* Nothing is cached.
FreshCache == dirty = {} /\ shared = disk

\* In a process that is up, the cache and the file show committed images while
\* another connection replays the log, and dirty pages the last ones.
Replaying ==
  \A p \in committed.head :
    /\ WasCommitted(p, shared[p])
    /\ IF p \in dirty THEN Redone(log, p, lastC, shared[p])
       ELSE WasCommitted(p, disk[p])

ProcessInv ==
  /\ pc \in {"up", "redo", "install"} /\ ~rcv.on => Memory
  /\ pc \in {"up", "redo"} /\ ~rcv.on => Working
  /\ pc = "up" /\ ~rcv.on => Idle /\ OnlyRead
  /\ pc = "redo" => Logging
  /\ pc = "install" => Installing
  /\ rcv.on => pc \in {"recover", "up"} /\ Restoring /\ NoTransaction
  /\ rcv.on /\ pc = "up" => Replaying
  /\ pc \in {"down", "recover"} => NoTransaction /\ FreshCache
  /\ pc = "recover" => rcv.on

Inv == taint = {} => LogRestores /\ ProcessInv

\* What holds whatever has failed before: the loops of a commit go over
\* private pages, and only index pages are backed up.
TodoIsCopied ==
  todo \subseteq Copied /\ (pc \notin {"redo", "install"} => todo = {})

UndoOfIndex ==
  \A i \in 1 .. Len(log) : log[i].type = "UNDO" => log[i].page \in IndexPages

TInv == TypeOK /\ TodoIsCopied /\ UndoOfIndex

IInv == TInv /\ Inv
-----------------------------------------------------------------------------
\* Logs.

\* A set of places in a log has a last one.
LEMMA LastExists ==
  ASSUME NEW n \in Nat, NEW S \in SUBSET (1 .. n), S # {}
  PROVE  \E m \in S : \A j \in S : j <= m
<1> DEFINE T == {n - j : j \in S}
<1>1. T \subseteq Nat /\ T # {}
  <2>1. \A j \in S : n - j \in Nat
    OBVIOUS
  <2>2. T \subseteq Nat
    BY <2>1
  <2>3. \A j \in S : n - j \in T
    OBVIOUS
  <2> HIDE DEF T
  <2> QED
    BY <2>2, <2>3
<1> HIDE DEF T
<1>2. PICK x \in T : \A y \in T : ~ (<<y, x>> \in OpToRel(<, Nat))
  BY <1>1, WFMin, NatLessThanWellFounded, Zenon
<1>3. \A y \in T : ~ (y < x)
  BY <1>1, <1>2, Zenon DEF OpToRel
<1>4. PICK m \in S : x = n - m
  BY DEF T
<1>5. \A j \in S : n - j \in T
  BY DEF T
<1> QED
  BY <1>3, <1>4, <1>5

LEMMA NewestIs ==
  ASSUME NEW n \in Nat, NEW S \in SUBSET (1 .. n), S # {}
  PROVE  Newest(S) \in S /\ \A j \in S : j <= Newest(S)
BY LastExists DEF Newest

LEMMA LastCommitIs ==
  ASSUME NEW l, Len(l) \in Nat
  PROVE  /\ LastCommit(l) \in 0 .. Len(l)
         /\ LastCommit(l) # 0 => l[LastCommit(l)].type = "COMMITTED"
         /\ \A k \in 1 .. Len(l) : l[k].type = "COMMITTED" => k <= LastCommit(l)
<1> DEFINE S == CommitRecords(l)
<1>1. S \in SUBSET (1 .. Len(l))
  BY DEF CommitRecords
<1>2. CASE S = {}
  BY <1>2 DEF LastCommit, CommitRecords
<1>3. CASE S # {}
  <2>1. PICK m \in S : \A j \in S : j <= m
    BY <1>1, <1>3, LastExists
  <2>2. LastCommit(l) \in S /\ \A j \in S : j <= LastCommit(l)
    BY <1>3, <2>1 DEF LastCommit
  <2> QED
    BY <2>2 DEF CommitRecords
<1> QED
  BY <1>2, <1>3

LEMMA LastCommitUnique ==
  ASSUME NEW l, Len(l) \in Nat, NEW n \in 0 .. Len(l),
         n # 0 => l[n].type = "COMMITTED",
         \A k \in 1 .. Len(l) : l[k].type = "COMMITTED" => k <= n
  PROVE  LastCommit(l) = n
<1>1. /\ LastCommit(l) \in 0 .. Len(l)
      /\ LastCommit(l) # 0 => l[LastCommit(l)].type = "COMMITTED"
      /\ \A k \in 1 .. Len(l) : l[k].type = "COMMITTED" => k <= LastCommit(l)
  BY LastCommitIs
<1> QED
  BY <1>1

\* The last REDO image depends on nothing but the REDO records.
LEMMA RedoneUnique ==
  ASSUME NEW l, NEW p, NEW n \in Nat, NEW v, NEW w,
         Redone(l, p, n, v), Redone(l, p, n, w)
  PROVE  v = w
BY DEF Redone, NewestRedo

LEMMA RedoneInBoth ==
  ASSUME NEW k, NEW l, NEW n \in Nat, \A i \in 1 .. n : k[i] = l[i],
         NEW p, NEW v
  PROVE  Redone(k, p, n, v) <=> Redone(l, p, n, v)
BY DEF Redone, NewestRedo, IsRedo

LEMMA RedoneFurther ==
  ASSUME NEW l, NEW p, NEW v, NEW n \in Nat, NEW m \in Nat, n <= m,
         \A i \in n + 1 .. m : ~IsRedo(l[i], p)
  PROVE  Redone(l, p, n, v) <=> Redone(l, p, m, v)
<1>1. \A j : NewestRedo(l, p, n, j) <=> NewestRedo(l, p, m, j)
  BY DEF NewestRedo
<1>2. \A j : NewestRedo(l, p, m, j) => j \in 1 .. n /\ j \in 1 .. m
  BY <1>1 DEF NewestRedo
<1> QED
  BY <1>1, <1>2 DEF Redone

LEMMA RedoneLast ==
  ASSUME NEW l, NEW p, NEW n \in Nat \ {0}, IsRedo(l[n], p)
  PROVE  Redone(l, p, n, l[n].data)
BY DEF Redone, NewestRedo
-----------------------------------------------------------------------------
\* Types.

LEMMA EntryTypes ==
  ASSUME NEW r \in LogEntries
  PROVE  /\ r.type \in {"UNDO", "REDO", "COMMITTED"}
         /\ r.type # "COMMITTED" => r.page \in Pages /\ r.data \in Contents
         /\ r.head \in SUBSET Pages
BY DEF LogEntries

LEMMA NewEntries ==
  ASSUME NEW p \in Pages, NEW v \in Contents, NEW h \in SUBSET Pages
  PROVE  /\ UndoRec(p, v) \in LogEntries
         /\ RedoRec(p, v) \in LogEntries
         /\ CommittedRec(h) \in LogEntries
<1>1. {} \in {{}}
  OBVIOUS
<1>2. 0 \in Contents
  BY TxLogAssumption DEF Contents
<1> QED
  BY <1>1, <1>2 DEF UndoRec, RedoRec, CommittedRec, LogEntries

LEMMA ReadTypes ==
  ASSUME TypeOK
  PROVE  /\ RecordCount \in Contents
         /\ \A p \in IndexPages : Seen(p) \in Contents
         /\ \A p \in Copied : p \in IndexPages /\ priv[p] \in Contents
         /\ IndexPages \subseteq Pages /\ RecPage \in Pages
         /\ Contents \subseteq Nat /\ 0 \in Contents
         /\ Len(log) \in Nat /\ DOMAIN log = 1 .. Len(log)
         /\ \A i \in 1 .. Len(log) : log[i] \in LogEntries
<1>1. Contents \subseteq Nat /\ 0 \in Contents /\ NoPage \notin Contents
  BY TxLogAssumption DEF Contents
<1>2. IndexPages \subseteq Pages /\ RecPage \in Pages
  BY DEF Pages
<1>3. log \in Seq(LogEntries)
  BY DEF TypeOK
<1>4. /\ Len(log) \in Nat /\ DOMAIN log = 1 .. Len(log)
      /\ \A i \in 1 .. Len(log) : log[i] \in LogEntries
  BY <1>3
<1>5. /\ shared \in [Pages -> Contents]
      /\ priv \in [IndexPages -> Contents \cup {NoPage}]
  BY DEF TypeOK
<1>6. RecordCount \in Contents
  BY <1>1, <1>2, <1>5 DEF RecordCount
<1>7. \A p \in IndexPages : Seen(p) \in Contents
  BY <1>2, <1>5 DEF Seen
<1>8. \A p \in Copied : p \in IndexPages /\ priv[p] \in Contents
  BY <1>5 DEF Copied
<1> QED
  BY <1>1, <1>2, <1>4, <1>6, <1>7, <1>8

LEMMA Appended ==
  ASSUME TypeOK, NEW r \in LogEntries, log' = Append(log, r)
  PROVE  /\ log' \in Seq(LogEntries)
         /\ Len(log') = Len(log) + 1
         /\ log'[Len(log) + 1] = r
         /\ \A i \in 1 .. Len(log) : log'[i] = log[i]
<1>1. log \in Seq(LogEntries)
  BY DEF TypeOK
<1> QED
  BY <1>1, AppendProperties

LEMMA RecoverStatesGrow ==
  ASSUME NEW n \in Nat, NEW m \in Nat, n <= m, NEW r \in RecoverStates(n)
  PROVE  r \in RecoverStates(m)
<1>1. /\ 0 .. n \subseteq 0 .. m
      /\ SUBSET (1 .. n) \subseteq SUBSET (1 .. m)
  OBVIOUS
<1> QED
  BY <1>1 DEF RecoverStates

LEMMA StartStates ==
  ASSUME TypeOK
  PROVE  StartOfLog \in RecoverStates(Len(log))
<1>1. Len(log) \in Nat
  BY ReadTypes
<1> QED
  BY <1>1 DEF StartOfLog, RecoverStates

LEMMA LoopStates ==
  ASSUME NEW n \in Nat
  PROVE  NotRecovering \in RecoverStates(n)
BY DEF NotRecovering, RecoverStates

LEMMA LongerLog ==
  ASSUME TypeOK, log' = log \/ \E r \in LogEntries : log' = Append(log, r)
  PROVE  /\ log' \in Seq(LogEntries)
         /\ Len(log) \in Nat /\ Len(log') \in Nat /\ Len(log) <= Len(log')
         /\ 0 .. Len(log) \subseteq 0 .. Len(log')
         /\ DOMAIN log \subseteq DOMAIN log'
<1>1. log \in Seq(LogEntries) /\ Len(log) \in Nat
  BY ReadTypes DEF TypeOK
<1>2. CASE log' = log
  BY <1>1, <1>2
<1>3. CASE \E r \in LogEntries : log' = Append(log, r)
  <2>1. log' \in Seq(LogEntries) /\ Len(log') = Len(log) + 1
    BY <1>3, Appended
  <2>2. DOMAIN log = 1 .. Len(log) /\ DOMAIN log' = 1 .. Len(log')
    BY <1>1, <2>1
  <2> QED
    BY <1>1, <2>1, <2>2
<1> QED
  BY <1>2, <1>3

\* A step that at most appends to the log keeps its types.
LEMMA LogTypeKept ==
  ASSUME TypeOK, log' = log \/ \E r \in LogEntries : log' = Append(log, r),
         flushed' \in {flushed, Len(log')}, UNCHANGED rcv
  PROVE  /\ log' \in Seq(LogEntries) /\ flushed' \in 0 .. Len(log')
         /\ rcv' \in RecoverStates(Len(log'))
<1>1. /\ flushed \in 0 .. Len(log)
      /\ rcv \in RecoverStates(Len(log))
  BY DEF TypeOK
<1>2. rcv' \in RecoverStates(Len(log'))
  BY <1>1, LongerLog, RecoverStatesGrow
<1> QED
  BY <1>1, <1>2, LongerLog

\* write_op, for a page that the transaction sees as old.
LEMMA WriteOpTypes ==
  ASSUME TInv, NEW p \in IndexPages, NEW old \in Contents, NEW v \in Contents,
         WriteOp(p, old, v), todo = {},
         head' \in SUBSET Pages, shared' \in [Pages -> Contents],
         dirty' \in SUBSET Pages
  PROVE  TInv'
<1> USE DEF TInv
<1>1. log' = log \/ log' = Append(log, UndoRec(p, old))
  BY DEF WriteOp, Append_log
<1>2. UndoRec(p, old) \in LogEntries
  BY ReadTypes, NewEntries
<1>3. /\ log' \in Seq(LogEntries) /\ flushed' \in 0 .. Len(log')
      /\ rcv' \in RecoverStates(Len(log'))
  <2>1. flushed' \in {flushed, Len(log')} /\ UNCHANGED rcv
    BY DEF WriteOp, Append_log
  <2> QED
    BY <1>1, <1>2, <2>1, LogTypeKept
<1>4. /\ backed' \in SUBSET IndexPages
      /\ priv' \in [IndexPages -> Contents \cup {NoPage}]
      /\ UNCHANGED <<disk, diskHead, pc, txOpen, recToCommit, todo, stops,
                     committed, taint>>
  BY DEF TypeOK, WriteOp, ghostVars
<1>5. TypeOK'
  BY <1>3, <1>4 DEF TypeOK
<1>6. TodoIsCopied'
  BY <1>4 DEF TodoIsCopied
<1>7. UndoOfIndex'
  <2>1. CASE log' = log
    BY <2>1 DEF UndoOfIndex
  <2>2. CASE log' = Append(log, UndoRec(p, old))
    BY <1>2, <2>2, Appended, ReadTypes DEF UndoOfIndex, UndoRec
  <2> QED
    BY <1>1, <2>1, <2>2
<1> QED
  BY <1>5, <1>6, <1>7

\* A record that is not of a backup is appended.
LEMMA AppendTypes ==
  ASSUME TInv, NEW r \in LogEntries, r.type # "UNDO", NEW force \in BOOLEAN,
         Append_log(r, force), UNCHANGED rcv
  PROVE  /\ log' \in Seq(LogEntries) /\ flushed' \in 0 .. Len(log')
         /\ rcv' \in RecoverStates(Len(log'))
         /\ UndoOfIndex'
<1> USE DEF TInv
<1>1. log' = Append(log, r) /\ flushed' \in {flushed, Len(log')}
  BY DEF Append_log
<1>2. UndoOfIndex'
  BY <1>1, Appended, ReadTypes DEF UndoOfIndex
<1> QED
  BY <1>1, <1>2, LogTypeKept

LEMMA CommitTypes ==
  ASSUME TInv, CommitStep
  PROVE  TInv'
<1> USE DEF TInv
<1>1. ASSUME NEW p \in IndexPages, LogRedo(p)
      PROVE  TInv'
  <2>1. p \in Copied
    BY <1>1 DEF LogRedo, TodoIsCopied
  <2>2. RedoRec(p, priv[p]) \in LogEntries /\ RedoRec(p, priv[p]).type # "UNDO"
    BY <2>1, ReadTypes, NewEntries DEF RedoRec
  <2>3. Append_log(RedoRec(p, priv[p]), FALSE) /\ UNCHANGED rcv
    BY <1>1 DEF LogRedo
  <2>4. /\ log' \in Seq(LogEntries) /\ flushed' \in 0 .. Len(log')
        /\ rcv' \in RecoverStates(Len(log'))
        /\ UndoOfIndex'
    BY <2>2, <2>3, AppendTypes
  <2>5. TodoIsCopied'
    BY <1>1 DEF LogRedo, TodoIsCopied, Copied
  <2> QED
    BY <1>1, <2>4, <2>5 DEF LogRedo, TypeOK, memVars, ghostVars
<1>2. ASSUME NEW p \in IndexPages, Install(p)
      PROVE  TInv'
  <2>1. p \in Copied /\ p \in Pages /\ priv[p] \in Contents
    BY <1>2, ReadTypes DEF Install, TodoIsCopied
  <2>2. /\ shared' \in [Pages -> Contents] /\ dirty' \in SUBSET Pages
        /\ priv' \in [IndexPages -> Contents \cup {NoPage}]
        /\ todo' \in SUBSET IndexPages
    BY <1>2, <2>1 DEF Install, TypeOK
  <2>3. TodoIsCopied'
    BY <1>2 DEF Install, TodoIsCopied, Copied, TypeOK
  <2>4. UndoOfIndex'
    BY <1>2 DEF Install, UndoOfIndex, fileVars
  <2> QED
    BY <1>2, <2>2, <2>3, <2>4 DEF Install, TypeOK, fileVars, ghostVars
<1>3. CASE LogRecords
  <2>1. shared[RecPage] \in Contents
    BY ReadTypes DEF TypeOK
  <2>2. /\ RedoRec(RecPage, shared[RecPage]) \in LogEntries
        /\ RedoRec(RecPage, shared[RecPage]).type # "UNDO"
    BY <2>1, ReadTypes, NewEntries DEF RedoRec
  <2>3. Append_log(RedoRec(RecPage, shared[RecPage]), FALSE) /\ UNCHANGED rcv
    BY <1>3 DEF LogRecords
  <2>4. /\ log' \in Seq(LogEntries) /\ flushed' \in 0 .. Len(log')
        /\ rcv' \in RecoverStates(Len(log'))
        /\ UndoOfIndex'
    BY <2>2, <2>3, AppendTypes
  <2>5. TodoIsCopied'
    BY <1>3 DEF LogRecords, TodoIsCopied, Copied
  <2> QED
    BY <1>3, <2>4, <2>5 DEF LogRecords, TypeOK, memVars, ghostVars
<1>4. CASE LogCommitted
  <2>1. head \in SUBSET Pages
    BY DEF TypeOK
  <2>2. CommittedRec(head) \in LogEntries /\ CommittedRec(head).type # "UNDO"
    BY <2>1, ReadTypes, NewEntries DEF CommittedRec
  <2>3. Append_log(CommittedRec(head), TRUE) /\ UNCHANGED rcv
    BY <1>4 DEF LogCommitted
  <2>4. /\ log' \in Seq(LogEntries) /\ flushed' \in 0 .. Len(log')
        /\ rcv' \in RecoverStates(Len(log'))
        /\ UndoOfIndex'
    BY <2>2, <2>3, AppendTypes
  <2>5. TodoIsCopied'
    BY <1>4 DEF LogCommitted, TodoIsCopied, Copied
  <2>6. committed' \in Commits
    <3>1. SeenPages \in [IndexPages -> Contents] /\ committed.data \in [IndexPages -> Contents]
      BY ReadTypes DEF SeenPages, TypeOK, Commits
    <3> QED
      BY <1>4, <2>1, <3>1 DEF LogCommitted, Commits
  <2> QED
    BY <1>4, <2>4, <2>5, <2>6 DEF LogCommitted, TypeOK, memVars, Copied
<1>5. CASE EndCommit
  BY <1>5 DEF EndCommit, TypeOK, TodoIsCopied, Copied, UndoOfIndex, fileVars, memVars,
              ghostVars
<1> QED
  BY <1>1, <1>2, <1>3, <1>4, <1>5 DEF CommitStep

LEMMA Between ==
  ASSUME NEW n \in Nat, NEW f \in 0 .. n
  PROVE  n \in 0 .. n /\ \A k \in f .. n : k \in 0 .. n
OBVIOUS

LEMMA KeptLog ==
  ASSUME NEW k \in 0 .. Len(log), TypeOK, log' = SubSeq(log, 1, k)
  PROVE  /\ log' \in Seq(LogEntries) /\ Len(log') = k
         /\ \A i \in 1 .. k : log'[i] = log[i]
<1>1. Len(log) \in Nat /\ \A i \in 1 .. k : log[i] \in LogEntries
  BY ReadTypes
<1>2. /\ SubSeq(log, 1, k) \in Seq(LogEntries)
      /\ Len(SubSeq(log, 1, k)) = IF 1 <= k THEN k - 1 + 1 ELSE 0
      /\ \A i \in 1 .. k - 1 + 1 : SubSeq(log, 1, k)[i] = log[1 + i - 1]
  BY <1>1, SubSeqProperties
<1> QED
  BY <1>1, <1>2

LEMMA ForgetTypes ==
  ASSUME TInv, Forget
  PROVE  /\ pc' = "down" /\ head' = {} /\ dirty' = {}
         /\ txOpen' \in BOOLEAN
         /\ priv' \in [IndexPages -> Contents \cup {NoPage}]
         /\ backed' \in SUBSET IndexPages
         /\ recToCommit' \in SUBSET {RecPage}
         /\ todo' \in SUBSET IndexPages
         /\ \A n \in Nat : rcv' \in RecoverStates(n)
         /\ TodoIsCopied'
<1>2. \A n \in Nat : rcv' \in RecoverStates(n)
  BY LoopStates DEF Forget
<1>3. priv' = NoCopies /\ NoCopies \in [IndexPages -> Contents \cup {NoPage}]
  BY DEF Forget, NoCopies
<1> QED
  BY <1>2, <1>3 DEF Forget, TodoIsCopied

LEMMA FailureTypes ==
  ASSUME TInv, Crash \/ CleanExit
  PROVE  TInv'
<1> USE DEF TInv
<1>0. /\ Len(log) \in Nat /\ flushed \in 0 .. Len(log)
      /\ disk \in [Pages -> Contents] /\ shared \in [Pages -> Contents]
      /\ head \in SUBSET Pages
  BY ReadTypes DEF TypeOK
<1>1a. MaxStops \in Nat /\ stops \in 0 .. MaxStops
  BY TxLogAssumption DEF TypeOK
<1>1b. stops < MaxStops => stops + 1 \in 0 .. MaxStops
  BY <1>1a
<1>1. CASE Crash
  <2>1. PICK k \in flushed .. Len(log) :
          /\ log' = SubSeq(log, 1, k) /\ flushed' = k
          /\ taint' \in SUBSET (taint \cup {"orphan REDO"})
    BY <1>1 DEF Crash
  <2>2. k \in 0 .. Len(log)
    BY <1>0, <2>1, Between, Zenon
  <2>3. /\ log' \in Seq(LogEntries) /\ Len(log') = k
        /\ \A i \in 1 .. k : log'[i] = log[i]
    BY <2>1, <2>2, KeptLog
  <2>4. UndoOfIndex'
    BY <1>0, <2>2, <2>3 DEF UndoOfIndex
  <2>5. Forget /\ stops' \in 0 .. MaxStops /\ UNCHANGED <<disk, diskHead, committed>>
    BY <1>1, <1>1b DEF Crash
  <2>6a. k \in Nat /\ k \in 0 .. k
    BY <2>2
  <2>6. flushed' \in 0 .. Len(log') /\ Len(log') \in Nat /\ shared' = disk
    BY <1>1, <2>1, <2>3, <2>6a, Zenon DEF Crash
  <2>7. /\ pc' = "down" /\ head' = {} /\ dirty' = {}
         /\ txOpen' \in BOOLEAN
         /\ priv' \in [IndexPages -> Contents \cup {NoPage}]
         /\ backed' \in SUBSET IndexPages
         /\ recToCommit' \in SUBSET {RecPage}
         /\ todo' \in SUBSET IndexPages
         /\ \A n \in Nat : rcv' \in RecoverStates(n)
         /\ TodoIsCopied'
    BY <2>5, ForgetTypes
  <2> QED
    BY <2>1, <2>3, <2>4, <2>5, <2>6, <2>7 DEF TypeOK
<1>2. CASE CleanExit
  <2>0. /\ log' = log /\ flushed' = Len(log) /\ committed' = committed
        /\ shared' = disk' /\ diskHead' = head
    BY <1>2, Zenon DEF CleanExit
  <2>0a. flushed' \in 0 .. Len(log') /\ Len(log) \in Nat
    BY <1>0, <2>0, Between, Zenon
  <2>0b. /\ disk' \in [Pages -> Contents]
         /\ taint' \in SUBSET (taint \cup {"exit in transaction"})
    BY <1>0, <1>2 DEF CleanExit
  <2>1. /\ disk' \in [Pages -> Contents] /\ shared' = disk'
        /\ diskHead' \in SUBSET Pages
        /\ flushed' \in 0 .. Len(log') /\ log' = log /\ Len(log) \in Nat
        /\ committed' = committed
        /\ taint' \in SUBSET (taint \cup {"exit in transaction"})
    BY <1>0, <2>0, <2>0a, <2>0b
  <2>2. Forget /\ stops' \in 0 .. MaxStops
    BY <1>1b, <1>2 DEF CleanExit
  <2>3. UndoOfIndex'
    BY <2>1 DEF UndoOfIndex
  <2>4. /\ pc' = "down" /\ head' = {} /\ dirty' = {}
         /\ txOpen' \in BOOLEAN
         /\ priv' \in [IndexPages -> Contents \cup {NoPage}]
         /\ backed' \in SUBSET IndexPages
         /\ recToCommit' \in SUBSET {RecPage}
         /\ todo' \in SUBSET IndexPages
         /\ \A n \in Nat : rcv' \in RecoverStates(n)
         /\ TodoIsCopied'
    BY <2>2, ForgetTypes
  <2> QED
    BY <2>1, <2>2, <2>3, <2>4 DEF TypeOK
<1> QED
  BY <1>1, <1>2

LEMMA RecoverTypes ==
  ASSUME TInv, Recover
  PROVE  TInv'
<1> USE DEF TInv
<1>0. /\ Len(log) \in Nat /\ DOMAIN log = 1 .. Len(log)
      /\ rcv \in RecoverStates(Len(log)) /\ rcv.i \in 0 .. Len(log)
  <2>1. rcv \in RecoverStates(Len(log))
    BY DEF TypeOK
  <2> QED
    BY <2>1, ReadTypes DEF RecoverStates
<1>1. CASE ReadToCommitted
  <2>1. PICK c \in CommitsAhead :
          rcv' = [rcv EXCEPT !.i = c, !.pending = OfTypes({"REDO", "COMMITTED"}, c)]
    BY <1>1 DEF ReadToCommitted
  <2>2. c \in 1 .. Len(log)
    BY <2>1 DEF CommitsAhead, CommitRecords
  <2>3. OfTypes({"REDO", "COMMITTED"}, c) \in SUBSET (1 .. Len(log))
    BY <1>0, <2>2 DEF OfTypes
  <2>4. c \in 0 .. Len(log)
    BY <2>2
  <2>5. rcv' \in RecoverStates(Len(log))
    BY <1>0, <2>1, <2>3, <2>4 DEF RecoverStates
  <2>6. flushed' \in 0 .. Len(log)
    BY <1>0, <1>1 DEF ReadToCommitted
  <2> QED
    BY <1>1, <2>5, <2>6 DEF ReadToCommitted, TypeOK, TodoIsCopied, Copied, UndoOfIndex,
                            memVars, txVars, ghostVars
<1>2. CASE WritePending
  <2>1. PICK j \in rcv.pending :
          WriteImage(log[j]) /\ rcv' = [rcv EXCEPT !.pending = @ \ {j}]
    BY <1>2 DEF WritePending
  <2>2. log[j] \in LogEntries
    BY <1>0, <2>1, ReadTypes DEF RecoverStates
  <2>2a. rcv' \in RecoverStates(Len(log))
    BY <1>0, <2>1 DEF RecoverStates
  <2>3. CASE log[j].type = "COMMITTED"
    <3>1. diskHead' \in SUBSET Pages /\ head' \in SUBSET Pages /\ UNCHANGED <<disk, shared>>
      BY <2>1, <2>2, <2>3, EntryTypes DEF WriteImage, HeadRead
    <3> QED
      BY <1>2, <2>2a, <3>1 DEF WritePending, TypeOK, TodoIsCopied, Copied, UndoOfIndex,
                               txVars, ghostVars
  <2>4. CASE log[j].type # "COMMITTED"
    <3>1. log[j].page \in Pages /\ log[j].data \in Contents
      BY <2>2, <2>4, EntryTypes
    <3>2. /\ disk' \in [Pages -> Contents] /\ shared' \in [Pages -> Contents]
          /\ UNCHANGED <<diskHead, head>>
      BY <2>1, <2>4, <3>1 DEF WriteImage, WritePast, TypeOK
    <3> QED
      BY <1>2, <2>2a, <3>2 DEF WritePending, TypeOK, TodoIsCopied, Copied, UndoOfIndex,
                               txVars, ghostVars
  <2> QED
    BY <2>3, <2>4
<1>3. CASE ReadUndo
  <2>1. rcv.len \in 0 .. Len(log)
    BY <1>0 DEF RecoverStates
  <2>2. OfTypes({"UNDO"}, rcv.len) \in SUBSET (1 .. Len(log))
    BY <1>0, <2>1 DEF OfTypes
  <2>3. rcv' \in RecoverStates(Len(log))
    BY <1>0, <1>3, <2>1, <2>2 DEF RecoverStates, ReadUndo
  <2>4. flushed' \in 0 .. Len(log)
    BY <1>0, <1>3 DEF ReadUndo
  <2> QED
    BY <1>3, <2>3, <2>4 DEF ReadUndo, TypeOK, TodoIsCopied, Copied, UndoOfIndex,
                            memVars, txVars, ghostVars
<1>4. CASE EndRecover
  <2>1. rcv' \in RecoverStates(Len(log))
    BY <1>0, <1>4, LoopStates DEF EndRecover
  <2>2. todo' = todo /\ pc' \in {pc, "up"} /\ (pc' # pc => pc = "recover")
    BY <1>4 DEF EndRecover, txVars
  <2>3. TodoIsCopied'
    BY <1>4, <2>2 DEF EndRecover, TodoIsCopied, Copied, txVars
  <2>4. taint' \in SUBSET (taint \cup {"read too early"})
    BY <1>4 DEF EndRecover
  <2> QED
    BY <1>4, <2>1, <2>2, <2>3, <2>4 DEF EndRecover, TypeOK, UndoOfIndex, fileVars, memVars,
                                        txVars
<1> QED
  BY <1>1, <1>2, <1>3, <1>4 DEF Recover

LEMMA TypeStep ==
  ASSUME TInv, [Next]_vars
  PROVE  TInv'
<1> USE DEF TInv
<1>0. /\ IndexPages \subseteq Pages /\ RecPage \in Pages
      /\ Contents \subseteq Nat /\ 0 \in Contents
      /\ Len(log) \in Nat /\ DOMAIN log = 1 .. Len(log)
  BY ReadTypes
<1>1. CASE StartTransaction
  <2>1. taint' \in SUBSET (taint \cup {"connect in transaction"})
    BY <1>1 DEF StartTransaction
  <2>1a. /\ txOpen' \in BOOLEAN
         /\ UNCHANGED <<disk, diskHead, log, flushed, pc, head, shared, dirty, priv, backed>>
         /\ UNCHANGED <<recToCommit, todo, rcv, stops, committed>>
    BY <1>1, Zenon DEF StartTransaction, fileVars, memVars
  <2>2. TypeOK'
    BY <2>1, <2>1a DEF TypeOK
  <2>3. TodoIsCopied' /\ UndoOfIndex'
    BY <1>1 DEF StartTransaction, TodoIsCopied, Copied, UndoOfIndex, fileVars
  <2> QED
    BY <2>2, <2>3
<1>2. CASE AddRec
  <2>0. RecordCount < MaxRecs
    BY <1>2, Zenon DEF AddRec
  <2>1. RecordCount + 1 \in Contents
    BY <2>0, ReadTypes, TxLogAssumption DEF Contents
  <2>2. /\ shared' \in [Pages -> Contents] /\ head' \in SUBSET Pages
        /\ dirty' \in SUBSET Pages /\ recToCommit' \in SUBSET {RecPage}
    BY <1>0, <1>2, <2>1 DEF AddRec, TypeOK
  <2>3. taint' \in SUBSET (taint \cup {"unlogged write"})
    BY <1>2 DEF AddRec
  <2>4. UNCHANGED <<disk, diskHead, log, flushed, pc, txOpen, priv, backed, todo, rcv, stops,
                    committed>>
    BY <1>2, Zenon DEF AddRec, fileVars
  <2> QED
    BY <2>2, <2>3, <2>4 DEF TypeOK, TodoIsCopied, Copied, UndoOfIndex
<1>3. CASE Commit
  <2>1. Copied \in SUBSET IndexPages
    BY DEF Copied
  <2> QED
    BY <1>3, <2>1 DEF Commit, TypeOK, TodoIsCopied, Copied, UndoOfIndex, fileVars, memVars,
                      ghostVars
<1>4. CASE CommitStep
  BY <1>4, CommitTypes
<1>5. ASSUME NEW p \in IndexPages, TxReadOp(p)
      PROVE  TInv'
  <2>1. todo = {} /\ todo' = {}
    BY <1>5 DEF TxReadOp, InTx, TodoIsCopied
  <2>2. priv' \in [IndexPages -> Contents \cup {NoPage}]
    BY <1>0, <1>5 DEF TxReadOp, TypeOK
  <2> QED
    BY <1>5, <2>1, <2>2 DEF TxReadOp, TypeOK, TodoIsCopied, UndoOfIndex, fileVars, memVars,
                            ghostVars
<1>6. ASSUME NEW p \in IndexPages, NEW v \in Contents, TxWriteOp(p, v)
      PROVE  TInv'
  <2>1. todo = {} /\ Seen(p) \in Contents /\ WriteOp(p, Seen(p), v)
    BY <1>6, ReadTypes DEF TxWriteOp, InTx, TodoIsCopied
  <2>2. /\ head' \in SUBSET Pages /\ shared' \in [Pages -> Contents]
        /\ dirty' \in SUBSET Pages
    BY <1>6 DEF TxWriteOp, memVars, TypeOK
  <2> QED
    BY <2>1, <2>2, WriteOpTypes
<1>7. ASSUME NEW p \in IndexPages, NEW v \in Contents, AllocAndWrite(p, v)
      PROVE  TInv'
  <2> DEFINE old == IF p \in Copied THEN priv[p] ELSE 0
  <2>1. todo = {} /\ old \in Contents /\ WriteOp(p, old, v)
    BY <1>0, <1>7, ReadTypes DEF AllocAndWrite, InTx, TodoIsCopied
  <2>2. /\ head' \in SUBSET Pages /\ shared' \in [Pages -> Contents]
        /\ dirty' \in SUBSET Pages
    BY <1>0, <1>7 DEF AllocAndWrite, TypeOK
  <2> HIDE DEF old
  <2> QED
    BY <2>1, <2>2, WriteOpTypes
<1>8. ASSUME NEW p \in Pages, Evict(p)
      PROVE  TInv'
  <2>1. /\ disk' \in [Pages -> Contents] /\ shared' \in [Pages -> Contents]
        /\ dirty' \in SUBSET Pages
    BY <1>8 DEF Evict, TypeOK
  <2> QED
    BY <1>8, <2>1 DEF Evict, TypeOK, TodoIsCopied, Copied, UndoOfIndex, txVars, ghostVars
<1>9. CASE Crash \/ CleanExit
  BY <1>9, FailureTypes
<1>10. CASE Start
  <2>1. flushed' \in 0 .. Len(log') /\ rcv' \in RecoverStates(Len(log'))
    BY <1>0, <1>10, StartStates DEF Start
  <2>2. todo = {}
    BY <1>10 DEF Start, TodoIsCopied
  <2> QED
    BY <1>10, <2>1, <2>2 DEF Start, TypeOK, TodoIsCopied, Copied, UndoOfIndex, txVars, ghostVars
<1>11. CASE Recover
  BY <1>11, RecoverTypes
<1>12. CASE Reconnect
  <2>1. rcv' \in RecoverStates(Len(log'))
    BY <1>12, StartStates DEF Reconnect, fileVars
  <2>2. taint' \in SUBSET (taint \cup {"connect in transaction"})
    BY <1>12 DEF Reconnect
  <2> QED
    BY <1>12, <2>1, <2>2 DEF Reconnect, TypeOK, TodoIsCopied, Copied, UndoOfIndex, fileVars,
                             memVars, txVars
<1>14. ASSUME NEW p \in IndexPages, NEW v \in Contents, WriteBare(p, v)
       PROVE  TInv'
  <2>1. /\ head' \in SUBSET Pages /\ shared' \in [Pages -> Contents]
        /\ dirty' \in SUBSET Pages /\ taint' \in SUBSET (taint \cup {"unlogged write"})
    BY <1>0, <1>14 DEF WriteBare, TypeOK
  <2> QED
    BY <1>14, <2>1 DEF WriteBare, TypeOK, TodoIsCopied, Copied, UndoOfIndex, fileVars, txVars
<1>15. CASE CommitBare
  <2>1. committed' \in Commits
    <3>1. /\ [p \in IndexPages |-> IF p \in head THEN shared[p] ELSE 0]
               \in [IndexPages -> Contents]
          /\ committed.data \in [IndexPages -> Contents] /\ head \in SUBSET Pages
      BY <1>0 DEF TypeOK, Commits
    <3> QED
      BY <1>15, <3>1 DEF CommitBare, Commits
  <2> QED
    BY <1>15, <2>1 DEF CommitBare, TypeOK, TodoIsCopied, Copied, UndoOfIndex, fileVars,
                       memVars, txVars
<1>13. CASE UNCHANGED vars
  BY <1>13 DEF vars, TypeOK, TodoIsCopied, Copied, UndoOfIndex, fileVars, memVars, txVars,
               ghostVars
<1> QED
  BY <1>1, <1>2, <1>3, <1>4, <1>5, <1>6, <1>7, <1>8, <1>9, <1>10, <1>11, <1>12, <1>13,
     <1>14, <1>15 DEF Next

LEMMA TypeInit ==
  ASSUME Init
  PROVE  TInv
<1>1. 0 \in Contents /\ 0 \in 0 .. MaxStops
  BY TxLogAssumption DEF Contents
<1>2. log \in Seq(LogEntries) /\ Len(log) = 0 /\ DOMAIN log = {}
  BY EmptySeq DEF Init
<1>3. /\ disk \in [Pages -> Contents]
      /\ committed \in Commits
  BY <1>1 DEF Init, Commits, NoRecords
<1> QED
  <2>1. flushed \in 0 .. Len(log)
    BY <1>2 DEF Init
  <2>2. rcv \in RecoverStates(Len(log))
    BY <1>2, LoopStates DEF Init
  <2>3. priv \in [IndexPages -> Contents \cup {NoPage}]
    BY DEF Init, NoCopies
  <2>4. TodoIsCopied /\ UndoOfIndex
    BY <1>2 DEF Init, TodoIsCopied, UndoOfIndex
  <2> QED
    BY <1>1, <1>2, <1>3, <2>1, <2>2, <2>3, <2>4 DEF Init, TInv, TypeOK

\* Every variable keeps its type, whatever has failed before: the log is
\* never cut behind `flushed`, recover() reads and writes no record that is
\* not in the log, and no commit goes over a page without a private copy.
THEOREM TxLogTypeCorrect == Spec => []TypeOK
<1>1. Init => TInv
  BY TypeInit
<1>2. TInv /\ [Next]_vars => TInv'
  BY TypeStep
<1>3. TInv => TypeOK
  BY DEF TInv
<1> QED
  BY <1>1, <1>2, <1>3, PTL DEF Spec
-----------------------------------------------------------------------------
\* What the log restores.

LEMMA LastCommitHere ==
  ASSUME TypeOK
  PROVE  /\ lastC \in 0 .. Len(log) /\ Len(log) \in Nat
         /\ lastC # 0 => log[lastC].type = "COMMITTED"
         /\ \A k \in 1 .. Len(log) : log[k].type = "COMMITTED" => k <= lastC
         /\ lastC = 0 => CommitRecords(log) = {}
<1>1. Len(log) \in Nat
  BY ReadTypes
<1>2. /\ lastC \in 0 .. Len(log)
      /\ lastC # 0 => log[lastC].type = "COMMITTED"
      /\ \A k \in 1 .. Len(log) : log[k].type = "COMMITTED" => k <= lastC
  BY <1>1, LastCommitIs DEF lastC
<1>3. lastC = 0 => CommitRecords(log) = {}
  BY <1>1, <1>2 DEF CommitRecords
<1> QED
  BY <1>1, <1>2, <1>3

\* A record that commits nothing leaves what the log restores as it was.
LEMMA AppendKeeps ==
  ASSUME TypeOK, NEW r \in LogEntries, r.type # "COMMITTED", log' = Append(log, r)
  PROVE  /\ lastC' = lastC
         /\ \A n \in 0 .. Len(log) : \A p, v : Redone(log', p, n, v) <=> Redone(log, p, n, v)
         /\ \A p, v : ~IsRedo(r, p) =>
              (Redone(log', p, Len(log'), v) <=> Redone(log, p, Len(log), v))
<1> DEFINE n == Len(log)
<1>1. /\ log' \in Seq(LogEntries)
      /\ n \in Nat /\ Len(log') = n + 1
      /\ log'[n + 1] = r
      /\ \A i \in 1 .. n : log'[i] = log[i]
  BY Appended, ReadTypes
<1>2. /\ lastC \in 0 .. n
      /\ lastC # 0 => log[lastC].type = "COMMITTED"
      /\ \A k \in 1 .. n : log[k].type = "COMMITTED" => k <= lastC
  BY LastCommitHere
<1> HIDE DEF n
<1>3. /\ Len(log') \in Nat /\ lastC \in 0 .. Len(log')
      /\ lastC # 0 => log'[lastC].type = "COMMITTED"
      /\ \A k \in 1 .. Len(log') : log'[k].type = "COMMITTED" => k <= lastC
  BY <1>1, <1>2
<1>4. LastCommit(log') = lastC
  BY <1>3, LastCommitUnique
<1>5. ASSUME NEW m \in 0 .. n, NEW p, NEW v
      PROVE  Redone(log', p, m, v) <=> Redone(log, p, m, v)
  <2>1. m \in Nat /\ \A i \in 1 .. m : log'[i] = log[i]
    BY <1>1
  <2> QED
    BY <2>1, RedoneInBoth
<1>6. ASSUME NEW p, NEW v, ~IsRedo(r, p)
      PROVE  Redone(log', p, n + 1, v) <=> Redone(log, p, n, v)
  <2>1. /\ n + 1 \in Nat /\ n <= n + 1 /\ n \in 0 .. n
        /\ \A i \in n + 1 .. n + 1 : ~IsRedo(log'[i], p)
    BY <1>1, <1>6
  <2>2. Redone(log', p, n, v) <=> Redone(log', p, n + 1, v)
    BY <1>1, <2>1, RedoneFurther
  <2> QED
    BY <1>5, <2>1, <2>2
<1>7. lastC' = lastC
  BY <1>4 DEF lastC
<1> QED
  BY <1>1, <1>5, <1>6, <1>7 DEF n

\* As there is no REDO record behind the last COMMITTED one.
LEMMA RedoneNow ==
  ASSUME TypeOK, LogRestores, pc # "redo", NEW p, NEW v
  PROVE  Redone(log, p, lastC, v) <=> Redone(log, p, Len(log), v)
<1>1. lastC \in Nat /\ Len(log) \in Nat /\ lastC <= Len(log)
  BY LastCommitHere
<1>2. \A i \in lastC + 1 .. Len(log) : ~IsRedo(log[i], p)
  BY DEF LogRestores, IsRedo
<1> QED
  BY <1>1, <1>2, RedoneFurther

LEMMA LogSame ==
  ASSUME TypeOK, LogRestores, UNCHANGED <<log, committed>>,
         flushed' \in {flushed, Len(log)},
         lastC = 0 => diskHead' = {}, pc' # "redo" => pc # "redo"
  PROVE  LogRestores'
<1>1. lastC' = lastC
  BY DEF lastC
<1>2. lastC <= flushed'
  BY LastCommitHere DEF LogRestores
<1> QED
  BY <1>1, <1>2 DEF LogRestores

LEMMA LogLonger ==
  ASSUME TypeOK, LogRestores, UNCHANGED <<committed, diskHead, pc>>,
         NEW r \in LogEntries, r.type # "COMMITTED", log' = Append(log, r),
         flushed' \in {flushed, Len(log')},
         r.type = "REDO" => pc = "redo",
         r.type = "UNDO" /\ r.page \in committed.head => r.data = committed.data[r.page]
  PROVE  LogRestores'
<1> DEFINE n == Len(log)
<1>1. /\ n \in Nat /\ Len(log') = n + 1
      /\ log'[n + 1] = r
      /\ \A i \in 1 .. n : log'[i] = log[i]
  BY Appended, ReadTypes
<1>2. lastC' = lastC /\ lastC \in 0 .. n
  BY AppendKeeps, LastCommitHere
<1>3. \A p, v : Redone(log', p, lastC, v) <=> Redone(log, p, lastC, v)
  BY <1>2, AppendKeeps
<1> HIDE DEF n
<1>4. lastC <= flushed'
  BY <1>1, <1>2 DEF LogRestores
<1>5. IF lastC = 0 THEN committed.head = {} /\ diskHead = {}
      ELSE log'[lastC].head = committed.head
  BY <1>1, <1>2 DEF LogRestores
<1>6. /\ \A p \in IndexPages \cap committed.head :
           Redone(log', p, lastC, committed.data[p])
      /\ RecPage \in committed.head =>
           \E m \in Nat : /\ Redone(log', RecPage, lastC, m)
                          /\ \A p \in IndexPages \cap committed.head :
                               committed.data[p] <= m
      /\ RecPage \notin committed.head =>
           \A p \in IndexPages \cap committed.head : committed.data[p] = 0
      /\ \A p \in IndexPages \ committed.head : committed.data[p] = 0
  BY <1>3 DEF LogRestores
<1>7. \A i \in lastC + 1 .. n + 1 :
        /\ log'[i].type = "UNDO" /\ log'[i].page \in committed.head =>
             log'[i].data = committed.data[log'[i].page]
        /\ pc # "redo" => log'[i].type # "REDO"
  <2> SUFFICES ASSUME NEW i \in lastC + 1 .. n + 1
               PROVE  /\ log'[i].type = "UNDO" /\ log'[i].page \in committed.head =>
                           log'[i].data = committed.data[log'[i].page]
                      /\ pc # "redo" => log'[i].type # "REDO"
    OBVIOUS
  <2>1. CASE i = n + 1
    BY <1>1, <2>1
  <2>2. CASE i # n + 1
    <3>1. i \in lastC + 1 .. n /\ i \in 1 .. n
      BY <1>1, <1>2, <2>2
    <3> QED
      BY <1>1, <3>1 DEF LogRestores, n
  <2> QED
    BY <2>1, <2>2
<1> QED
  BY <1>1, <1>2, <1>4, <1>5, <1>6, <1>7 DEF LogRestores
-----------------------------------------------------------------------------
\* The invariant, by the parts of the program. `taint` only grows, so that what
\* the failures leave behind matters in no step before.

ReadyLog == TInv /\ LogRestores

LEMMA HeadPages ==
  ASSUME ReadyLog, ProcessInv, pc \in {"up", "redo", "install"}, ~rcv.on
  PROVE  /\ committed.head \subseteq head /\ head \subseteq Pages
         /\ \A p \in head : p \in dirty \/ shared[p] = disk[p]
         /\ RecPage \notin IndexPages
BY TxLogAssumption DEF ReadyLog, TInv, TypeOK, ProcessInv, Memory

\* A transaction is open in no process that runs recover() and keeps its promises.
LEMMA NoReplay ==
  ASSUME ProcessInv, txOpen \/ pc \in {"redo", "install"}
  PROVE  ~rcv.on
BY DEF ProcessInv, NoTransaction

LEMMA NewestWasCommitted ==
  ASSUME NEW p, NEW v, Redone(log, p, lastC, v)
  PROVE  WasCommitted(p, v)
BY DEF Redone, NewestRedo, IsRedo, WasCommitted, lastC

\* The cache changes what it shows only of pages that the head does not have.
LEMMA SameView ==
  ASSUME ReadyLog, ProcessInv, pc \in {"up", "redo", "install"}, ~rcv.on,
         UNCHANGED <<log, pc, head, txVars, rcv, committed>>,
         \A p \in head : shared'[p] = shared[p],
         \A p \in head : p \in dirty' \/ shared'[p] = disk'[p]
  PROVE  ProcessInv'
<1>1. committed.head \subseteq head
  BY HeadPages
<1>2. RecordCount' = RecordCount
  BY DEF RecordCount
<1>3. \A p \in head : Seen(p)' = Seen(p)
  BY DEF Seen, txVars
<1>4. Copied' = Copied
  BY DEF Copied, txVars
<1>5. Memory => Memory'
  BY <1>1, <1>2, <1>3 DEF Memory, txVars
<1>6. Working => Working'
  BY <1>1, <1>2, <1>4 DEF Working
<1>7. (Idle => Idle') /\ (OnlyRead => OnlyRead')
  BY <1>1, <1>4 DEF Idle, OnlyRead, txVars
<1>8. Logging => Logging'
  BY <1>3 DEF Logging, txVars
<1>9. Installing => Installing'
  BY <1>1, <1>2, <1>3, <1>4 DEF Installing, txVars
<1>10. pc' = pc /\ rcv' = rcv
  OBVIOUS
<1> QED
  BY <1>5, <1>6, <1>7, <1>8, <1>9, <1>10 DEF ProcessInv

LEMMA EvictInReplay ==
  ASSUME ReadyLog, ProcessInv, NEW p \in Pages, Evict(p), rcv.on
  PROVE  ProcessInv'
<1>1. /\ pc = "up" /\ shared[p] # disk[p]
      /\ IF p \in dirty
         THEN disk' = [disk EXCEPT ![p] = shared[p]] /\ shared' = shared
         ELSE shared' = [shared EXCEPT ![p] = disk[p]] /\ disk' = disk
      /\ dirty' = dirty \ {p}
      /\ UNCHANGED <<log, pc, head, txVars, rcv, committed>>
  BY DEF Evict, ProcessInv, ghostVars
<1>2. Restoring /\ NoTransaction /\ Replaying
  BY <1>1 DEF ProcessInv
<1>3. shared \in [Pages -> Contents] /\ disk \in [Pages -> Contents]
  BY DEF ReadyLog, TInv, TypeOK
<1>4. lastC' = lastC /\ NoTransaction' /\ \A q, v : WasCommitted(q, v)' = WasCommitted(q, v)
  BY <1>1, <1>2 DEF lastC, NoTransaction, txVars, WasCommitted
<1>5. committed.head \subseteq Pages
  BY DEF ReadyLog, TInv, TypeOK, Commits
<1>6. ASSUME NEW q \in committed.head
      PROVE  /\ disk'[q] = disk[q] \/ Redone(log, q, lastC, disk'[q])
             /\ WasCommitted(q, shared'[q])
             /\ IF q \in dirty' THEN Redone(log, q, lastC, shared'[q])
                ELSE WasCommitted(q, disk'[q])
  <2>1. /\ WasCommitted(q, shared[q])
        /\ IF q \in dirty THEN Redone(log, q, lastC, shared[q])
           ELSE WasCommitted(q, disk[q])
    BY <1>2 DEF Replaying
  <2>2. CASE q # p
    BY <1>1, <1>3, <1>5, <2>1, <2>2
  <2>3. CASE q = p /\ p \in dirty
    BY <1>1, <1>3, <2>1, <2>3
  <2>4. CASE q = p /\ p \notin dirty
    BY <1>1, <1>3, <2>1, <2>4
  <2> QED
    BY <2>2, <2>3, <2>4
<1>7. Replaying'
  BY <1>1, <1>4, <1>6 DEF Replaying
<1>8. Restoring'
  <2>1. \A q \in committed.head, j \in 1 .. rcv.i :
          NewestRedo(log, q, rcv.i, j) =>
            j \in rcv.pending \/ disk'[q] = log[j].data \/ Redone(log, q, lastC, disk'[q])
    BY <1>2, <1>6 DEF Restoring
  <2> QED
    BY <1>1, <1>2, <1>4, <2>1 DEF Restoring
<1> QED
  BY <1>1, <1>4, <1>7, <1>8 DEF ProcessInv

LEMMA EvictInv ==
  ASSUME ReadyLog, ProcessInv, NEW p \in Pages, Evict(p)
  PROVE  LogRestores' /\ ProcessInv'
<1>1. pc \in {"up", "redo", "install"}
  BY DEF Evict
<1>2. ASSUME ~rcv.on
      PROVE  ProcessInv'
  <2>1. /\ head \subseteq Pages
        /\ \A q \in head : q \in dirty \/ shared[q] = disk[q]
    BY <1>1, <1>2, HeadPages
  <2>2. \A q \in head : shared'[q] = shared[q]
    BY <2>1 DEF Evict, ReadyLog, TInv, TypeOK
  <2>3. \A q \in head : q \in dirty' \/ shared'[q] = disk'[q]
    BY <2>1 DEF Evict, ReadyLog, TInv, TypeOK
  <2>4. UNCHANGED <<log, pc, head, txVars, rcv, committed>>
    BY DEF Evict, ghostVars
  <2> QED
    BY <1>1, <1>2, <2>2, <2>3, <2>4, SameView
<1>5. ASSUME rcv.on
      PROVE  ProcessInv'
  BY <1>5, EvictInReplay
<1>6. LogRestores'
  <2>1. UNCHANGED <<log, committed, flushed, diskHead, pc>>
    BY DEF Evict, ghostVars
  <2>2. lastC = 0 => diskHead' = {}
    BY <2>1 DEF ReadyLog, LogRestores
  <2> QED
    BY <2>1, <2>2, LogSame DEF ReadyLog, TInv
<1> QED
  BY <1>2, <1>5, <1>6

LEMMA StartTransactionInv ==
  ASSUME ReadyLog, ProcessInv, StartTransaction, taint' = {}
  PROVE  LogRestores' /\ ProcessInv'
<1>1. /\ pc = "up" /\ txOpen' = TRUE
      /\ UNCHANGED <<fileVars, pc, memVars, priv, backed, recToCommit, todo, rcv, committed>>
      /\ ~rcv.on
  BY DEF StartTransaction
<1>2. /\ Memory /\ Working /\ OnlyRead /\ ~rcv.on
  BY <1>1 DEF ProcessInv
<1>3. Memory' /\ Working' /\ OnlyRead' /\ Idle'
  BY <1>1, <1>2 DEF Memory, Working, OnlyRead, Idle, fileVars, memVars, Seen, RecordCount, Copied
<1>4. LogRestores'
  BY <1>1, LogSame DEF ReadyLog, TInv, fileVars, LogRestores
<1> QED
  BY <1>1, <1>2, <1>3, <1>4 DEF ProcessInv

LEMMA AddRecInv ==
  ASSUME ReadyLog, ProcessInv, AddRec, taint' = {}
  PROVE  LogRestores' /\ ProcessInv'
<1>1. /\ pc = "up" /\ txOpen
      /\ shared' = [shared EXCEPT ![RecPage] = RecordCount + 1]
      /\ dirty' = dirty \cup {RecPage} /\ head' = head \cup {RecPage}
      /\ recToCommit' = recToCommit \cup {RecPage}
      /\ UNCHANGED <<fileVars, pc, txOpen, priv, backed, todo, rcv, committed>>
  BY DEF AddRec
<1>2. Memory /\ Working /\ OnlyRead /\ ~rcv.on
  BY <1>1, NoReplay DEF ProcessInv
<1>3. /\ RecPage \notin IndexPages /\ RecPage \in Pages /\ IndexPages \subseteq Pages
      /\ RecordCount \in Nat
  BY TxLogAssumption, ReadTypes DEF ReadyLog, TInv, Pages
<1>3a. \A p \in IndexPages : Seen(p) \in Nat /\ shared[p] \in Nat
  BY ReadTypes DEF ReadyLog, TInv, TypeOK
<1>4. RecordCount' = RecordCount + 1
  BY <1>1, <1>3 DEF RecordCount, ReadyLog, TInv, TypeOK
<1>5. \A p \in IndexPages : shared'[p] = shared[p] /\ Seen(p)' = Seen(p)
  BY <1>1, <1>3 DEF Seen, ReadyLog, TInv, TypeOK
<1>6. IndexPages \cap head' = IndexPages \cap head /\ Copied' = Copied
  BY <1>1, <1>3 DEF Copied
<1>7. Memory'
  <2>0. disk' = disk /\ shared \in [Pages -> Contents] /\ head \subseteq Pages
    BY <1>1 DEF fileVars, ReadyLog, TInv, TypeOK
  <2>1. /\ committed.head' \subseteq head' /\ recToCommit' # {}
        /\ \A p \in head' : p \in dirty' \/ shared'[p] = disk'[p]
    BY <1>1, <1>2, <2>0 DEF Memory
  <2>2. \A p \in IndexPages \cap head : Seen(p) <= RecordCount
    BY <1>2 DEF Memory
  <2>3. \A p \in IndexPages \cap head' : Seen(p)' <= RecordCount'
    BY <1>3, <1>3a, <1>4, <1>5, <1>6, <2>2
  <2> QED
    BY <2>1, <2>3 DEF Memory
<1>8. Working'
  <2>1. \A p \in IndexPages \cap committed.head :
          shared[p] = committed.data[p] /\ shared[p] <= RecordCount
    BY <1>2 DEF Working
  <2>2. \A p \in IndexPages \cap committed.head' :
          shared'[p] = committed.data'[p] /\ shared'[p] <= RecordCount'
    BY <1>1, <1>3, <1>3a, <1>4, <1>5, <2>1
  <2>3. \A p \in (IndexPages \cap head') \ committed.head' : p \in Copied' /\ shared'[p] = 0
    BY <1>1, <1>2, <1>5, <1>6 DEF Working
  <2> QED
    BY <2>2, <2>3 DEF Working
<1>9. Idle' /\ OnlyRead'
  BY <1>1, <1>2, <1>5, <1>6 DEF Idle, OnlyRead, Copied
<1>10. LogRestores'
  BY <1>1, LogSame DEF ReadyLog, TInv, fileVars, LogRestores
<1> QED
  BY <1>1, <1>2, <1>7, <1>8, <1>9, <1>10 DEF ProcessInv

LEMMA TxReadOpInv ==
  ASSUME ReadyLog, ProcessInv, NEW p \in IndexPages, TxReadOp(p)
  PROVE  LogRestores' /\ ProcessInv'
<1>1. /\ pc = "up" /\ txOpen /\ p \in head /\ p \notin Copied
      /\ priv' = [priv EXCEPT ![p] = shared[p]]
      /\ UNCHANGED <<fileVars, pc, memVars, txOpen, backed, recToCommit, todo, rcv, committed>>
  BY DEF TxReadOp, InTx, ghostVars
<1>2. Memory /\ Working /\ OnlyRead /\ ~rcv.on
  BY <1>1, NoReplay DEF ProcessInv
<1>3. priv \in [IndexPages -> Contents \cup {NoPage}]
  BY DEF ReadyLog, TInv, TypeOK
<1>4. RecordCount' = RecordCount /\ UNCHANGED <<head, dirty, shared, disk, log, recToCommit>>
  BY <1>1 DEF RecordCount, memVars, fileVars
<1>5. \A q \in IndexPages : Seen(q)' = Seen(q)
  BY <1>1, <1>3, <1>4 DEF Seen, Copied
<1>6. Copied \subseteq Copied'
  BY <1>1, <1>3 DEF Copied
<1>7. Memory'
  BY <1>1, <1>2, <1>4, <1>5 DEF Memory
<1>8. Working'
  BY <1>1, <1>2, <1>4, <1>6 DEF Working
<1>9. Idle'
  BY <1>1 DEF Idle
<1>10. OnlyRead'
  <2> SUFFICES ASSUME NEW q \in (Copied' \cap committed.head) \ backed
               PROVE  priv'[q] = shared[q]
    BY <1>1, <1>4 DEF OnlyRead
  <2>1. q \in IndexPages
    BY DEF Copied
  <2>2. CASE q = p
    BY <1>1, <1>3, <2>2
  <2>3. CASE q # p
    <3>1. priv'[q] = priv[q] /\ q \in Copied
      BY <1>1, <1>3, <2>1, <2>3 DEF Copied
    <3> QED
      BY <1>2, <3>1 DEF OnlyRead
  <2> QED
    BY <2>2, <2>3
<1>11. LogRestores'
  BY <1>1, LogSame DEF ReadyLog, TInv, fileVars, LogRestores
<1> QED
  BY <1>1, <1>2, <1>7, <1>8, <1>9, <1>10, <1>11 DEF ProcessInv

\* The first write of a page logs what is committed of it.
LEMMA WriteOpInv ==
  ASSUME ReadyLog, ProcessInv, pc = "up", txOpen,
         NEW p \in IndexPages, NEW old \in Contents, NEW v \in Contents,
         WriteOp(p, old, v), head' = head \cup {p},
         p \in head => UNCHANGED shared,
         \A q \in head \ {p} : shared'[q] = shared[q],
         p \notin head => shared'[p] = 0,
         \A q \in head' : q \in dirty' \/ shared'[q] = disk[q],
         p \in committed.head /\ p \notin backed => old = committed.data[p]
  PROVE  LogRestores' /\ ProcessInv'
<1>1. /\ priv' = [priv EXCEPT ![p] = v] /\ backed' = backed \cup {p} /\ v <= RecordCount
      /\ UNCHANGED <<disk, diskHead, pc, txOpen, recToCommit, todo, rcv, committed>>
  BY DEF WriteOp, ghostVars
<1>2. \/ log' = log /\ flushed' = flushed
      \/ log' = Append(log, UndoRec(p, old)) /\ flushed' = Len(log') /\ p \notin backed
  BY DEF WriteOp, Append_log
<1>3. /\ UndoRec(p, old) \in LogEntries /\ UndoRec(p, old).type = "UNDO"
      /\ UndoRec(p, old).page = p /\ UndoRec(p, old).data = old
  BY NewEntries, ReadTypes DEF ReadyLog, TInv, UndoRec
<1>4. Memory /\ Working /\ OnlyRead /\ ~rcv.on
  BY NoReplay DEF ProcessInv
<1>5. /\ RecPage \notin IndexPages /\ v # NoPage
      /\ priv \in [IndexPages -> Contents \cup {NoPage}]
  BY TxLogAssumption, ReadTypes DEF ReadyLog, TInv, TypeOK
<1>6. /\ \A q \in IndexPages : q # p => priv'[q] = priv[q]
      /\ priv'[p] = v /\ Copied' = Copied \cup {p}
  BY <1>1, <1>5 DEF Copied
<1>7. RecordCount' = RecordCount
  BY <1>5 DEF RecordCount
<1>8. Seen(p)' = v /\ \A q \in IndexPages \cap head : q # p => Seen(q)' = Seen(q)
  BY <1>5, <1>6 DEF Seen
<1>9. committed.head \subseteq head
  BY <1>4 DEF Memory
<1>10. LogRestores'
  <2>1. CASE log' = log /\ flushed' = flushed
    BY <1>1, <2>1, LogSame DEF ReadyLog, TInv, LogRestores
  <2>2. CASE log' = Append(log, UndoRec(p, old)) /\ flushed' = Len(log') /\ p \notin backed
    BY <1>1, <1>3, <2>2, LogLonger DEF ReadyLog, TInv
  <2> QED
    BY <1>2, <2>1, <2>2
<1>11. ASSUME NEW w, Redone(log, RecPage, Len(log), w)
       PROVE  Redone(log', RecPage, Len(log'), w)
  <2>1. ~IsRedo(UndoRec(p, old), RecPage)
    BY <1>3 DEF IsRedo
  <2> QED
    BY <1>2, <1>3, <1>11, <2>1, AppendKeeps DEF ReadyLog, TInv
<1>12. Memory'
  <2>1. \A q \in IndexPages \cap head' : Seen(q)' <= RecordCount'
    BY <1>1, <1>4, <1>7, <1>8 DEF Memory
  <2>2. RecPage \in head' /\ recToCommit' = {} =>
          Redone(log', RecPage, Len(log'), shared'[RecPage])
    BY <1>1, <1>4, <1>5, <1>11 DEF Memory
  <2> QED
    BY <1>1, <1>9, <2>1, <2>2 DEF Memory
<1>13. Working'
  <2>1. \A q \in committed.head : shared'[q] = shared[q]
    BY <1>9
  <2>2. \A q \in IndexPages \cap committed.head' :
          shared'[q] = committed.data'[q] /\ shared'[q] <= RecordCount'
    BY <1>1, <1>4, <1>7, <2>1 DEF Working
  <2>3. \A q \in (IndexPages \cap head') \ committed.head' : q \in Copied' /\ shared'[q] = 0
    BY <1>1, <1>4, <1>6 DEF Working
  <2> QED
    BY <2>2, <2>3 DEF Working
<1>14. Idle'
  BY <1>1 DEF Idle
<1>15. OnlyRead'
  <2>1. \A q \in IndexPages \cap committed.head : shared'[q] = shared[q]
    BY <1>9
  <2>2. \A q \in Copied : q \in IndexPages
    BY DEF Copied
  <2> QED
    BY <1>1, <1>4, <1>6, <2>1, <2>2 DEF OnlyRead
<1> QED
  BY <1>1, <1>4, <1>10, <1>12, <1>13, <1>14, <1>15 DEF ProcessInv

LEMMA TxWriteOpInv ==
  ASSUME ReadyLog, ProcessInv, NEW p \in IndexPages, NEW v \in Contents, TxWriteOp(p, v)
  PROVE  LogRestores' /\ ProcessInv'
<1>1. /\ pc = "up" /\ txOpen /\ p \in head /\ WriteOp(p, Seen(p), v)
      /\ UNCHANGED <<head, shared, dirty>>
  BY DEF TxWriteOp, InTx, memVars
<1>2. Seen(p) \in Contents
  BY ReadTypes DEF ReadyLog, TInv
<1>3. Memory /\ Working /\ OnlyRead
  BY <1>1, NoReplay DEF ProcessInv
<1>4. p \in committed.head /\ p \notin backed => Seen(p) = committed.data[p]
  BY <1>3 DEF OnlyRead, Working, Seen, Copied
<1>5. head' = head \cup {p} /\ \A q \in head' : q \in dirty' \/ shared'[q] = disk[q]
  BY <1>1, <1>3 DEF Memory
<1> QED
  BY <1>1, <1>2, <1>4, <1>5, WriteOpInv

LEMMA AllocAndWriteInv ==
  ASSUME ReadyLog, ProcessInv, NEW p \in IndexPages, NEW v \in Contents, AllocAndWrite(p, v)
  PROVE  LogRestores' /\ ProcessInv'
<1> DEFINE old == IF p \in Copied THEN priv[p] ELSE 0
<1>1. /\ pc = "up" /\ txOpen /\ p \notin head /\ WriteOp(p, old, v)
      /\ head' = head \cup {p} /\ shared' = [shared EXCEPT ![p] = 0]
      /\ dirty' = dirty \cup {p}
  BY DEF AllocAndWrite, InTx
<1>2. old \in Contents
  BY ReadTypes DEF ReadyLog, TInv
<1> HIDE DEF old
<1>3. Memory
  BY <1>1, NoReplay DEF ProcessInv
<1>5. (\A q \in head \ {p} : shared'[q] = shared[q]) /\ shared'[p] = 0
  BY <1>1 DEF ReadyLog, TInv, TypeOK, Pages
<1>4. p \notin committed.head /\ \A q \in head' : q \in dirty' \/ shared'[q] = disk[q]
  BY <1>1, <1>3, <1>5 DEF Memory
<1> QED
  BY <1>1, <1>2, <1>4, <1>5, WriteOpInv

LEMMA CommitInv ==
  ASSUME ReadyLog, ProcessInv, Commit
  PROVE  LogRestores' /\ ProcessInv'
<1>1. /\ pc = "up" /\ txOpen /\ pc' = "redo" /\ todo' = Copied
      /\ UNCHANGED <<fileVars, memVars, txOpen, priv, backed, recToCommit, rcv, committed>>
  BY DEF Commit, InTx, ghostVars
<1>2. Memory /\ Working /\ ~rcv.on
  BY <1>1, NoReplay DEF ProcessInv
<1>3. /\ UNCHANGED <<disk, log, head, shared, dirty>> /\ RecordCount' = RecordCount
      /\ \A p : Seen(p)' = Seen(p)
      /\ Copied' = Copied
  BY <1>1 DEF RecordCount, Seen, Copied, memVars, fileVars
<1>4. Memory' /\ Working'
  BY <1>1, <1>2, <1>3 DEF Memory, Working
<1>5. ASSUME NEW p \in (IndexPages \cap head) \ Copied
      PROVE  Redone(log, p, Len(log), Seen(p))
  <2>1. p \in IndexPages \cap committed.head /\ Seen(p) = committed.data[p]
    BY <1>2, <1>5 DEF Working, Seen, Copied
  <2>2. Redone(log, p, lastC, Seen(p))
    BY <2>1 DEF ReadyLog, LogRestores
  <2> QED
    BY <1>1, <2>2, RedoneNow DEF ReadyLog, TInv
<1>6. Logging'
  BY <1>1, <1>3, <1>5 DEF Logging
<1>7. LogRestores'
  BY <1>1, LogSame DEF ReadyLog, TInv, fileVars, LogRestores
<1> QED
  BY <1>1, <1>2, <1>4, <1>6, <1>7 DEF ProcessInv

LEMMA LogRedoInv ==
  ASSUME ReadyLog, ProcessInv, NEW p \in IndexPages, LogRedo(p)
  PROVE  LogRestores' /\ ProcessInv'
<1> DEFINE r == RedoRec(p, priv[p])
<1>1. /\ pc = "redo" /\ p \in todo /\ todo' = todo \ {p}
      /\ log' = Append(log, r) /\ flushed' = flushed
      /\ UNCHANGED <<disk, diskHead, pc, memVars, txOpen, priv, backed, recToCommit, rcv,
                     committed>>
  BY DEF LogRedo, Append_log, ghostVars
<1>2. p \in Copied /\ RecPage \notin IndexPages
  BY <1>1, TxLogAssumption DEF ReadyLog, TInv, TodoIsCopied
<1>3. r \in LogEntries /\ r.type = "REDO" /\ r.page = p /\ r.data = Seen(p)
  BY <1>2, ReadTypes, NewEntries DEF ReadyLog, TInv, RedoRec, Seen, Copied
<1> HIDE DEF r
<1>4. Memory /\ Working /\ Logging /\ ~rcv.on
  BY <1>1, NoReplay DEF ProcessInv
<1>5. /\ UNCHANGED <<disk, head, shared, dirty>> /\ RecordCount' = RecordCount
      /\ \A q : Seen(q)' = Seen(q)
      /\ Copied' = Copied
  BY <1>1 DEF RecordCount, Seen, Copied, memVars
<1>6. \A q, v : q # p => (Redone(log', q, Len(log'), v) <=> Redone(log, q, Len(log), v))
  BY <1>1, <1>3, AppendKeeps DEF ReadyLog, TInv, IsRedo
<1>7. Redone(log', p, Len(log'), Seen(p))
  <2>1. Len(log') \in Nat \ {0} /\ log'[Len(log')] = r
    BY <1>1, <1>3, Appended, ReadTypes DEF ReadyLog, TInv
  <2> QED
    BY <1>3, <2>1, RedoneLast DEF IsRedo
<1>8. Memory'
  BY <1>1, <1>2, <1>4, <1>5, <1>6 DEF Memory
<1>9. Working'
  BY <1>1, <1>4, <1>5 DEF Working
<1>10. Logging'
  BY <1>1, <1>4, <1>5, <1>6, <1>7 DEF Logging
<1>11. LogRestores'
  BY <1>1, <1>3, LogLonger DEF ReadyLog, TInv
<1> QED
  BY <1>1, <1>4, <1>8, <1>9, <1>10, <1>11 DEF ProcessInv

LEMMA LogRecordsInv ==
  ASSUME ReadyLog, ProcessInv, LogRecords
  PROVE  LogRestores' /\ ProcessInv'
<1> DEFINE r == RedoRec(RecPage, shared[RecPage])
<1>1. /\ pc = "redo" /\ log' = Append(log, r) /\ flushed' = flushed /\ recToCommit' = {}
      /\ UNCHANGED <<disk, diskHead, pc, memVars, txOpen, priv, backed, todo, rcv, committed>>
  BY DEF LogRecords, Append_log, ghostVars
<1>2. RecPage \notin IndexPages /\ shared[RecPage] \in Contents
  BY TxLogAssumption, ReadTypes DEF ReadyLog, TInv, TypeOK
<1>3. r \in LogEntries /\ r.type = "REDO" /\ r.page = RecPage /\ r.data = shared[RecPage]
  BY <1>2, ReadTypes, NewEntries DEF ReadyLog, TInv, RedoRec
<1> HIDE DEF r
<1>4. Memory /\ Working /\ Logging /\ ~rcv.on
  BY <1>1, NoReplay DEF ProcessInv
<1>5. /\ UNCHANGED <<disk, head, shared, dirty>> /\ RecordCount' = RecordCount
      /\ \A q : Seen(q)' = Seen(q)
      /\ Copied' = Copied
  BY <1>1 DEF RecordCount, Seen, Copied, memVars
<1>6. \A q, v : q # RecPage => (Redone(log', q, Len(log'), v) <=> Redone(log, q, Len(log), v))
  BY <1>1, <1>3, AppendKeeps DEF ReadyLog, TInv, IsRedo
<1>7. Redone(log', RecPage, Len(log'), shared[RecPage])
  <2>1. Len(log') \in Nat \ {0} /\ log'[Len(log')] = r
    BY <1>1, <1>3, Appended, ReadTypes DEF ReadyLog, TInv
  <2> QED
    BY <1>3, <2>1, RedoneLast DEF IsRedo
<1>8. Memory'
  BY <1>1, <1>2, <1>4, <1>5, <1>7 DEF Memory
<1>9. Working'
  BY <1>1, <1>4, <1>5 DEF Working
<1>10. Logging'
  BY <1>1, <1>2, <1>4, <1>5, <1>6 DEF Logging
<1>11. LogRestores'
  BY <1>1, <1>3, LogLonger DEF ReadyLog, TInv
<1> QED
  BY <1>1, <1>4, <1>8, <1>9, <1>10, <1>11 DEF ProcessInv

\* Everything the transaction sees is behind a REDO record by now, so that the
\* COMMITTED record makes it what the log restores.
LEMMA LogCommittedInv ==
  ASSUME ReadyLog, ProcessInv, LogCommitted
  PROVE  LogRestores' /\ ProcessInv'
<1> DEFINE r == CommittedRec(head)
           n == Len(log)
<1>1. /\ pc = "redo" /\ todo = {} /\ recToCommit = {} /\ pc' = "install" /\ todo' = Copied
      /\ log' = Append(log, r) /\ flushed' = Len(log')
      /\ committed' = [head |-> head, data |-> SeenPages, before |-> committed.data]
      /\ UNCHANGED <<disk, diskHead, memVars, txOpen, priv, backed, recToCommit, rcv>>
  BY DEF LogCommitted, Append_log
<1>2. head \in SUBSET Pages
  BY DEF ReadyLog, TInv, TypeOK
<1>3. r \in LogEntries /\ r.type = "COMMITTED" /\ r.head = head
  BY <1>2, ReadTypes, NewEntries DEF ReadyLog, TInv, CommittedRec
<1> HIDE DEF r
<1>4. Memory /\ Working /\ Logging /\ ~rcv.on
  BY <1>1, NoReplay DEF ProcessInv
<1>5. /\ UNCHANGED <<disk, head, shared, dirty>> /\ RecordCount' = RecordCount
      /\ \A q : Seen(q)' = Seen(q)
      /\ Copied' = Copied
  BY <1>1 DEF RecordCount, Seen, Copied, memVars
<1>6. /\ n \in Nat /\ Len(log') = n + 1 /\ log'[n + 1] = r
      /\ \A i \in 1 .. n : log'[i] = log[i]
  BY <1>1, <1>3, Appended, ReadTypes DEF ReadyLog, TInv
<1> HIDE DEF n
<1>7. lastC' = n + 1
  <2>1. /\ Len(log') \in Nat /\ n + 1 \in 0 .. Len(log') /\ log'[n + 1].type = "COMMITTED"
        /\ \A k \in 1 .. Len(log') : log'[k].type = "COMMITTED" => k <= n + 1
    BY <1>3, <1>6
  <2>2. LastCommit(log') = n + 1
    BY <2>1, LastCommitUnique
  <2> QED
    BY <2>2 DEF lastC
<1>8. \A p, v : Redone(log, p, n, v) => Redone(log', p, n + 1, v)
  <2> SUFFICES ASSUME NEW p, NEW v, Redone(log, p, n, v)
               PROVE  Redone(log', p, n + 1, v)
    OBVIOUS
  <2>1. Redone(log', p, n, v)
    BY <1>6, RedoneInBoth
  <2>2. \A i \in n + 1 .. n + 1 : ~IsRedo(log'[i], p)
    BY <1>3, <1>6 DEF IsRedo
  <2>3. n + 1 \in Nat /\ n <= n + 1
    BY <1>6
  <2> QED
    BY <1>6, <2>1, <2>2, <2>3, RedoneFurther
<1>9. /\ committed'.head = head
      /\ \A p \in IndexPages \cap head : committed'.data[p] = Seen(p)
      /\ \A p \in IndexPages \ head : committed'.data[p] = 0
      /\ committed'.before = committed.data
  BY <1>1 DEF SeenPages
<1>10. \A p \in IndexPages \cap head : /\ Redone(log', p, n + 1, Seen(p))
                                       /\ Seen(p) \in Nat /\ Seen(p) <= RecordCount
  BY <1>1, <1>4, <1>8, ReadTypes DEF Logging, Memory, n, ReadyLog, TInv
<1>11. RecPage \in head => /\ Redone(log', RecPage, n + 1, shared[RecPage])
                           /\ RecordCount = shared[RecPage] /\ shared[RecPage] \in Nat
  <2>1. RecordCount \in Nat
    BY ReadTypes DEF ReadyLog, TInv
  <2> QED
    BY <1>1, <1>4, <1>8, <2>1 DEF Memory, n, RecordCount
<1>12. LogRestores'
  <2>1. lastC' <= flushed' /\ lastC' # 0 /\ log'[lastC'].head = committed'.head
    BY <1>1, <1>3, <1>6, <1>7, <1>9
  <2>2. \A p \in IndexPages \cap committed'.head :
          Redone(log', p, lastC', committed'.data[p])
    BY <1>7, <1>9, <1>10
  <2>3. RecPage \in committed'.head =>
          \E m \in Nat : /\ Redone(log', RecPage, lastC', m)
                         /\ \A p \in IndexPages \cap committed'.head :
                              committed'.data[p] <= m
    BY <1>7, <1>9, <1>10, <1>11
  <2>4. RecPage \notin committed'.head =>
          \A p \in IndexPages \cap committed'.head : committed'.data[p] = 0
    BY <1>9, <1>10 DEF RecordCount
  <2>5. lastC' + 1 .. Len(log') = {}
    BY <1>6, <1>7
  <2>6. \A p \in IndexPages \ committed'.head : committed'.data[p] = 0
    BY <1>9
  <2> QED
    BY <2>1, <2>2, <2>3, <2>4, <2>5, <2>6 DEF LogRestores
<1>13. Memory'
  BY <1>1, <1>4, <1>5, <1>6, <1>9, <1>10, <1>11 DEF Memory
<1>14. Installing'
  <2>1. ASSUME NEW p \in Copied \cap head
        PROVE  shared[p] = committed.data[p] /\ shared[p] <= RecordCount
    <3>1. p \in IndexPages /\ RecordCount \in Nat
      BY ReadTypes DEF Copied, ReadyLog, TInv
    <3>2. CASE p \in committed.head
      BY <1>4, <3>1, <3>2 DEF Working
    <3>3. CASE p \notin committed.head
      BY <1>4, <2>1, <3>1, <3>3 DEF Working, ReadyLog, LogRestores
    <3> QED
      BY <3>2, <3>3
  <2> QED
    BY <1>1, <1>4, <1>5, <1>9, <2>1 DEF Installing, Logging
<1> QED
  BY <1>1, <1>4, <1>12, <1>13, <1>14 DEF ProcessInv

LEMMA InstallInv ==
  ASSUME ReadyLog, ProcessInv, NEW p \in IndexPages, Install(p)
  PROVE  LogRestores' /\ ProcessInv'
<1>1. /\ pc = "install" /\ p \in todo /\ todo' = todo \ {p}
      /\ shared' = [shared EXCEPT ![p] = priv[p]] /\ dirty' = dirty \cup {p}
      /\ priv' = [priv EXCEPT ![p] = NoPage]
      /\ UNCHANGED <<fileVars, pc, head, txOpen, backed, recToCommit, rcv, committed>>
  BY DEF Install, ghostVars
<1>2. Memory /\ Installing /\ ~rcv.on
  BY <1>1, NoReplay DEF ProcessInv
<1>3. /\ RecPage \notin IndexPages /\ IndexPages \subseteq Pages
      /\ shared \in [Pages -> Contents] /\ priv \in [IndexPages -> Contents \cup {NoPage}]
      /\ priv[p] # NoPage
  BY <1>1, TxLogAssumption DEF ReadyLog, TInv, TypeOK, Pages, TodoIsCopied, Copied
<1>4. RecordCount' = RecordCount /\ shared'[RecPage] = shared[RecPage]
  BY <1>1, <1>3 DEF RecordCount, Pages
<1>5. \A q \in IndexPages : Seen(q)' = Seen(q)
  BY <1>1, <1>3 DEF Seen
<1>6. Copied' = Copied \ {p}
  BY <1>1, <1>3 DEF Copied
<1>7. Memory'
  <2>1. head \subseteq Pages /\ disk' = disk
    BY <1>1 DEF ReadyLog, TInv, TypeOK, fileVars
  <2>2. \A q \in head : q \in dirty' \/ shared'[q] = disk'[q]
    BY <1>1, <1>2, <1>3, <2>1 DEF Memory
  <2> QED
    BY <1>1, <1>2, <1>4, <1>5, <2>2 DEF Memory, fileVars
<1>8. Installing'
  <2>1. \A q \in todo' \cap committed.head : q \in IndexPages /\ q # p /\ shared'[q] = shared[q]
    BY <1>1, <1>3 DEF ReadyLog, TInv, TypeOK
  <2> QED
    BY <1>1, <1>2, <1>4, <1>5, <1>6, <2>1 DEF Installing
<1>9. LogRestores'
  BY <1>1, LogSame DEF ReadyLog, TInv, fileVars, LogRestores
<1> QED
  BY <1>1, <1>2, <1>7, <1>8, <1>9 DEF ProcessInv

LEMMA EndCommitInv ==
  ASSUME ReadyLog, ProcessInv, EndCommit
  PROVE  LogRestores' /\ ProcessInv'
<1>1. /\ pc = "install" /\ todo = {} /\ pc' = "up" /\ txOpen' = FALSE
      /\ UNCHANGED <<fileVars, memVars, priv, recToCommit, todo, rcv, committed>>
  BY DEF EndCommit, ghostVars
<1>2. Memory /\ Installing /\ ~rcv.on
  BY <1>1, NoReplay DEF ProcessInv
<1>3. Copied = {} /\ Copied' = {} /\ head = committed.head
  BY <1>1, <1>2 DEF Installing, Copied
<1>4. priv = NoCopies
  <2>1. priv \in [IndexPages -> Contents \cup {NoPage}]
    BY DEF ReadyLog, TInv, TypeOK
  <2>2. \A p \in IndexPages : priv[p] = NoPage
    BY <1>3 DEF Copied
  <2> QED
    BY <2>1, <2>2 DEF NoCopies
<1>5. /\ UNCHANGED <<disk, log, head, shared, dirty>> /\ RecordCount' = RecordCount
      /\ \A q : Seen(q)' = Seen(q)
  BY <1>1 DEF RecordCount, Seen, memVars, fileVars
<1>6. Memory'
  BY <1>1, <1>2, <1>5 DEF Memory
<1>7. Working'
  <2>1. \A p \in IndexPages \cap committed.head :
          shared[p] = committed.data[p] /\ shared[p] <= RecordCount
    BY <1>2, <1>3 DEF Installing, Memory, Seen, Copied
  <2> QED
    BY <1>1, <1>3, <1>5, <2>1 DEF Working
<1>8. Idle' /\ OnlyRead'
  BY <1>1, <1>2, <1>3, <1>4, <1>5 DEF Idle, OnlyRead, Installing
<1>9. LogRestores'
  BY <1>1, LogSame DEF ReadyLog, TInv, fileVars, LogRestores
<1> QED
  BY <1>1, <1>2, <1>6, <1>7, <1>8, <1>9 DEF ProcessInv

LEMMA ForgetInv ==
  ASSUME Forget, shared' = disk'
  PROVE  ProcessInv'
<1>1. rcv'.on = FALSE
  BY DEF Forget, NotRecovering
<1> QED
  BY <1>1 DEF Forget, ProcessInv, NoTransaction, FreshCache

\* The log is cut behind the last COMMITTED record, which was forced.
LEMMA CrashInv ==
  ASSUME ReadyLog, Crash, taint' = {}
  PROVE  LogRestores' /\ ProcessInv'
<1>1. PICK k \in flushed .. Len(log) :
        /\ log' = SubSeq(log, 1, k) /\ flushed' = k
        /\ taint' = taint \cup
             (IF \E i \in LastCommit(log') + 1 .. k : log'[i].type = "REDO"
              THEN {"orphan REDO"} ELSE {})
  BY DEF Crash
<1>2. Forget /\ UNCHANGED <<diskHead, committed>> /\ shared' = disk'
  BY DEF Crash
<1>3. /\ lastC \in 0 .. Len(log) /\ Len(log) \in Nat
      /\ lastC # 0 => log[lastC].type = "COMMITTED"
      /\ \A i \in 1 .. Len(log) : log[i].type = "COMMITTED" => i <= lastC
  BY LastCommitHere DEF ReadyLog, TInv
<1>4. flushed \in Nat /\ lastC <= flushed
  <2>1. flushed \in 0 .. Len(log)
    BY DEF ReadyLog, TInv, TypeOK
  <2>2. lastC <= flushed
    BY DEF ReadyLog, LogRestores
  <2> QED
    BY <1>3, <2>1, <2>2
<1>5. k \in 0 .. Len(log) /\ lastC \in 0 .. k /\ k \in Nat
  BY <1>3, <1>4
<1>6. /\ log' \in Seq(LogEntries) /\ Len(log') = k
      /\ \A i \in 1 .. k : log'[i] = log[i]
  BY <1>1, <1>5, KeptLog DEF ReadyLog, TInv
<1>7. lastC' = lastC
  <2>1. /\ Len(log') \in Nat /\ lastC \in 0 .. Len(log')
        /\ lastC # 0 => log'[lastC].type = "COMMITTED"
        /\ \A i \in 1 .. Len(log') : log'[i].type = "COMMITTED" => i <= lastC
    BY <1>3, <1>5, <1>6
  <2>2. LastCommit(log') = lastC
    BY <2>1, LastCommitUnique
  <2> QED
    BY <2>2 DEF lastC
<1>8. \A p, v : Redone(log', p, lastC, v) <=> Redone(log, p, lastC, v)
  <2>1. lastC \in Nat /\ \A i \in 1 .. lastC : log'[i] = log[i]
    BY <1>5, <1>6
  <2> QED
    BY <2>1, RedoneInBoth
<1>9. \A i \in lastC + 1 .. k :
        /\ log'[i].type # "REDO"
        /\ log'[i].type = "UNDO" /\ log'[i].page \in committed.head =>
             log'[i].data = committed.data[log'[i].page]
  <2> SUFFICES ASSUME NEW i \in lastC + 1 .. k
               PROVE  /\ log'[i].type # "REDO"
                      /\ log'[i].type = "UNDO" /\ log'[i].page \in committed.head =>
                           log'[i].data = committed.data[log'[i].page]
    OBVIOUS
  <2>1. i \in 1 .. k /\ i \in lastC + 1 .. Len(log)
    BY <1>3, <1>5
  <2>2. ~ \E j \in LastCommit(log') + 1 .. k : log'[j].type = "REDO"
    BY <1>1
  <2>3. log'[i].type # "REDO"
    BY <1>7, <2>2 DEF lastC
  <2> QED
    BY <1>6, <2>1, <2>3 DEF ReadyLog, LogRestores
<1>10. IF lastC = 0 THEN committed.head = {} /\ diskHead = {}
       ELSE log'[lastC].head = committed.head
  BY <1>5, <1>6 DEF ReadyLog, LogRestores
<1>11. LogRestores'
  <2>0. lastC <= k
    BY <1>5
  <2>1. lastC' <= flushed'
    BY <1>1, <1>7, <2>0
  <2>2. /\ \A p \in IndexPages \cap committed.head :
             Redone(log', p, lastC, committed.data[p])
        /\ RecPage \in committed.head =>
             \E n \in Nat : /\ Redone(log', RecPage, lastC, n)
                            /\ \A p \in IndexPages \cap committed.head :
                                 committed.data[p] <= n
        /\ RecPage \notin committed.head =>
             \A p \in IndexPages \cap committed.head : committed.data[p] = 0
        /\ \A p \in IndexPages \ committed.head : committed.data[p] = 0
    BY <1>8 DEF ReadyLog, LogRestores
  <2> QED
    BY <1>2, <1>6, <1>7, <1>9, <1>10, <2>1, <2>2 DEF LogRestores
<1> QED
  BY <1>2, <1>11, ForgetInv

LEMMA CleanExitInv ==
  ASSUME ReadyLog, ProcessInv, CleanExit, taint' = {}
  PROVE  LogRestores' /\ ProcessInv'
<1>1. /\ pc = "up" /\ diskHead' = head /\ flushed' = Len(log)
      /\ Forget /\ UNCHANGED <<log, committed>> /\ shared' = disk'
      /\ CommitRecords(log) = {} => head = committed.head
  BY DEF CleanExit
<1>2. lastC = 0 => diskHead' = {}
  BY <1>1, LastCommitHere DEF ReadyLog, TInv, LogRestores
<1>3. LogRestores'
  BY <1>1, <1>2, LogSame DEF ReadyLog, TInv
<1> QED
  BY <1>1, <1>3, ForgetInv

LEMMA StartedFrom ==
  ASSUME TInv, rcv' = StartOfLog, log' = log
  PROVE  /\ rcv'.on = TRUE /\ rcv'.len = Len(log') /\ rcv'.i = 0 /\ rcv'.pending = {}
         /\ lastC' = lastC /\ lastC \in Nat
         /\ 1 .. rcv'.i = {}
BY LastCommitHere DEF StartOfLog, lastC, TInv

LEMMA StartInv ==
  ASSUME ReadyLog, ProcessInv, Start
  PROVE  LogRestores' /\ ProcessInv'
<1>1. /\ pc = "down" /\ pc' = "recover" /\ head' = diskHead /\ flushed' = Len(log)
      /\ rcv' = StartOfLog
      /\ UNCHANGED <<disk, diskHead, log, shared, dirty, txVars, committed>>
  BY DEF Start, ghostVars
<1>2. NoTransaction /\ FreshCache
  BY <1>1 DEF ProcessInv
<1>3. NoTransaction' /\ FreshCache'
  BY <1>1, <1>2 DEF NoTransaction, FreshCache, txVars
<1>4. /\ rcv'.on = TRUE /\ rcv'.len = Len(log') /\ rcv'.i = 0 /\ rcv'.pending = {}
      /\ lastC' = lastC /\ lastC \in Nat
      /\ 1 .. rcv'.i = {}
  BY <1>1, StartedFrom DEF ReadyLog
<1>6. lastC = 0 => head' = {}
  BY <1>1 DEF ReadyLog, LogRestores
<1>7. Restoring'
  BY <1>4, <1>6 DEF Restoring
<1>8. LogRestores'
  BY <1>1, LogSame DEF ReadyLog, TInv, LogRestores
<1> QED
  BY <1>1, <1>3, <1>4, <1>7, <1>8 DEF ProcessInv
-----------------------------------------------------------------------------
\* The loop of recover().

LEMMA RecoverReads ==
  ASSUME ReadyLog
  PROVE  /\ lastC \in 0 .. Len(log) /\ Len(log) \in Nat
         /\ \A k \in 1 .. Len(log) : log[k].type = "COMMITTED" => k <= lastC
         /\ lastC # 0 => log[lastC].type = "COMMITTED"
         /\ rcv.i \in 0 .. Len(log)
         /\ rcv.pending \subseteq 1 .. Len(log)
         /\ \A j \in rcv.pending : log[j] \in LogEntries
<1>1. /\ lastC \in 0 .. Len(log) /\ Len(log) \in Nat
      /\ \A k \in 1 .. Len(log) : log[k].type = "COMMITTED" => k <= lastC
      /\ lastC # 0 => log[lastC].type = "COMMITTED"
  BY LastCommitHere DEF ReadyLog, TInv
<1>2. rcv \in RecoverStates(Len(log))
  BY DEF ReadyLog, TInv, TypeOK
<1>3. DOMAIN log = 1 .. Len(log) /\ \A i \in 1 .. Len(log) : log[i] \in LogEntries
  BY ReadTypes DEF ReadyLog, TInv
<1>4. rcv.i \in 0 .. Len(log) /\ rcv.pending \subseteq 1 .. Len(log)
  BY <1>2 DEF RecoverStates
<1> QED
  BY <1>1, <1>3, <1>4

LEMMA LocalsOf ==
  ASSUME ReadyLog, NEW i, NEW S
  PROVE  LET r == [rcv EXCEPT !.i = i, !.pending = S]
             s == [rcv EXCEPT !.pending = S]
         IN  /\ r.on = rcv.on /\ r.len = rcv.len /\ r.i = i /\ r.pending = S
             /\ s.on = rcv.on /\ s.len = rcv.len /\ s.i = rcv.i /\ s.pending = S
<1>1. rcv \in RecoverStates(Len(log))
  BY DEF ReadyLog, TInv, TypeOK
<1> QED
  BY <1>1 DEF RecoverStates

\* Reading changes locals only.
LEMMA ReadingInv ==
  ASSUME ReadyLog, ProcessInv, rcv.on, rcv'.on = TRUE, Restoring',
         flushed' = Len(log),
         UNCHANGED <<disk, diskHead, log, pc, memVars, txVars, committed>>
  PROVE  LogRestores' /\ ProcessInv'
<1>1. NoTransaction /\ pc \in {"recover", "up"} /\ (pc = "up" => Replaying)
      /\ (pc = "recover" => FreshCache)
  BY DEF ProcessInv
<1>2. NoTransaction' /\ (Replaying => Replaying') /\ (FreshCache => FreshCache')
  BY <1>1 DEF NoTransaction, Replaying, WasCommitted, FreshCache, lastC, memVars, txVars
<1>3. LogRestores'
  BY LogSame DEF ReadyLog, TInv, LogRestores
<1> QED
  BY <1>1, <1>2, <1>3 DEF ProcessInv

LEMMA ReadToCommittedInv ==
  ASSUME ReadyLog, ProcessInv, ReadToCommitted
  PROVE  LogRestores' /\ ProcessInv'
<1> DEFINE i0 == rcv.i
<1>1. /\ rcv.on /\ rcv.pending = {} /\ flushed' = Len(log)
      /\ UNCHANGED <<disk, diskHead, log, pc, memVars, txVars, committed>>
  BY DEF ReadToCommitted, Recovering, ghostVars
<1>2. PICK c \in CommitsAhead :
        /\ \A j \in CommitsAhead : c <= j
        /\ rcv' = [rcv EXCEPT !.i = c, !.pending = OfTypes({"REDO", "COMMITTED"}, c)]
  BY DEF ReadToCommitted
<1>3. Restoring
  BY <1>1 DEF ProcessInv
<1>4. /\ lastC \in 0 .. Len(log) /\ Len(log) \in Nat /\ i0 \in Nat
      /\ \A k \in 1 .. Len(log) : log[k].type = "COMMITTED" => k <= lastC
  BY RecoverReads
<1>5. rcv.len = Len(log)
  BY <1>3 DEF Restoring
<1>6. c \in 1 .. Len(log) /\ c > i0 /\ log[c].type = "COMMITTED" /\ c <= lastC
  BY <1>2, <1>4 DEF CommitsAhead, CommitRecords
<1>7. /\ rcv'.on = TRUE /\ rcv'.len = Len(log) /\ rcv'.i = c
      /\ rcv'.pending = {j \in i0 + 1 .. c : log[j].type \in {"REDO", "COMMITTED"}}
  <2> DEFINE S == OfTypes({"REDO", "COMMITTED"}, c)
  <2>1. rcv' = [rcv EXCEPT !.i = c, !.pending = S]
    BY <1>2
  <2>2. S = {j \in i0 + 1 .. c : log[j].type \in {"REDO", "COMMITTED"}}
    BY DEF OfTypes
  <2> HIDE DEF S
  <2>3. rcv'.on = rcv.on /\ rcv'.len = rcv.len /\ rcv'.i = c /\ rcv'.pending = S
    BY <2>1, LocalsOf
  <2>4. rcv.on = TRUE
    BY <1>1 DEF ReadyLog, TInv, TypeOK, RecoverStates
  <2> QED
    BY <1>5, <2>2, <2>3, <2>4
<1>8. \A p \in committed.head, j \in 1 .. i0 :
        NewestRedo(log, p, i0, j) => disk[p] = log[j].data \/ Redone(log, p, lastC, disk[p])
  BY <1>1, <1>3 DEF Restoring
<1>9. \A j \in i0 + 1 .. c : log[j].type = "COMMITTED" => j = c
  <2> SUFFICES ASSUME NEW j \in i0 + 1 .. c, log[j].type = "COMMITTED"
               PROVE  j = c
    OBVIOUS
  <2>1. j \in CommitsAhead
    BY <1>4, <1>5, <1>6 DEF CommitsAhead, CommitRecords
  <2> QED
    BY <1>2, <1>6, <2>1
<1> HIDE DEF i0
<1>10. ASSUME NEW p \in committed.head, NEW j \in 1 .. c, NewestRedo(log, p, c, j)
       PROVE  j \in rcv'.pending \/ disk[p] = log[j].data \/ Redone(log, p, lastC, disk[p])
  <2>1. CASE j <= i0
    <3>1. NewestRedo(log, p, i0, j)
      BY <1>4, <1>6, <1>10, <2>1 DEF NewestRedo
    <3> QED
      BY <1>4, <1>8, <2>1, <3>1
  <2>2. CASE j > i0
    BY <1>4, <1>7, <1>10, <2>2 DEF NewestRedo, IsRedo
  <2> QED
    BY <1>4, <2>1, <2>2
<1>11. ASSUME NEW p \in committed.head, NEW j \in rcv'.pending, IsRedo(log[j], p)
       PROVE  \E m \in rcv'.pending : NewestRedo(log, p, c, m)
  <2> DEFINE S == {k \in i0 + 1 .. c : IsRedo(log[k], p)}
  <2>1. S \in SUBSET (1 .. c) /\ S # {} /\ c \in Nat
    BY <1>4, <1>6, <1>7, <1>11
  <2> HIDE DEF S
  <2>2. PICK m \in S : \A k \in S : k <= m
    BY <2>1, LastExists
  <2>3. m \in i0 + 1 .. c /\ IsRedo(log[m], p) /\ m \in 1 .. c
    BY <1>4, <1>6, <2>2 DEF S
  <2>4. \A k \in 1 .. c : IsRedo(log[k], p) => k <= m
    BY <1>4, <1>6, <2>2, <2>3 DEF S
  <2> QED
    BY <1>7, <2>3, <2>4 DEF NewestRedo, IsRedo
<1>12. UNCHANGED <<log, disk, head>> /\ lastC' = lastC /\ committed' = committed
  BY <1>1 DEF lastC, memVars
<1>13. Restoring'
  <2>1. rcv'.i <= lastC /\ ~(rcv'.i > lastC)
    BY <1>4, <1>6, <1>7
  <2>2. rcv'.pending \subseteq 1 .. c
    BY <1>4, <1>7
  <2>3. \A j \in rcv'.pending : log[j].type # "UNDO" /\ (log[j].type = "COMMITTED" => j = c)
    BY <1>7, <1>9
  <2>4. lastC # 0 /\ (c >= lastC => lastC \in rcv'.pending)
    BY <1>4, <1>6, <1>7
  <2> QED
    BY <1>7, <1>10, <1>11, <1>12, <2>1, <2>2, <2>3, <2>4 DEF Restoring
<1> QED
  BY <1>1, <1>7, <1>13, ReadingInv

\* No newer image of a page is overwritten by an older one, and what is written
\* in a process that is up has been committed once.
LEMMA WritePendingInv ==
  ASSUME ReadyLog, ProcessInv, WritePending
  PROVE  LogRestores' /\ ProcessInv'
<1>1. /\ rcv.on
      /\ UNCHANGED <<log, flushed, pc, dirty, txVars, committed>>
  BY DEF WritePending, ghostVars
<1>2. PICK j \in rcv.pending :
        /\ \A k \in rcv.pending : j <= k
        /\ WriteImage(log[j])
        /\ rcv' = [rcv EXCEPT !.pending = @ \ {j}]
  BY DEF WritePending
<1>3. /\ Restoring /\ NoTransaction /\ pc \in {"recover", "up"}
      /\ pc = "up" => Replaying
      /\ pc = "recover" => FreshCache
  BY <1>1 DEF ProcessInv
<1>4. /\ lastC \in 0 .. Len(log) /\ Len(log) \in Nat
      /\ \A k \in 1 .. Len(log) : log[k].type = "COMMITTED" => k <= lastC
      /\ rcv.i \in 0 .. Len(log) /\ j \in 1 .. Len(log) /\ log[j] \in LogEntries
      /\ lastC # 0 => log[lastC].type = "COMMITTED"
  BY <1>2, RecoverReads
<1>5. /\ rcv'.on = TRUE /\ rcv'.len = rcv.len /\ rcv'.i = rcv.i
      /\ rcv'.pending = rcv.pending \ {j}
  <2> DEFINE S == rcv.pending \ {j}
  <2>1. rcv' = [rcv EXCEPT !.pending = S]
    BY <1>2
  <2> HIDE DEF S
  <2>2. rcv'.on = rcv.on /\ rcv'.len = rcv.len /\ rcv'.i = rcv.i /\ rcv'.pending = S
    BY <2>1, LocalsOf
  <2>3. rcv.on = TRUE
    BY <1>1 DEF ReadyLog, TInv, TypeOK, RecoverStates
  <2> QED
    BY <2>2, <2>3 DEF S
<1>6. log[j].type \in {"UNDO", "REDO", "COMMITTED"}
  BY <1>4, EntryTypes
<1>7. lastC' = lastC /\ log' = log /\ committed' = committed
  BY <1>1 DEF lastC
<1>8. NoTransaction'
  BY <1>1, <1>3 DEF NoTransaction, txVars
<1> DEFINE q == log[j].page
           v == log[j].data
\* What the step makes of the pages.
<1>9. shared \in [Pages -> Contents] /\ disk \in [Pages -> Contents]
      /\ committed.head \subseteq Pages
  BY DEF ReadyLog, TInv, TypeOK, Commits
<1>10. log[j].type = "COMMITTED" =>
         UNCHANGED <<disk, shared>> /\ head' = log[j].head /\ diskHead' = log[j].head
  BY <1>2 DEF WriteImage, HeadRead
<1>11. log[j].type # "COMMITTED" =>
         /\ q \in Pages /\ disk' = [disk EXCEPT ![q] = v]
         /\ \/ pc # "recover" /\ shared' = shared
            \/ q \notin dirty /\ shared[q] = disk[q] /\ shared' = [shared EXCEPT ![q] = v]
         /\ UNCHANGED <<head, diskHead>>
  BY <1>2, <1>4, EntryTypes DEF WriteImage, WritePast
<1>12. log[j].type = "REDO" => j \in 1 .. lastC /\ IsRedo(log[j], q)
  BY <1>2, <1>3, <1>4 DEF Restoring, IsRedo
<1>13. log[j].type = "UNDO" /\ q \in committed.head => Redone(log, q, lastC, v)
  <2> SUFFICES ASSUME log[j].type = "UNDO", q \in committed.head
               PROVE  Redone(log, q, lastC, v)
    OBVIOUS
  <2>1. j \in lastC + 1 .. Len(log)
    BY <1>2, <1>3, <1>4 DEF Restoring
  <2>2. q \in IndexPages
    BY <1>4 DEF ReadyLog, TInv, UndoOfIndex
  <2>3. v = committed.data[q]
    BY <2>1 DEF ReadyLog, LogRestores
  <2> QED
    BY <2>2, <2>3 DEF ReadyLog, LogRestores
<1> HIDE DEF q, v
\* The head is read back from the last COMMITTED record.
<1>14. /\ lastC = 0 => head' = {} /\ diskHead' = diskHead
       /\ lastC # 0 /\ rcv'.i >= lastC /\ lastC \notin rcv'.pending => head' = committed.head
  <2>1. CASE log[j].type = "COMMITTED"
    <3>1. head' = log[j].head /\ j <= lastC /\ j = rcv.i
      BY <1>2, <1>3, <1>4, <1>10, <2>1 DEF Restoring
    <3>2. lastC # 0
      BY <1>4, <3>1
    <3>3. rcv.i >= lastC => j = lastC
      BY <1>4, <3>1
    <3>4. log[lastC].head = committed.head
      BY <3>2 DEF ReadyLog, LogRestores
    <3> QED
      BY <1>5, <3>1, <3>2, <3>3, <3>4
  <2>2. CASE log[j].type # "COMMITTED"
    <3>1. lastC # 0 => lastC # j
      BY <1>4, <2>2
    <3> QED
      BY <1>3, <1>5, <1>11, <2>2, <3>1 DEF Restoring
  <2> QED
    BY <2>1, <2>2
<1>15. ASSUME NEW p \in committed.head, NEW k \in 1 .. rcv.i, NewestRedo(log, p, rcv.i, k)
       PROVE  k \in rcv'.pending \/ disk'[p] = log[k].data \/ Redone(log, p, lastC, disk'[p])
  <2>1. k \in rcv.pending \/ disk[p] = log[k].data \/ Redone(log, p, lastC, disk[p])
    BY <1>3, <1>15 DEF Restoring
  <2>2. log[k].type = "REDO" /\ log[k].page = p
    BY <1>15 DEF NewestRedo, IsRedo
  <2>3. CASE log[j].type = "COMMITTED"
    BY <1>5, <1>10, <2>1, <2>2, <2>3
  <2>4. CASE log[j].type # "COMMITTED" /\ p # q
    <3>1. disk'[p] = disk[p] /\ k # j
      BY <1>9, <1>11, <2>2, <2>4 DEF q
    <3> QED
      BY <1>5, <2>1, <3>1
  <2>5. CASE p = q /\ k = j
    BY <1>9, <1>11, <2>2, <2>5 DEF v
  <2>6. CASE p = q /\ k # j /\ log[j].type = "REDO"
    <3>1. IsRedo(log[j], p)
      BY <1>12, <2>6
    <3>2. PICK m \in rcv.pending : NewestRedo(log, p, rcv.i, m)
      BY <1>2, <1>3, <3>1 DEF Restoring
    <3>3. m = k
      BY <1>4, <1>15, <3>2 DEF NewestRedo
    <3> QED
      BY <1>5, <2>6, <3>2, <3>3
  <2>7. CASE p = q /\ log[j].type = "UNDO"
    BY <1>9, <1>11, <1>13, <2>7
  <2> QED
    BY <1>6, <2>3, <2>4, <2>5, <2>6, <2>7
<1>16. ASSUME NEW p \in committed.head, NEW k \in rcv'.pending, IsRedo(log[k], p)
       PROVE  \E m \in rcv'.pending : NewestRedo(log, p, rcv.i, m)
  <2>1. k \in rcv.pending /\ k # j /\ k \in 1 .. rcv.i
    BY <1>3, <1>5 DEF Restoring
  <2>2. PICK m \in rcv.pending : NewestRedo(log, p, rcv.i, m)
    BY <1>3, <1>16, <2>1 DEF Restoring
  <2>3. k <= m /\ m \in 1 .. rcv.i
    BY <1>16, <2>1, <2>2 DEF NewestRedo
  <2>4. m # j
    BY <1>2, <1>4, <2>1, <2>3
  <2> QED
    BY <1>5, <2>2, <2>4
<1>17. Restoring'
  <2>1. /\ rcv'.len = Len(log)
        /\ rcv'.i <= lastC \/ rcv'.i = Len(log)
        /\ rcv'.pending \subseteq 1 .. rcv'.i
        /\ rcv'.i > lastC => \A k \in rcv'.pending : k > lastC /\ log[k].type = "UNDO"
        /\ rcv'.i <= lastC => \A k \in rcv'.pending : log[k].type # "UNDO"
        /\ \A k \in rcv'.pending : log[k].type = "COMMITTED" => k = rcv'.i
    BY <1>3, <1>5 DEF Restoring
  <2> QED
    BY <1>5, <1>7, <1>14, <1>15, <1>16, <2>1 DEF Restoring
<1>18. pc = "recover" => FreshCache'
  BY <1>1, <1>3, <1>6, <1>10, <1>11 DEF FreshCache
<1>19. ASSUME pc = "up"
       PROVE  Replaying'
  <2> SUFFICES ASSUME NEW p \in committed.head
               PROVE  /\ WasCommitted(p, shared'[p])
                      /\ IF p \in dirty THEN Redone(log, p, lastC, shared'[p])
                         ELSE WasCommitted(p, disk'[p])
    BY <1>1, <1>7 DEF Replaying, WasCommitted, lastC
  <2>1. /\ WasCommitted(p, shared[p])
        /\ IF p \in dirty THEN Redone(log, p, lastC, shared[p])
           ELSE WasCommitted(p, disk[p])
    BY <1>3, <1>19 DEF Replaying
  <2>2. CASE log[j].type = "COMMITTED"
    BY <1>10, <2>1, <2>2
  <2>3. CASE log[j].type # "COMMITTED" /\ p # q
    BY <1>9, <1>11, <2>1, <2>3
  <2>4. CASE log[j].type # "COMMITTED" /\ p = q
    <3>1. WasCommitted(p, v)
      BY <1>6, <1>12, <1>13, <2>4, NewestWasCommitted DEF WasCommitted, IsRedo, lastC, v
    <3>2. disk'[p] = v /\ (p \in dirty => shared'[p] = shared[p])
          /\ shared'[p] \in {shared[p], v}
      BY <1>9, <1>11, <2>4
    <3> QED
      BY <2>1, <3>1, <3>2
  <2> QED
    BY <2>2, <2>3, <2>4
<1>20. LogRestores'
  <2>1. lastC = 0 => diskHead' = {}
    BY <1>14 DEF ReadyLog, LogRestores
  <2> QED
    BY <1>1, <2>1, LogSame DEF ReadyLog, TInv
<1> QED
  BY <1>1, <1>3, <1>5, <1>8, <1>17, <1>18, <1>19, <1>20 DEF ProcessInv

LEMMA ReadUndoInv ==
  ASSUME ReadyLog, ProcessInv, ReadUndo
  PROVE  LogRestores' /\ ProcessInv'
<1>1. /\ rcv.on /\ rcv.pending = {} /\ CommitsAhead = {} /\ rcv.i < rcv.len
      /\ flushed' = Len(log)
      /\ UNCHANGED <<disk, diskHead, log, pc, memVars, txVars, committed>>
  BY DEF ReadUndo, Recovering, ghostVars
<1>2. Restoring /\ pc # "redo"
  BY <1>1 DEF ProcessInv
<1>3. rcv.len = Len(log)
  BY <1>2 DEF Restoring
<1>4. /\ rcv'.on = TRUE /\ rcv'.len = Len(log) /\ rcv'.i = Len(log)
      /\ rcv'.pending = {j \in rcv.i + 1 .. Len(log) : log[j].type = "UNDO"}
  <2> DEFINE S == OfTypes({"UNDO"}, rcv.len)
  <2>1. rcv' = [rcv EXCEPT !.i = rcv.len, !.pending = S]
    BY DEF ReadUndo
  <2>2. S = {j \in rcv.i + 1 .. Len(log) : log[j].type = "UNDO"}
    BY <1>3 DEF OfTypes
  <2> HIDE DEF S
  <2>3. rcv'.on = rcv.on /\ rcv'.len = rcv.len /\ rcv'.i = rcv.len /\ rcv'.pending = S
    BY <2>1, LocalsOf
  <2>4. rcv.on = TRUE
    BY <1>1 DEF ReadyLog, TInv, TypeOK, RecoverStates
  <2> QED
    BY <1>3, <2>2, <2>3, <2>4
<1>5. /\ lastC \in 0 .. Len(log) /\ Len(log) \in Nat /\ rcv.i \in 0 .. Len(log)
      /\ lastC # 0 => log[lastC].type = "COMMITTED"
  BY RecoverReads
<1>6. lastC <= rcv.i
  BY <1>1, <1>3, <1>5 DEF CommitsAhead, CommitRecords
<1>7. UNCHANGED <<log, disk, head, committed>> /\ lastC' = lastC
  BY <1>1 DEF lastC, memVars
<1>8. ASSUME NEW p \in committed.head, NEW j \in 1 .. Len(log), NewestRedo(log, p, Len(log), j)
      PROVE  disk[p] = log[j].data \/ Redone(log, p, lastC, disk[p])
  <2>1. \A i \in lastC + 1 .. Len(log) : log[i].type # "REDO"
    BY <1>2 DEF ReadyLog, LogRestores
  <2>2. j \in 1 .. rcv.i
    BY <1>5, <1>6, <1>8, <2>1 DEF NewestRedo, IsRedo
  <2>3. NewestRedo(log, p, rcv.i, j)
    BY <1>5, <1>8, <2>2 DEF NewestRedo
  <2> QED
    BY <1>1, <1>2, <2>2, <2>3 DEF Restoring
<1>9. Restoring'
  <2>1. rcv'.pending \subseteq 1 .. Len(log) /\ \A j \in rcv'.pending : j > lastC
    BY <1>4, <1>5, <1>6
  <2>2. Len(log) > lastC /\ lastC \notin rcv'.pending
    BY <1>1, <1>3, <1>4, <1>5, <1>6
  <2>3. \A j \in rcv'.pending : log[j].type = "UNDO"
    BY <1>4
  <2>4. \A j \in rcv'.pending : \A p : ~IsRedo(log[j], p) /\ log[j].type # "COMMITTED"
    BY <2>3 DEF IsRedo
  <2>5. IF lastC = 0 THEN head = {} ELSE head = committed.head
    BY <1>1, <1>2, <1>5, <1>6 DEF Restoring
  <2>6. ~(rcv'.i <= lastC)
    BY <1>4, <1>5, <2>2
  <2>7. \A p \in committed.head, j \in 1 .. rcv'.i :
          NewestRedo(log, p, rcv'.i, j) =>
            disk[p] = log[j].data \/ Redone(log, p, lastC, disk[p])
    BY <1>4, <1>8
  <2> QED
    BY <1>4, <1>7, <2>1, <2>3, <2>4, <2>5, <2>6, <2>7 DEF Restoring
<1> QED
  BY <1>1, <1>4, <1>9, ReadingInv

\* A page is by now what the last REDO image before the last commit says: in
\* the cache if it is dirty there, else in the file.
LEMMA EndRecoverInv ==
  ASSUME ReadyLog, ProcessInv, EndRecover, taint' = {}
  PROVE  LogRestores' /\ ProcessInv'
<1>1. /\ rcv.on /\ rcv.pending = {} /\ rcv.i = rcv.len
      /\ pc' = (IF pc = "recover" THEN "up" ELSE pc)
      /\ rcv' = NotRecovering /\ ReadTooEarly = {}
      /\ UNCHANGED <<fileVars, memVars, txVars, committed>>
  BY DEF EndRecover, Recovering
<1>2. /\ Restoring /\ NoTransaction /\ pc \in {"recover", "up"} /\ pc # "redo" /\ pc' = "up"
      /\ pc = "up" => Replaying
      /\ pc = "recover" => FreshCache
  BY <1>1 DEF ProcessInv
<1>3. lastC \in 0 .. Len(log) /\ Len(log) \in Nat /\ rcv.i = Len(log)
  BY <1>1, <1>2, RecoverReads DEF Restoring
<1>4. head = committed.head
  <2>1. rcv.i >= lastC /\ lastC \notin rcv.pending
    BY <1>1, <1>3
  <2>2. IF lastC = 0 THEN head = {} ELSE head = committed.head
    BY <1>2, <2>1 DEF Restoring
  <2>3. lastC = 0 => committed.head = {}
    BY DEF ReadyLog, LogRestores
  <2> QED
    BY <2>2, <2>3
<1>5. \A p \in head : p \in dirty \/ shared[p] = disk[p]
  BY <1>1 DEF ReadTooEarly
<1>6. ASSUME NEW p \in committed.head, NEW v, Redone(log, p, lastC, v)
      PROVE  shared[p] = v /\ Redone(log, p, Len(log), v)
  <2>1. Redone(log, p, Len(log), v) /\ lastC \in Nat
    BY <1>2, <1>3, <1>6, RedoneNow DEF ReadyLog, TInv
  <2>2. CASE p \in dirty
    <3>1. Redone(log, p, lastC, shared[p])
      BY <1>2, <2>2 DEF Replaying, FreshCache
    <3> QED
      BY <1>6, <2>1, <3>1, RedoneUnique
  <2>3. CASE p \notin dirty
    <3>1. PICK j \in 1 .. Len(log) : NewestRedo(log, p, Len(log), j) /\ log[j].data = v
      BY <2>1 DEF Redone
    <3>2. disk[p] = v \/ Redone(log, p, lastC, disk[p])
      BY <1>1, <1>2, <1>3, <3>1 DEF Restoring
    <3>3. disk[p] = v
      BY <1>6, <2>1, <3>2, RedoneUnique
    <3> QED
      BY <1>4, <1>5, <2>1, <2>3, <3>3
  <2> QED
    BY <2>2, <2>3
<1>7. \A p \in IndexPages \cap committed.head : shared[p] = committed.data[p]
  BY <1>6 DEF ReadyLog, LogRestores
<1>8. RecPage \in committed.head =>
        /\ Redone(log, RecPage, Len(log), shared[RecPage])
        /\ \A p \in IndexPages \cap committed.head : committed.data[p] <= shared[RecPage]
  <2> SUFFICES ASSUME RecPage \in committed.head
               PROVE  /\ Redone(log, RecPage, Len(log), shared[RecPage])
                      /\ \A p \in IndexPages \cap committed.head :
                           committed.data[p] <= shared[RecPage]
    OBVIOUS
  <2>1. PICK n \in Nat : /\ Redone(log, RecPage, lastC, n)
                         /\ \A p \in IndexPages \cap committed.head : committed.data[p] <= n
    BY DEF ReadyLog, LogRestores
  <2>2. shared[RecPage] = n /\ Redone(log, RecPage, Len(log), n)
    BY <1>6, <2>1
  <2> QED
    BY <2>1, <2>2
<1>9. \A p \in IndexPages \cap committed.head : shared[p] <= RecordCount
  <2>1. CASE RecPage \in head
    BY <1>4, <1>7, <1>8, <2>1 DEF RecordCount
  <2>2. CASE RecPage \notin head
    BY <1>4, <1>7, <2>2 DEF RecordCount, ReadyLog, LogRestores
  <2> QED
    BY <2>1, <2>2
<1>10. /\ UNCHANGED <<log, disk, head, shared, dirty, priv, txOpen, recToCommit>>
       /\ RecordCount' = RecordCount /\ ~rcv'.on
  BY <1>1 DEF RecordCount, fileVars, memVars, txVars, NotRecovering
<1>11. /\ ~txOpen /\ priv = NoCopies /\ recToCommit = {}
       /\ Copied = {} /\ Copied' = {} /\ \A p \in IndexPages : Seen(p)' = shared[p]
  BY <1>2, <1>10 DEF NoTransaction, NoCopies, Copied, Seen
<1>12. Memory'
  BY <1>1, <1>4, <1>5, <1>8, <1>9, <1>10, <1>11 DEF Memory
<1>13. Working'
  BY <1>1, <1>4, <1>7, <1>9, <1>10 DEF Working
<1>14. Idle' /\ OnlyRead'
  BY <1>1, <1>4, <1>10, <1>11 DEF Idle, OnlyRead
<1>15. LogRestores'
  BY <1>1, <1>2, LogSame DEF ReadyLog, TInv, fileVars, LogRestores
<1> QED
  BY <1>2, <1>10, <1>12, <1>13, <1>14, <1>15 DEF ProcessInv

\* In a process that is up and in no transaction, the replay begins with the
\* last images of all committed pages in the cache.
LEMMA ReconnectInv ==
  ASSUME ReadyLog, ProcessInv, Reconnect, taint' = {}
  PROVE  LogRestores' /\ ProcessInv'
<1>1. /\ ~txOpen /\ ~rcv.on /\ pc \in {"up", "redo", "install"} /\ rcv' = StartOfLog
      /\ UNCHANGED <<fileVars, pc, memVars, txVars, committed>>
  BY DEF Reconnect
<1>2. pc = "up" /\ Memory /\ Working /\ Idle
  BY <1>1 DEF ProcessInv, Logging, Installing
<1>3. head = committed.head /\ recToCommit = {} /\ priv = NoCopies
  BY <1>1, <1>2 DEF Idle
<1>4. UNCHANGED <<disk, diskHead, log, flushed, head, shared, dirty, txOpen, priv, recToCommit>>
  BY <1>1 DEF fileVars, memVars, txVars
<1>5. /\ rcv'.on = TRUE /\ rcv'.len = Len(log') /\ rcv'.i = 0 /\ rcv'.pending = {}
      /\ lastC' = lastC /\ lastC \in Nat
      /\ 1 .. rcv'.i = {}
  BY <1>1, <1>4, StartedFrom DEF ReadyLog
<1>6. lastC = 0 => head = {}
  BY <1>3 DEF ReadyLog, LogRestores
<1>7. Restoring'
  BY <1>4, <1>5, <1>6 DEF Restoring
<1>8. NoTransaction'
  BY <1>1, <1>3, <1>4 DEF NoTransaction
<1>9. head \subseteq Pages
  BY DEF ReadyLog, TInv, TypeOK
<1>10. ASSUME NEW p \in head
       PROVE  Redone(log, p, lastC, shared[p])
  <2>1. CASE p \in IndexPages
    BY <1>2, <1>3, <2>1 DEF Working, ReadyLog, LogRestores
  <2>2. CASE p = RecPage
    <3>1. Redone(log, p, Len(log), shared[p])
      BY <1>2, <1>3, <2>2 DEF Memory
    <3> QED
      BY <1>2, <3>1, RedoneNow DEF ReadyLog, TInv
  <2> QED
    BY <1>9, <2>1, <2>2 DEF Pages
<1>11. Replaying'
  <2> SUFFICES ASSUME NEW p \in committed.head
               PROVE  /\ WasCommitted(p, shared[p])
                      /\ IF p \in dirty THEN Redone(log, p, lastC, shared[p])
                         ELSE WasCommitted(p, disk[p])
    BY <1>1, <1>4, <1>5 DEF Replaying, WasCommitted, lastC
  <2>1. p \in dirty \/ shared[p] = disk[p]
    BY <1>2, <1>3 DEF Memory
  <2> QED
    BY <1>3, <1>10, <2>1, NewestWasCommitted
<1>12. LogRestores'
  BY <1>1, <1>4, LogSame DEF ReadyLog, TInv, LogRestores
<1> QED
  BY <1>1, <1>2, <1>5, <1>7, <1>8, <1>11, <1>12 DEF ProcessInv
-----------------------------------------------------------------------------
\* What recover() makes of a page, put in one step.

LEMMA RecoveredIs ==
  ASSUME NEW d, NEW l, NEW p, NEW v, Len(l) \in Nat,
         Redone(l, p, LastCommit(l), v),
         \A i \in LastCommit(l) + 1 .. Len(l) :
           l[i].type = "UNDO" /\ l[i].page = p => l[i].data = v
  PROVE  RecoveredPage(d, l, p) = v
<1> DEFINE c == LastCommit(l)
           undo == ImagesOf(l, "UNDO", p, c + 1, Len(l))
           redo == ImagesOf(l, "REDO", p, 1, c)
<1>1. c \in 0 .. Len(l) /\ c \in Nat
  BY LastCommitIs
<1>2. /\ undo = {i \in c + 1 .. Len(l) : l[i].type = "UNDO" /\ l[i].page = p}
      /\ redo = {i \in 1 .. c : l[i].type = "REDO" /\ l[i].page = p}
  BY DEF ImagesOf
<1>3. RecoveredPage(d, l, p) = IF undo # {} THEN l[Newest(undo)].data
                               ELSE IF redo # {} THEN l[Newest(redo)].data
                               ELSE d[p]
  BY DEF RecoveredPage
<1>4. Redone(l, p, c, v) /\ \A i \in undo : l[i].data = v
  BY <1>2
<1> HIDE DEF c, undo, redo
<1>5. undo # {} => l[Newest(undo)].data = v
  <2>1. undo \in SUBSET (1 .. Len(l))
    BY <1>1, <1>2
  <2> QED
    BY <1>4, <2>1, NewestIs
<1>6. PICK j \in 1 .. c : NewestRedo(l, p, c, j) /\ l[j].data = v
  BY <1>4 DEF Redone
<1>7. redo # {} /\ l[Newest(redo)].data = v
  <2>1. redo \in SUBSET (1 .. c) /\ j \in redo
    BY <1>2, <1>6 DEF NewestRedo, IsRedo
  <2>2. Newest(redo) \in redo /\ j <= Newest(redo)
    BY <1>1, <2>1, NewestIs
  <2>3. Newest(redo) \in 1 .. c /\ Newest(redo) <= j
    BY <1>2, <1>6, <2>2 DEF NewestRedo, IsRedo
  <2>4. Newest(redo) = j
    BY <1>1, <2>2, <2>3
  <2> QED
    BY <1>6, <2>1, <2>4
<1> QED
  BY <1>3, <1>5, <1>7
-----------------------------------------------------------------------------
\* The invariant is inductive, and what it says of every crash.

LEMMA InvInit ==
  ASSUME Init
  PROVE  IInv
<1>1. TInv
  BY TypeInit
<1>2. Len(log) = 0 /\ CommitRecords(log) = {}
  <2>1. Len(log) = 0
    BY EmptySeq DEF Init
  <2> QED
    BY <2>1 DEF CommitRecords
<1>3. lastC = 0
  BY <1>2 DEF lastC, LastCommit
<1>4. lastC + 1 .. Len(log) = {}
  BY <1>2, <1>3
<1>5. /\ flushed = 0 /\ committed.head = {} /\ diskHead = {} /\ pc = "down"
      /\ \A p \in IndexPages : committed.data[p] = 0
  BY DEF Init, NoRecords
<1>6. LogRestores
  BY <1>3, <1>4, <1>5 DEF LogRestores
<1>7. ProcessInv
  BY DEF Init, ProcessInv, NoTransaction, FreshCache, NotRecovering
<1> QED
  BY <1>1, <1>6, <1>7 DEF IInv, Inv

LEMMA TaintGrows ==
  ASSUME [Next]_vars, taint' = {}
  PROVE  taint = {}
BY DEF Next, vars, ghostVars, StartTransaction, AddRec, Commit, CommitStep, LogRedo, Install,
       LogRecords, LogCommitted, EndCommit, TxReadOp, TxWriteOp, AllocAndWrite, WriteOp,
       Evict, Crash, CleanExit, Start, Recover, ReadToCommitted, WritePending, ReadUndo,
       EndRecover, Reconnect, WriteBare, CommitBare

LEMMA InvStep ==
  ASSUME IInv, [Next]_vars
  PROVE  IInv'
<1>1. TInv'
  BY TypeStep DEF IInv
<1>2. ASSUME taint' = {}
      PROVE  LogRestores' /\ ProcessInv'
  <2>1. ReadyLog /\ ProcessInv
    BY <1>2, TaintGrows DEF IInv, Inv, ReadyLog
  <2>2. CASE StartTransaction
    BY <1>2, <2>1, <2>2, StartTransactionInv
  <2>3. CASE AddRec
    BY <1>2, <2>1, <2>3, AddRecInv
  <2>4. CASE Commit
    BY <2>1, <2>4, CommitInv
  <2>5. CASE CommitStep
    BY <2>1, <2>5, LogRedoInv, InstallInv, LogRecordsInv, LogCommittedInv, EndCommitInv
       DEF CommitStep
  <2>6. CASE \E p \in IndexPages : TxReadOp(p)
    BY <2>1, <2>6, TxReadOpInv
  <2>7. CASE \E p \in IndexPages, v \in Contents : TxWriteOp(p, v) \/ AllocAndWrite(p, v)
    BY <2>1, <2>7, TxWriteOpInv, AllocAndWriteInv
  <2>8. CASE \E p \in Pages : Evict(p)
    BY <2>1, <2>8, EvictInv
  <2>9. CASE Crash
    BY <1>2, <2>1, <2>9, CrashInv
  <2>10. CASE CleanExit
    BY <1>2, <2>1, <2>10, CleanExitInv
  <2>11. CASE Start
    BY <2>1, <2>11, StartInv
  <2>12. CASE Recover
    BY <1>2, <2>1, <2>12, ReadToCommittedInv, WritePendingInv, ReadUndoInv, EndRecoverInv
       DEF Recover
  <2>13. CASE Reconnect
    BY <1>2, <2>1, <2>13, ReconnectInv
\* A connection without a transaction has lost its promises by its first write.
  <2>14. CASE CommitBare \/ \E p \in IndexPages, v \in Contents : WriteBare(p, v)
    BY <1>2, <2>1, <2>14, TaintGrows DEF CommitBare, WriteBare
  <2>15. CASE UNCHANGED vars
    <3>1. /\ UNCHANGED <<disk, diskHead, log, flushed, pc, head, shared, dirty, txOpen, priv>>
          /\ UNCHANGED <<backed, recToCommit, todo, rcv, committed>>
      BY <2>15 DEF vars, fileVars, memVars, txVars, ghostVars
    <3>2. LogRestores'
      BY <2>1, <3>1 DEF ReadyLog, LogRestores, lastC
    <3>3. ProcessInv'
      BY <2>1, <3>1 DEF ProcessInv, Memory, Working, Idle, OnlyRead, Logging, Installing,
                        Restoring, NoTransaction, FreshCache, Replaying, WasCommitted,
                        Seen, RecordCount, Copied, lastC
    <3> QED
      BY <3>2, <3>3
  <2> QED
    BY <2>2, <2>3, <2>4, <2>5, <2>6, <2>7, <2>8, <2>9, <2>10, <2>11, <2>12, <2>13, <2>14, <2>15
       DEF Next
<1> QED
  BY <1>1, <1>2 DEF IInv, Inv

THEOREM TxLogInvariant == Spec => []IInv
<1>1. Init => IInv
  BY InvInit
<1>2. IInv /\ [Next]_vars => IInv'
  BY InvStep
<1> QED
  BY <1>1, <1>2, PTL DEF Spec

\* However much of the log behind the last COMMITTED record survives.
LEMMA PrefixRestores ==
  ASSUME ReadyLog, NEW k \in lastC .. Len(log), NEW d
  PROVE  LET l == SubSeq(log, 1, k)
         IN  /\ LastCommit(l) = lastC
             /\ lastC # 0 => l[lastC] = log[lastC]
             /\ \A p \in IndexPages \cap committed.head :
                  RecoveredPage(d, l, p) = committed.data[p]
             /\ \A n : Redone(log, RecPage, lastC, n) => RecoveredPage(d, l, RecPage) = n
<1> DEFINE l == SubSeq(log, 1, k)
<1>1. /\ lastC \in 0 .. Len(log) /\ Len(log) \in Nat
      /\ lastC # 0 => log[lastC].type = "COMMITTED"
      /\ \A i \in 1 .. Len(log) : log[i].type = "COMMITTED" => i <= lastC
  BY LastCommitHere DEF ReadyLog, TInv
<1>2. k \in 0 .. Len(log) /\ k \in Nat /\ lastC \in 0 .. k
  BY <1>1
<1>3. Len(l) = k /\ \A i \in 1 .. k : l[i] = log[i]
  <2>1. \A i \in 1 .. k : log[i] \in LogEntries
    BY <1>2, ReadTypes DEF ReadyLog, TInv
  <2>2. /\ Len(SubSeq(log, 1, k)) = IF 1 <= k THEN k - 1 + 1 ELSE 0
        /\ \A i \in 1 .. k - 1 + 1 : SubSeq(log, 1, k)[i] = log[1 + i - 1]
    BY <1>2, <2>1, SubSeqProperties
  <2> QED
    BY <1>2, <2>2
<1> HIDE DEF l
<1>4. LastCommit(l) = lastC
  <2>1. /\ Len(l) \in Nat /\ lastC \in 0 .. Len(l)
        /\ lastC # 0 => l[lastC].type = "COMMITTED"
        /\ \A i \in 1 .. Len(l) : l[i].type = "COMMITTED" => i <= lastC
    BY <1>1, <1>2, <1>3
  <2> QED
    BY <2>1, LastCommitUnique
<1>5. ASSUME NEW p, NEW v, Redone(log, p, lastC, v),
             \A i \in lastC + 1 .. Len(log) :
               log[i].type = "UNDO" /\ log[i].page = p => log[i].data = v
      PROVE  RecoveredPage(d, l, p) = v
  <2>1. Redone(l, p, lastC, v)
    <3>1. lastC \in Nat /\ \A i \in 1 .. lastC : l[i] = log[i]
      BY <1>2, <1>3
    <3> QED
      BY <1>5, <3>1, RedoneInBoth
  <2>2. \A i \in lastC + 1 .. Len(l) : l[i].type = "UNDO" /\ l[i].page = p => l[i].data = v
    BY <1>1, <1>2, <1>3, <1>5
  <2> QED
    BY <1>2, <1>3, <1>4, <2>1, <2>2, RecoveredIs
<1>6. \A p \in IndexPages \cap committed.head : RecoveredPage(d, l, p) = committed.data[p]
  BY <1>5 DEF ReadyLog, LogRestores
<1>7. \A n : Redone(log, RecPage, lastC, n) => RecoveredPage(d, l, RecPage) = n
  <2>1. \A i \in lastC + 1 .. Len(log) : ~(log[i].type = "UNDO" /\ log[i].page = RecPage)
    BY <1>1, TxLogAssumption DEF ReadyLog, TInv, UndoOfIndex
  <2> QED
    BY <1>5, <2>1
<1>8. lastC # 0 => l[lastC] = log[lastC]
  BY <1>1, <1>2, <1>3
<1> QED
  BY <1>4, <1>6, <1>7, <1>8 DEF l

LEMMA RestoresCommitted ==
  ASSUME ReadyLog, NEW k \in lastC .. Len(log)
  PROVE  RecoversCommitted(disk, diskHead, SubSeq(log, 1, k))
<1> DEFINE l == SubSeq(log, 1, k)
           rec == RecoveredPage(disk, l, RecPage)
<1>1. /\ LastCommit(l) = lastC
      /\ lastC # 0 => l[lastC] = log[lastC]
      /\ \A p \in IndexPages \cap committed.head :
           RecoveredPage(disk, l, p) = committed.data[p]
      /\ \A n : Redone(log, RecPage, lastC, n) => rec = n
  BY PrefixRestores
<1> HIDE DEF l, rec
<1>2. RecoveredHead(diskHead, l) = committed.head
  BY <1>1 DEF RecoveredHead, ReadyLog, LogRestores
<1>3. \A p \in IndexPages \cap committed.head :
        committed.data[p] <= (IF RecPage \in committed.head THEN rec ELSE 0)
  <2>1. CASE RecPage \in committed.head
    BY <1>1, <2>1 DEF ReadyLog, LogRestores
  <2>2. CASE RecPage \notin committed.head
    BY <2>2 DEF ReadyLog, LogRestores
  <2> QED
    BY <2>1, <2>2
<1> QED
  BY <1>1, <1>2, <1>3 DEF RecoversCommitted, SameTable, l, rec

\* Crash safety, for tables of any size, as long as `taint` is empty: at
\* whichever of its steps the process dies, and however much of the log behind
\* the last fflush is lost, the next recover() brings back the last committed
\* tree and every record it points to. After one of the events that `taint`
\* keeps - as REDO records of a crashed commit - nothing is said.
THEOREM CrashIsSafe == Spec => []CrashSafe
<1>1. IInv => CrashSafe
  <2> SUFFICES ASSUME IInv, taint = {}, NEW k \in flushed .. Len(log)
               PROVE  RecoversCommitted(disk, diskHead, SubSeq(log, 1, k))
    BY DEF CrashSafe
  <2>1. ReadyLog
    BY DEF IInv, Inv, ReadyLog
  <2>2. lastC \in Nat /\ Len(log) \in Nat /\ lastC <= flushed
    BY <2>1, LastCommitHere DEF ReadyLog, TInv, LogRestores
  <2>3. flushed \in 0 .. Len(log)
    BY <2>1 DEF ReadyLog, TInv, TypeOK
  <2>4. k \in lastC .. Len(log)
    BY <2>2, <2>3
  <2> QED
    BY <2>1, <2>4, RestoresCommitted
<1> QED
  BY <1>1, TxLogInvariant, PTL

\* The UNDO records never make a difference for a committed page: the log up to
\* the last COMMITTED record already gives what they hold.
THEOREM UndoNeverNeeded == Spec => []UndoIsRedundant
<1>1. IInv => UndoIsRedundant
  <2> SUFFICES ASSUME IInv, taint = {}, NEW p \in IndexPages \cap committed.head
               PROVE  RecoveredPage(disk, log, p)
                        = RecoveredPage(disk, SubSeq(log, 1, LastCommit(log)), p)
    BY DEF UndoIsRedundant
  <2>1. ReadyLog
    BY DEF IInv, Inv, ReadyLog
  <2>2. lastC \in lastC .. Len(log) /\ Len(log) \in lastC .. Len(log)
    BY <2>1, LastCommitHere DEF ReadyLog, TInv
  <2>3. RecoveredPage(disk, SubSeq(log, 1, lastC), p) = committed.data[p]
    BY <2>1, <2>2, PrefixRestores
  <2>4. RecoveredPage(disk, log, p) = committed.data[p]
    <3>1. Redone(log, p, lastC, committed.data[p])
      BY <2>1 DEF ReadyLog, LogRestores
    <3>2. \A i \in lastC + 1 .. Len(log) :
            log[i].type = "UNDO" /\ log[i].page = p => log[i].data = committed.data[p]
      BY <2>1 DEF ReadyLog, LogRestores
    <3>3. Len(log) \in Nat
      BY <2>1, RecoverReads
    <3> QED
      BY <3>1, <3>2, <3>3, RecoveredIs DEF lastC
  <2> QED
    BY <2>3, <2>4 DEF lastC
<1> QED
  BY <1>1, TxLogInvariant, PTL

\* Readers outside the transaction never see what is not committed, as long as
\* `taint` is empty: evictions, refills of the cache and a commit that has not
\* reached its COMMITTED record leave the shared pages and the head as the last
\* commit made them. While a commit installs its pages, those that are left are
\* the ones of the commit before, and while another connection replays the log
\* a page may be that of any commit.
THEOREM ReadersSeeCommitted == Spec => []SharedIsCommitted
<1>1. IInv => SharedIsCommitted
  <2> SUFFICES ASSUME IInv, taint = {}, pc \in {"up", "redo", "install"}
               PROVE  /\ \A p \in IndexPages \cap committed.head :
                           IF rcv.on THEN WasCommitted(p, shared[p])
                           ELSE /\ shared[p] = (IF pc = "install" /\ p \in todo
                                                THEN committed.before[p]
                                                ELSE committed.data[p])
                                /\ shared[p] <= shared[RecPage]
                      /\ ~txOpen /\ ~rcv.on => head = committed.head
    BY DEF SharedIsCommitted
  <2>1. ReadyLog /\ ProcessInv
    BY DEF IInv, Inv, ReadyLog
  <2>2. CASE rcv.on
    BY <2>1, <2>2 DEF ProcessInv, Replaying
  <2>3. CASE ~rcv.on
    <3>1. ~txOpen => head = committed.head
      BY <2>1, <2>3 DEF ProcessInv, Idle, Logging, Installing
    <3>2. ASSUME NEW p \in IndexPages \cap committed.head, shared[p] <= RecordCount
          PROVE  shared[p] <= shared[RecPage]
      <4>1. RecordCount = shared[RecPage] \/ RecordCount = 0
        BY DEF RecordCount
      <4>2. shared[p] \in Nat /\ shared[RecPage] \in Nat
        BY <2>1, ReadTypes DEF ReadyLog, TInv, TypeOK
      <4> QED
        BY <3>2, <4>1, <4>2
    <3>3. CASE pc \in {"up", "redo"}
      <4>1. Working
        BY <2>1, <2>3, <3>3 DEF ProcessInv
      <4> QED
        BY <2>3, <3>1, <3>2, <3>3, <4>1 DEF Working
    <3>4. CASE pc = "install"
      <4>1. Installing /\ Memory
        BY <2>1, <2>3, <3>4 DEF ProcessInv
      <4>2. \A p \in (IndexPages \cap committed.head) \ todo :
              shared[p] = committed.data[p] /\ shared[p] <= RecordCount
        BY <4>1 DEF Installing, Memory, Seen, Copied
      <4> QED
        BY <2>3, <3>1, <3>2, <3>4, <4>1, <4>2 DEF Installing
    <3> QED
      BY <3>3, <3>4
  <2> QED
    BY <2>2, <2>3
<1> QED
  BY <1>1, TxLogInvariant, PTL
=============================================================================
