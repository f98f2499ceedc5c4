------------------------------- MODULE VtabTx -------------------------------
(***************************************************************************)
(* Transactions of several connections of one process: vtab_begin and      *)
(* vtab_commit (api/vtable.cpp), with the mutex `mtx` and the flag         *)
(* `has_mtx`, which belong to no connection and to no table. Every         *)
(* connection is used by a thread of its own.                              *)
(*                                                                         *)
(* SQLite is external: it calls xBegin of a table before the first write   *)
(* of a transaction to it, counts a table it just created as joined        *)
(* without calling xBegin, calls xCommit of the joined tables in the order *)
(* in which they joined, and calls nothing on ROLLBACK, since the module   *)
(* leaves xRollback null.                                                  *)
(***************************************************************************)
EXTENDS Naturals, Sequences, SequencesExt

CONSTANTS Conns, Tables,
          NoOne,     \* the mutex is free
          NoTable

ASSUME VtabAssumption == NoOne \notin Conns /\ NoTable \notin Tables

VARIABLES
  mtx,      \* who locked the mutex, or NoOne
  has_mtx,  \* the atomic flag
  at,       \* what the thread of a connection is doing
  table,    \* the table of its xBegin or xCommit, or NoTable
  joined,   \* SQLite: the tables of the connection's transaction, in order
  tx,       \* the tables of a connection whose cur_tx is set
  bare,     \* ghost: a table that was never begun has been committed
  rolled,   \* ghost: connections that rolled a begun transaction back
  twice     \* ghost: connections that began a second table in a transaction

flags == <<mtx, has_mtx>>
ghosts == <<bare, rolled, twice>>
vars == <<flags, at, table, joined, tx, ghosts>>

Init ==
  /\ mtx = NoOne /\ has_mtx = FALSE
  /\ at = [c \in Conns |-> "idle"]
  /\ table = [c \in Conns |-> NoTable]
  /\ joined = [c \in Conns |-> <<>>]
  /\ tx = [c \in Conns |-> {}]
  /\ bare = FALSE /\ rolled = {} /\ twice = {}

Goto(c, from, to) == at[c] = from /\ at' = [at EXCEPT ![c] = to]
-----------------------------------------------------------------------------
\* SQLite between two calls.

\* CREATE VIRTUAL TABLE: xCreate makes a table object without a transaction,
\* and it has joined.
Create(c, t) ==
  /\ at[c] = "idle" /\ t \notin ToSet(joined[c])
  /\ joined' = [joined EXCEPT ![c] = Append(@, t)]
  /\ tx' = [tx EXCEPT ![c] = @ \ {t}]
  /\ UNCHANGED <<flags, at, table, ghosts>>

\* The first write to a table in this transaction.
CallBegin(c, t) ==
  /\ t \notin ToSet(joined[c])
  /\ Goto(c, "idle", "lock")
  /\ table' = [table EXCEPT ![c] = t]
  /\ twice' = IF tx[c] # {} THEN twice \cup {c} ELSE twice
  /\ UNCHANGED <<flags, joined, tx, bare, rolled>>

\* COMMIT, or the end of a statement outside of BEGIN: the first joined table
\* is taken, and the next one when its xCommit has returned.
CallCommit(c) ==
  /\ joined[c] # <<>>
  /\ Goto(c, "idle", "commit")
  /\ table' = [table EXCEPT ![c] = Head(joined[c])]
  /\ joined' = [joined EXCEPT ![c] = Tail(@)]
  /\ UNCHANGED <<flags, tx, ghosts>>

\* ROLLBACK: xRollback is null.
Rollback(c) ==
  /\ at[c] = "idle" /\ joined[c] # <<>>
  /\ joined' = [joined EXCEPT ![c] = <<>>]
  /\ rolled' = IF tx[c] # {} THEN rolled \cup {c} ELSE rolled
  /\ UNCHANGED <<flags, at, table, tx, bare, twice>>
-----------------------------------------------------------------------------
\* vtab_begin

\* Variant: mtx.try_lock(), and nobody looks at the result.
LockTried(c) ==
  /\ Goto(c, "lock", "flag")
  /\ mtx' = IF mtx = NoOne THEN c ELSE mtx
  /\ UNCHANGED <<has_mtx, table, joined, tx, ghosts>>

Lock(c) ==   \* mtx.lock()
  /\ mtx = NoOne
  /\ Goto(c, "lock", "flag")
  /\ mtx' = c
  /\ UNCHANGED <<has_mtx, table, joined, tx, ghosts>>

SetFlag(c) ==   \* has_mtx = true
  /\ Goto(c, "flag", "start")
  /\ has_mtx' = TRUE
  /\ UNCHANGED <<mtx, table, joined, tx, ghosts>>

StartTransaction(c) ==   \* start_transaction(); return
  /\ Goto(c, "start", "idle")
  /\ tx' = [tx EXCEPT ![c] = @ \cup {table[c]}]
  /\ joined' = [joined EXCEPT ![c] = Append(@, table[c])]
  /\ table' = [table EXCEPT ![c] = NoTable]
  /\ UNCHANGED <<flags, ghosts>>
-----------------------------------------------------------------------------
\* vtab_commit

Commit(c) ==   \* fs::commit: nothing if the table has no transaction
  /\ Goto(c, "commit", "check")
  /\ tx' = [tx EXCEPT ![c] = @ \ {table[c]}]
  /\ bare' = (bare \/ table[c] \notin tx[c])
  /\ UNCHANGED <<flags, table, joined, rolled, twice>>

\* SQLite goes on to the table that joined next.
Next_table(c) ==
  /\ joined' = [joined EXCEPT ![c] = IF @ = <<>> THEN @ ELSE Tail(@)]
  /\ table' = [table EXCEPT ![c] = IF joined[c] = <<>> THEN NoTable
                                   ELSE Head(joined[c])]
  /\ at' = [at EXCEPT ![c] = IF joined[c] = <<>> THEN "idle" ELSE "commit"]

\* Variant: the flag is read the wrong way round.
CheckFlagInverted(c) ==
  /\ at[c] = "check"
  /\ IF ~has_mtx
     THEN at' = [at EXCEPT ![c] = "reset"] /\ UNCHANGED <<joined, table>>
     ELSE Next_table(c)
  /\ UNCHANGED <<flags, tx, ghosts>>

CheckFlag(c) ==   \* if(has_mtx)
  /\ at[c] = "check"
  /\ IF has_mtx
     THEN at' = [at EXCEPT ![c] = "reset"] /\ UNCHANGED <<joined, table>>
     ELSE Next_table(c)
  /\ UNCHANGED <<flags, tx, ghosts>>

\* Variant: the flag stays set.
ResetForgotten(c) ==
  Goto(c, "reset", "unlock") /\ UNCHANGED <<flags, table, joined, tx, ghosts>>

ResetFlag(c) ==   \* has_mtx = false
  /\ Goto(c, "reset", "unlock")
  /\ has_mtx' = FALSE
  /\ UNCHANGED <<mtx, table, joined, tx, ghosts>>

Unlock(c) ==   \* mtx.unlock()
  /\ at[c] = "unlock"
  /\ mtx' = NoOne
  /\ Next_table(c)
  /\ UNCHANGED <<has_mtx, tx, ghosts>>

Next ==
  \E c \in Conns :
    \/ \E t \in Tables : Create(c, t) \/ CallBegin(c, t)
    \/ CallCommit(c) \/ Rollback(c)
    \/ Lock(c) \/ SetFlag(c) \/ StartTransaction(c)
    \/ Commit(c) \/ CheckFlag(c) \/ ResetFlag(c) \/ Unlock(c)

Spec == Init /\ [][Next]_vars
-----------------------------------------------------------------------------
\* Every variable has its type.
TypeOK ==
  /\ mtx \in Conns \cup {NoOne} /\ has_mtx \in BOOLEAN
  /\ at \in [Conns -> {"idle", "lock", "flag", "start", "commit", "check",
                       "reset", "unlock"}]
  /\ \A c \in Conns : table[c] \in IF at[c] = "idle" THEN {NoTable} ELSE Tables
  /\ joined \in [Conns -> Seq(Tables)]
  /\ tx \in [Conns -> SUBSET Tables]
  /\ bare \in BOOLEAN /\ rolled \in SUBSET Conns /\ twice \in SUBSET Conns

\* As long as every commit was begun, at most one connection has an open
\* transaction, and it is the one that holds the mutex: from before its
\* private pages exist until after they are committed.
OneTransaction ==
  ~bare => \A c \in Conns : tx[c] # {} => mtx = c

\* The flag, which any thread may read between the two steps of another, is
\* set only while the mutex is held, and whoever unlocks is the holder.
FlagFollowsLock ==
  ~bare =>
    /\ has_mtx => mtx # NoOne
    /\ \A c \in Conns : at[c] \in {"flag", "start", "check", "reset", "unlock"}
                          => mtx = c

\* While every commit was begun: whoever waits for the mutex waits for a
\* connection that will unlock it - another one, which does not wait itself but
\* is in xBegin or xCommit, or has the COMMIT of its begun table still to come
\* - unless the holder has begun a second table in its transaction, which locks
\* it out of its own mutex, or has rolled back, which no callback sees. So with
\* transactions of one table that are all committed nobody waits forever.
WaitEnds ==
  ~bare =>
    \A c \in Conns : at[c] = "lock" /\ mtx \notin {NoOne} \cup rolled \cup twice =>
      /\ mtx # c /\ at[mtx] # "lock"
      /\ at[mtx] = "idle" => \E t \in tx[mtx] : t \in ToSet(joined[mtx])

\* The comment in vtable.cpp (line 284) on the flag: a commit may come without
\* a begin, as for a simple CREATE TABLE - and must then leave the mutex be.
CreateLeavesMutex ==
  [][\A c \in Conns : at[c] = "unlock" /\ at'[c] # "unlock" => mtx = c]_vars
=============================================================================
