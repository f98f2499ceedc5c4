---------------------------- MODULE VtabTxProofs ----------------------------
(***************************************************************************)
(* Proofs about VtabTx, for any connections and tables: the global mutex   *)
(* keeps transactions apart as long as nothing is committed that was not   *)
(* begun.                                                                  *)
(***************************************************************************)
EXTENDS VtabTx, TLAPS

Holding == {"flag", "start", "check", "reset", "unlock"}

Types ==
  /\ mtx \in Conns \cup {NoOne} /\ has_mtx \in BOOLEAN
  /\ at \in [Conns -> {"idle", "lock", "commit"} \cup Holding]
  /\ \A c \in Conns : table[c] \in IF at[c] = "idle" THEN {NoTable} ELSE Tables
  /\ table \in [Conns -> Tables \cup {NoTable}]
  /\ joined \in [Conns -> Seq(Tables)]
  /\ tx \in [Conns -> SUBSET Tables]
  /\ bare \in BOOLEAN /\ rolled \in SUBSET Conns /\ twice \in SUBSET Conns

\* Inside of the critical section, between begin and commit, a connection has
\* no table in a transaction, and outside of it at most one: the second would
\* need the mutex again. And a thread about to unlock has reset the flag.
Sections ==
  /\ \A c \in Conns : at[c] \in Holding \/ tx[c] # {} => mtx = c
  /\ \A c \in Conns : at[c] \in Holding => tx[c] = {}
  /\ \A c \in Conns : \A t, u \in tx[c] : t = u
  /\ \A c \in Conns : at[c] = "unlock" => ~has_mtx
  /\ has_mtx => mtx # NoOne

IInv == Types /\ (~bare => Sections)
-----------------------------------------------------------------------------
LEMMA InvInit == Init => IInv
<1> SUFFICES ASSUME Init PROVE IInv
  OBVIOUS
<1>1. Types
  <2>1. joined \in [Conns -> Seq(Tables)]
    BY DEF Init
  <2>2. at \in [Conns -> {"idle", "lock", "commit"} \cup Holding]
    BY DEF Init
  <2>3. /\ table \in [Conns -> Tables \cup {NoTable}]
        /\ \A c \in Conns : table[c] \in IF at[c] = "idle" THEN {NoTable} ELSE Tables
    BY DEF Init
  <2>4. tx \in [Conns -> SUBSET Tables] /\ rolled \in SUBSET Conns
        /\ twice \in SUBSET Conns
    BY DEF Init
  <2>5. mtx \in Conns \cup {NoOne} /\ has_mtx \in BOOLEAN /\ bare \in BOOLEAN
    BY DEF Init
  <2> QED BY <2>1, <2>2, <2>3, <2>4, <2>5 DEF Types
<1>2. /\ mtx = NoOne /\ has_mtx = FALSE
      /\ \A c \in Conns : at[c] = "idle" /\ tx[c] = {}
      /\ "idle" \notin Holding
  BY DEF Init, Holding
<1>3. Sections
  BY <1>2 DEF Sections
<1> QED BY <1>1, <1>3 DEF IInv

\* SQLite goes on to a table that has joined, or to none.
LEMMA NextTableTypes ==
  ASSUME Types, NEW c \in Conns, Next_table(c)
  PROVE  /\ joined' \in [Conns -> Seq(Tables)]
         /\ at' \in [Conns -> {"idle", "lock", "commit"} \cup Holding]
         /\ table' \in [Conns -> Tables \cup {NoTable}]
         /\ table'[c] \in IF at'[c] = "idle" THEN {NoTable} ELSE Tables
         /\ at'[c] \in {"idle", "commit"}
         /\ \A d \in Conns \ {c} : at'[d] = at[d] /\ table'[d] = table[d]
<1>1. joined[c] \in Seq(Tables)
  BY DEF Types
<1>2. CASE joined[c] = <<>>
  <2>1. /\ joined' = [joined EXCEPT ![c] = <<>>]
        /\ table' = [table EXCEPT ![c] = NoTable]
        /\ at' = [at EXCEPT ![c] = "idle"]
    BY <1>2 DEF Next_table, Types
  <2> QED BY <1>2, <2>1 DEF Types
<1>3. CASE joined[c] # <<>>
  <2>1. Head(joined[c]) \in Tables /\ Tail(joined[c]) \in Seq(Tables)
    BY <1>1, <1>3
  <2>2. /\ joined' = [joined EXCEPT ![c] = Tail(joined[c])]
        /\ table' = [table EXCEPT ![c] = Head(joined[c])]
        /\ at' = [at EXCEPT ![c] = "commit"]
    BY <1>3 DEF Next_table, Types
  <2> QED BY <1>3, <2>1, <2>2 DEF Types
<1> QED BY <1>2, <1>3

LEMMA TypesNext ==
  ASSUME Types, [Next]_vars
  PROVE  Types'
<1>1. CASE UNCHANGED vars
  BY <1>1 DEF vars, flags, ghosts, Types
<1>2. ASSUME NEW c \in Conns, NEW t \in Tables, Create(c, t)
      PROVE  Types'
  BY <1>2 DEF Create, Types, flags, ghosts
<1>3. ASSUME NEW c \in Conns, NEW t \in Tables, CallBegin(c, t)
      PROVE  Types'
  BY <1>3 DEF CallBegin, Goto, Types, flags, ghosts
<1>4. ASSUME NEW c \in Conns, CallCommit(c)
      PROVE  Types'
  <2>1. Head(joined[c]) \in Tables /\ Tail(joined[c]) \in Seq(Tables)
    BY <1>4 DEF CallCommit, Types
  <2> QED BY <1>4, <2>1 DEF CallCommit, Goto, Types, flags, ghosts
<1>5. ASSUME NEW c \in Conns, Rollback(c)
      PROVE  Types'
  BY <1>5 DEF Rollback, Types, flags
<1>6. ASSUME NEW c \in Conns, Lock(c)
      PROVE  Types'
  BY <1>6 DEF Lock, Goto, Types, Holding, ghosts
<1>7. ASSUME NEW c \in Conns, SetFlag(c)
      PROVE  Types'
  BY <1>7 DEF SetFlag, Goto, Types, Holding, ghosts
<1>8. ASSUME NEW c \in Conns, StartTransaction(c)
      PROVE  Types'
  <2>1. table[c] \in Tables
    BY <1>8 DEF StartTransaction, Goto, Types
  <2> QED BY <1>8, <2>1 DEF StartTransaction, Goto, Types, flags, ghosts
<1>9. ASSUME NEW c \in Conns, Commit(c)
      PROVE  Types'
  BY <1>9 DEF Commit, Goto, Types, Holding, flags
<1>10. ASSUME NEW c \in Conns, CheckFlag(c)
       PROVE  Types'
  <2>1. CASE has_mtx
    BY <1>10, <2>1 DEF CheckFlag, Types, Holding, flags, ghosts
  <2>2. CASE ~has_mtx
    <3>1. Next_table(c) /\ UNCHANGED <<mtx, has_mtx, tx, bare, rolled, twice>>
      BY <1>10, <2>2 DEF CheckFlag, flags, ghosts
    <3> QED BY <3>1, NextTableTypes DEF Types
  <2> QED BY <2>1, <2>2
<1>11. ASSUME NEW c \in Conns, ResetFlag(c)
       PROVE  Types'
  BY <1>11 DEF ResetFlag, Goto, Types, Holding, ghosts
<1>12. ASSUME NEW c \in Conns, Unlock(c)
       PROVE  Types'
  <2>1. Next_table(c) /\ mtx' = NoOne /\ UNCHANGED <<has_mtx, tx, bare, rolled, twice>>
    BY <1>12 DEF Unlock, ghosts
  <2> QED BY <2>1, NextTableTypes DEF Types
<1> QED BY <1>1, <1>2, <1>3, <1>4, <1>5, <1>6, <1>7, <1>8, <1>9, <1>10, <1>11,
           <1>12 DEF Next

\* A commit that was not begun is remembered.
LEMMA BareStays == [Next]_vars /\ bare => bare'
<1> SUFFICES ASSUME [Next]_vars, bare PROVE bare'
  OBVIOUS
<1>1. CASE UNCHANGED vars
  BY <1>1 DEF vars, ghosts
<1>2. ASSUME NEW c \in Conns, Commit(c) PROVE bare'
  BY <1>2 DEF Commit
<1>3. ASSUME NEW c \in Conns,
             \/ \E t \in Tables : Create(c, t) \/ CallBegin(c, t)
             \/ CallCommit(c) \/ Rollback(c)
             \/ Lock(c) \/ SetFlag(c) \/ StartTransaction(c)
             \/ CheckFlag(c) \/ ResetFlag(c) \/ Unlock(c)
      PROVE  bare'
  BY <1>3 DEF ghosts, Create, CallBegin, CallCommit, Rollback, Lock, SetFlag,
              StartTransaction, CheckFlag, ResetFlag, Unlock
<1> QED BY <1>1, <1>2, <1>3 DEF Next

\* While every commit was begun, the sections stay apart.
LEMMA SectionsNext ==
  ASSUME Types, ~bare => Sections, [Next]_vars
  PROVE  ~bare' => Sections'
<1> SUFFICES ASSUME ~bare' PROVE Sections'
  OBVIOUS
<1>0. ~bare /\ Sections
  BY BareStays
<1>1. CASE UNCHANGED vars
  BY <1>0, <1>1 DEF vars, flags, ghosts, Sections
<1>2. ASSUME NEW c \in Conns, NEW t \in Tables, Create(c, t)
      PROVE  Sections'
  BY <1>0, <1>2 DEF Create, Sections, Types, flags, ghosts
<1>3. ASSUME NEW c \in Conns, NEW t \in Tables, CallBegin(c, t)
      PROVE  Sections'
  BY <1>0, <1>3 DEF CallBegin, Goto, Sections, Types, Holding, flags, ghosts
<1>4. ASSUME NEW c \in Conns, CallCommit(c)
      PROVE  Sections'
  BY <1>0, <1>4 DEF CallCommit, Goto, Sections, Types, Holding, flags, ghosts
<1>5. ASSUME NEW c \in Conns, Rollback(c)
      PROVE  Sections'
  BY <1>0, <1>5 DEF Rollback, Sections, Types, flags
<1>6. ASSUME NEW c \in Conns, Lock(c)
      PROVE  Sections'
  <2>1. c # NoOne
    BY VtabAssumption
  <2>2. \A d \in Conns : tx[d] = {} /\ at[d] \notin Holding
    BY <1>0, <1>6, VtabAssumption DEF Lock, Sections
  <2>3. mtx' = c /\ tx' = tx /\ has_mtx' = has_mtx
        /\ at'[c] = "flag" /\ \A d \in Conns \ {c} : at'[d] = at[d]
    BY <1>6 DEF Lock, Goto, Types, ghosts
  <2> QED BY <1>0, <2>1, <2>2, <2>3 DEF Sections, Holding
<1>7. ASSUME NEW c \in Conns, SetFlag(c)
      PROVE  Sections'
  <2>1. mtx = c /\ c # NoOne
    BY <1>0, <1>7, VtabAssumption DEF SetFlag, Goto, Sections, Holding
  <2>2. mtx' = mtx /\ tx' = tx
        /\ at[c] = "flag" /\ at'[c] = "start" /\ \A d \in Conns \ {c} : at'[d] = at[d]
    BY <1>7 DEF SetFlag, Goto, Types, ghosts
  <2> QED BY <1>0, <2>1, <2>2 DEF Sections, Holding
<1>8. ASSUME NEW c \in Conns, StartTransaction(c)
      PROVE  Sections'
  <2>1. at[c] = "start" /\ at'[c] = "idle" /\ \A d \in Conns \ {c} : at'[d] = at[d]
    BY <1>8 DEF StartTransaction, Goto, Types
  <2>2. tx'[c] = {table[c]} /\ \A d \in Conns \ {c} : tx'[d] = tx[d]
    BY <1>0, <1>8, <2>1 DEF StartTransaction, Sections, Types, Holding
  <2>3. mtx' = mtx /\ has_mtx' = has_mtx
    BY <1>8 DEF StartTransaction, flags
  <2> QED BY <1>0, <2>1, <2>2, <2>3 DEF Sections, Holding
<1>9. ASSUME NEW c \in Conns, Commit(c)
      PROVE  Sections'
  <2>1. at[c] = "commit" /\ at'[c] = "check" /\ \A d \in Conns \ {c} : at'[d] = at[d]
    BY <1>9 DEF Commit, Goto, Types
  <2>2. table[c] \in tx[c]
    BY <1>9 DEF Commit
  <2>3. tx'[c] = {} /\ \A d \in Conns \ {c} : tx'[d] = tx[d]
    <3>1. tx[c] \ {table[c]} = {}
      BY <1>0, <2>2 DEF Sections
    <3> QED BY <1>9, <3>1 DEF Commit, Types
  <2>4. mtx' = mtx /\ has_mtx' = has_mtx
    BY <1>9 DEF Commit, flags
  <2> QED BY <1>0, <2>1, <2>2, <2>3, <2>4 DEF Sections, Holding
<1>10. ASSUME NEW c \in Conns, CheckFlag(c)
       PROVE  Sections'
  <2>1. mtx' = mtx /\ has_mtx' = has_mtx /\ tx' = tx /\ at[c] = "check"
    BY <1>10 DEF CheckFlag, flags, ghosts
  <2>2. at'[c] \in {"reset", "idle", "commit"} /\ \A d \in Conns \ {c} : at'[d] = at[d]
    <3>1. CASE has_mtx
      BY <1>10, <3>1 DEF CheckFlag, Types
    <3>2. CASE ~has_mtx
      BY <1>10, <3>2, NextTableTypes DEF CheckFlag
    <3> QED BY <3>1, <3>2
  <2> QED BY <1>0, <2>1, <2>2 DEF Sections, Holding
<1>11. ASSUME NEW c \in Conns, ResetFlag(c)
       PROVE  Sections'
  <2>1. at[c] = "reset" /\ at'[c] = "unlock" /\ \A d \in Conns \ {c} : at'[d] = at[d]
    BY <1>11 DEF ResetFlag, Goto, Types
  <2>2. mtx' = mtx /\ has_mtx' = FALSE /\ tx' = tx
    BY <1>11 DEF ResetFlag, ghosts
  <2> QED BY <1>0, <2>1, <2>2 DEF Sections, Holding
<1>12. ASSUME NEW c \in Conns, Unlock(c)
       PROVE  Sections'
  <2>1. at[c] = "unlock" /\ at'[c] \in {"idle", "commit"}
        /\ \A d \in Conns \ {c} : at'[d] = at[d]
    BY <1>12, NextTableTypes DEF Unlock
  <2>2. mtx' = NoOne /\ has_mtx' = has_mtx /\ tx' = tx
    BY <1>12 DEF Unlock, ghosts
  <2>3. mtx = c /\ ~has_mtx /\ tx[c] = {}
    BY <1>0, <2>1 DEF Sections, Holding
  <2>4. \A d \in Conns \ {c} : at[d] \notin Holding /\ tx[d] = {}
    BY <1>0, <2>3 DEF Sections
  <2> QED BY <1>0, <2>1, <2>2, <2>3, <2>4 DEF Sections, Holding
<1> QED BY <1>1, <1>2, <1>3, <1>4, <1>5, <1>6, <1>7, <1>8, <1>9, <1>10, <1>11,
           <1>12 DEF Next

LEMMA InvNext == IInv /\ [Next]_vars => IInv'
BY TypesNext, SectionsNext DEF IInv

\* Every variable keeps its type.
THEOREM VtabTypeCorrect == Spec => []TypeOK
<1>1. IInv => TypeOK
  BY DEF IInv, Types, TypeOK, Holding
<1> QED BY InvInit, InvNext, <1>1, PTL DEF Spec

\* However the threads of any number of connections interleave in vtab_begin
\* and vtab_commit, at most one of them has an open transaction.
THEOREM TransactionsExclude == Spec => []OneTransaction
<1>1. IInv => OneTransaction
  BY DEF IInv, Sections, OneTransaction
<1> QED BY InvInit, InvNext, <1>1, PTL DEF Spec

\* The flag never outlives the lock, and only the holder unlocks.
THEOREM FlagIsInLock == Spec => []FlagFollowsLock
<1>1. IInv => FlagFollowsLock
  BY DEF IInv, Sections, FlagFollowsLock, Holding
<1> QED BY InvInit, InvNext, <1>1, PTL DEF Spec
-----------------------------------------------------------------------------
\* Who holds the mutex, and why it is given back.

\* The holder has the flag set from the step after its lock to the step before
\* its unlock. Its table, once begun, is still to be committed, unless it was
\* rolled back, and it waits for no mutex, unless it began a second one.
Pending(c, t) == t \in ToSet(joined[c]) \/ (at[c] = "commit" /\ table[c] = t)

Returning ==
  \A c \in Conns : mtx = c =>
    /\ at[c] \notin {"flag", "unlock"} => has_mtx
    /\ \/ c \in rolled \cup twice
       \/ at[c] \in Holding
       \/ tx[c] # {} /\ at[c] # "lock" /\ \A t \in tx[c] : Pending(c, t)

LInv == IInv /\ (~bare => Returning)

LEMMA Joins ==
  ASSUME NEW s \in Seq(Tables), NEW t \in Tables
  PROVE  /\ ToSet(Append(s, t)) = ToSet(s) \cup {t}
         /\ s # <<>> => ToSet(s) = {Head(s)} \cup ToSet(Tail(s))
<1>1. ToSet(Append(s, t)) = ToSet(s) \cup {t}
  <2>1. Len(s) \in Nat /\ DOMAIN s = 1 .. Len(s)
    OBVIOUS
  <2>2. DOMAIN Append(s, t) = 1 .. Len(s) + 1
        /\ \A i \in 1 .. Len(s) : Append(s, t)[i] = s[i]
        /\ Append(s, t)[Len(s) + 1] = t
    OBVIOUS
  <2>3. ASSUME NEW x \in ToSet(Append(s, t)) PROVE x \in ToSet(s) \cup {t}
    <3>1. PICK i \in 1 .. Len(s) + 1 : x = Append(s, t)[i]
      BY <2>2 DEF ToSet
    <3>2. i \in 1 .. Len(s) \/ i = Len(s) + 1
      BY <2>1, <3>1
    <3> QED BY <2>1, <2>2, <3>1, <3>2 DEF ToSet
  <2>4. ASSUME NEW x \in ToSet(s) PROVE x \in ToSet(Append(s, t))
    <3>1. PICK i \in 1 .. Len(s) : x = s[i]
      BY <2>1, <2>4 DEF ToSet
    <3>2. i \in 1 .. Len(s) + 1
      BY <2>1, <3>1
    <3> QED BY <2>2, <3>1, <3>2 DEF ToSet
  <2>5. t \in ToSet(Append(s, t))
    BY <2>1, <2>2 DEF ToSet
  <2> QED BY <2>3, <2>4, <2>5
<1>2. ASSUME s # <<>>
      PROVE  ToSet(s) = {Head(s)} \cup ToSet(Tail(s))
  <2>1. Len(s) \in Nat \ {0} /\ DOMAIN s = 1 .. Len(s) /\ Head(s) = s[1]
    BY <1>2
  <2>2. DOMAIN Tail(s) = 1 .. Len(s) - 1
        /\ \A i \in 1 .. Len(s) - 1 : Tail(s)[i] = s[i + 1]
    BY <1>2, <2>1
  <2>3. ASSUME NEW x \in ToSet(s) PROVE x = Head(s) \/ x \in ToSet(Tail(s))
    <3>1. PICK i \in 1 .. Len(s) : x = s[i]
      BY <2>1 DEF ToSet
    <3>2. CASE i = 1
      BY <2>1, <3>1, <3>2
    <3>3. CASE i # 1
      <4>1. i - 1 \in 1 .. Len(s) - 1 /\ x = Tail(s)[i - 1]
        BY <2>1, <2>2, <3>1, <3>3
      <4> QED BY <2>2, <4>1 DEF ToSet
    <3> QED BY <3>2, <3>3
  <2>4. Head(s) \in ToSet(s)
    BY <2>1 DEF ToSet
  <2>5. ASSUME NEW x \in ToSet(Tail(s)) PROVE x \in ToSet(s)
    <3>1. PICK i \in 1 .. Len(s) - 1 : x = Tail(s)[i]
      BY <2>2 DEF ToSet
    <3>2. i + 1 \in 1 .. Len(s) /\ x = s[i + 1]
      BY <2>1, <2>2, <3>1
    <3> QED BY <2>1, <3>2 DEF ToSet
  <2> QED BY <2>3, <2>4, <2>5
<1> QED BY <1>1, <1>2

\* Steps of another connection, while c holds the mutex, change nothing of c.
LEMMA ReturningNext ==
  ASSUME IInv, IInv', ~bare', Returning, [Next]_vars
  PROVE  Returning'
<1> USE DEF Returning
<1>0. ~bare /\ Types /\ Sections /\ Types' /\ Sections'
  BY BareStays DEF IInv
<1>1. CASE UNCHANGED vars
  BY <1>1 DEF vars, flags, ghosts, Pending
<1>2. ASSUME NEW c \in Conns, NEW t \in Tables, Create(c, t)
      PROVE  Returning'
  <2>1. /\ at[c] = "idle" /\ t \notin ToSet(joined[c])
        /\ UNCHANGED <<mtx, has_mtx, at, table, rolled, twice>>
        /\ joined'[c] = Append(joined[c], t) /\ tx'[c] = tx[c] \ {t}
        /\ \A d \in Conns \ {c} : joined'[d] = joined[d] /\ tx'[d] = tx[d]
    BY <1>0, <1>2 DEF Create, flags, ghosts, Types
  <2>2. joined[c] \in Seq(Tables)
    BY <1>0 DEF Types
  <2>3. ToSet(joined'[c]) = ToSet(joined[c]) \cup {t}
    BY <2>1, <2>2, Joins
  <2>4. "idle" \notin Holding
    BY DEF Holding
  <2>5. ASSUME NEW d \in Conns, mtx = d
        PROVE  \/ d \in rolled \cup twice \/ at[d] \in Holding
               \/ tx'[d] # {} /\ at[d] # "lock" /\ \A u \in tx'[d] : Pending(d, u)'
    <3>1. CASE d # c
      BY <2>1, <2>5, <3>1 DEF Pending
    <3>2. CASE d = c
      <4>1. CASE tx[c] # {} /\ at[c] # "lock" /\ \A u \in tx[c] : Pending(c, u)
        <5>1. \A u \in tx[c] : u \in ToSet(joined[c])
          BY <2>1, <4>1 DEF Pending
        <5>2. tx'[c] = tx[c]
          BY <2>1, <5>1
        <5> QED BY <2>3, <3>2, <4>1, <5>1, <5>2 DEF Pending
      <4> QED BY <2>1, <2>4, <2>5, <3>2, <4>1
    <3> QED BY <3>1, <3>2
  <2> QED BY <2>1, <2>5
<1>3. ASSUME NEW c \in Conns, NEW t \in Tables, CallBegin(c, t)
      PROVE  Returning'
  <2>1. /\ at[c] = "idle" /\ at'[c] = "lock"
        /\ UNCHANGED <<mtx, has_mtx, joined, tx, rolled>>
        /\ twice \subseteq twice' /\ (tx[c] # {} => c \in twice')
        /\ \A d \in Conns \ {c} : at'[d] = at[d] /\ table'[d] = table[d]
    BY <1>0, <1>3 DEF CallBegin, Goto, flags, ghosts, Types
  <2> QED BY <2>1 DEF Pending, Holding
<1>4. ASSUME NEW c \in Conns, CallCommit(c)
      PROVE  Returning'
  <2>1. /\ at[c] = "idle" /\ at'[c] = "commit" /\ joined[c] # <<>>
        /\ table'[c] = Head(joined[c]) /\ joined'[c] = Tail(joined[c])
        /\ UNCHANGED <<mtx, has_mtx, tx, rolled, twice>>
        /\ \A d \in Conns \ {c} :
             at'[d] = at[d] /\ table'[d] = table[d] /\ joined'[d] = joined[d]
    BY <1>0, <1>4 DEF CallCommit, Goto, flags, ghosts, Types
  <2>2. joined[c] \in Seq(Tables) /\ Head(joined[c]) \in Tables
    BY <1>0, <2>1 DEF Types
  <2>3. ToSet(joined[c]) = {Head(joined[c])} \cup ToSet(Tail(joined[c]))
    BY <2>1, <2>2, Joins
  <2>4. \A u : Pending(c, u) => Pending(c, u)'
    BY <2>1, <2>3 DEF Pending
  <2>5. \A d \in Conns \ {c}, u \in Tables : Pending(d, u) <=> Pending(d, u)'
    BY <2>1 DEF Pending
  <2>6. \A d \in Conns : tx[d] \subseteq Tables
    BY <1>0 DEF Types
  <2> QED BY <2>1, <2>4, <2>5, <2>6 DEF Holding
<1>5. ASSUME NEW c \in Conns, Rollback(c)
      PROVE  Returning'
  <2>1. /\ at[c] = "idle"
        /\ UNCHANGED <<mtx, has_mtx, at, table, tx, twice>>
        /\ rolled' = IF tx[c] # {} THEN rolled \cup {c} ELSE rolled
        /\ \A d \in Conns \ {c} : joined'[d] = joined[d]
    BY <1>0, <1>5 DEF Rollback, flags, Types
  <2> QED BY <2>1 DEF Pending, Holding
<1>6. ASSUME NEW c \in Conns, Lock(c)
      PROVE  Returning'
  <2>1. mtx' = c /\ at'[c] = "flag"
    BY <1>0, <1>6 DEF Lock, Goto, Types
  <2> QED BY <2>1 DEF Holding
<1>7. ASSUME NEW c \in Conns, SetFlag(c)
      PROVE  Returning'
  <2>1. at[c] = "flag" /\ at'[c] = "start" /\ mtx' = mtx /\ has_mtx' = TRUE
    BY <1>0, <1>7 DEF SetFlag, Goto, Types
  <2>2. mtx = c
    BY <1>0, <2>1 DEF Sections, Holding
  <2> QED BY <2>1, <2>2 DEF Holding
<1>8. ASSUME NEW c \in Conns, StartTransaction(c)
      PROVE  Returning'
  <2>1. /\ at[c] = "start" /\ at'[c] = "idle" /\ UNCHANGED <<mtx, has_mtx>>
        /\ table[c] \in Tables /\ mtx = c
        /\ tx'[c] = tx[c] \cup {table[c]} /\ joined'[c] = Append(joined[c], table[c])
    BY <1>0, <1>8 DEF StartTransaction, Goto, flags, Types, Sections, Holding
  <2>2. tx[c] = {} /\ joined[c] \in Seq(Tables)
    BY <1>0, <2>1 DEF Sections, Holding, Types
  <2>3. table[c] \in ToSet(joined'[c])
    BY <2>1, <2>2, Joins
  <2>4. has_mtx' /\ mtx' = c /\ at'[c] = "idle"
    BY <2>1
  <2>5. tx'[c] # {} /\ \A t \in tx'[c] : Pending(c, t)'
    <3>1. tx'[c] = {table[c]}
      BY <2>1, <2>2
    <3>2. \A t \in tx'[c] : t \in ToSet(joined'[c])
      BY <2>3, <3>1
    <3> QED BY <3>1, <3>2 DEF Pending
  <2> QED BY <2>4, <2>5
<1>9. ASSUME NEW c \in Conns, Commit(c)
      PROVE  Returning'
  <2>1. /\ at[c] = "commit" /\ at'[c] = "check" /\ table[c] \in tx[c]
        /\ UNCHANGED <<mtx, has_mtx>>
    BY <1>0, <1>9 DEF Commit, Goto, flags, Types
  <2>2. mtx = c
    BY <1>0, <2>1 DEF Sections
  <2> QED BY <2>1, <2>2 DEF Holding
<1>10. ASSUME NEW c \in Conns, CheckFlag(c)
       PROVE  Returning'
  <2>1. at[c] = "check" /\ mtx = c /\ UNCHANGED <<mtx, has_mtx>>
    BY <1>0, <1>10 DEF CheckFlag, flags, Sections, Holding
  <2>2. has_mtx
    BY <2>1
  <2>3. at'[c] = "reset"
    BY <1>0, <1>10, <2>2 DEF CheckFlag, Types
  <2> QED BY <2>1, <2>2, <2>3 DEF Holding
<1>11. ASSUME NEW c \in Conns, ResetFlag(c)
       PROVE  Returning'
  <2>1. at[c] = "reset" /\ mtx = c /\ mtx' = mtx /\ at'[c] = "unlock"
    BY <1>0, <1>11 DEF ResetFlag, Goto, Types, Sections, Holding
  <2> QED BY <2>1 DEF Holding
<1>12. ASSUME NEW c \in Conns, Unlock(c)
       PROVE  Returning'
  BY <1>12, VtabAssumption DEF Unlock
<1> QED BY <1>1, <1>2, <1>3, <1>4, <1>5, <1>6, <1>7, <1>8, <1>9, <1>10, <1>11,
           <1>12 DEF Next

\* With transactions of one table that are committed, whoever waits for the
\* mutex waits for another connection, which does not wait itself and is on its
\* way to unlock it or has its COMMIT still to come.
THEOREM WaitsEnd == Spec => []WaitEnds
<1>1. Init => LInv
  <2>1. Init => Returning
    BY VtabAssumption DEF Init, Returning
  <2> QED BY <2>1, InvInit DEF LInv
<1>2. LInv /\ [Next]_vars => LInv'
  BY InvNext, ReturningNext, BareStays DEF LInv
<1>3. LInv => WaitEnds
  <2> SUFFICES ASSUME LInv, ~bare, NEW c \in Conns, at[c] = "lock",
                      mtx \notin {NoOne} \cup rolled \cup twice
               PROVE  /\ mtx # c /\ at[mtx] # "lock"
                      /\ at[mtx] = "idle" => \E t \in tx[mtx] : t \in ToSet(joined[mtx])
    BY DEF WaitEnds
  <2>1. mtx \in Conns /\ Returning
    BY DEF LInv, IInv, Types
  <2>2. "lock" \notin Holding /\ "idle" \notin Holding
    BY DEF Holding
  <2>3. CASE at[mtx] \in Holding
    BY <2>2, <2>3
  <2>4. CASE tx[mtx] # {} /\ at[mtx] # "lock" /\ \A t \in tx[mtx] : Pending(mtx, t)
    BY <2>4 DEF Pending
  <2> QED BY <2>1, <2>3, <2>4 DEF Returning
<1> QED BY <1>1, <1>2, <1>3, PTL DEF Spec
=============================================================================
