-------------------------------- MODULE Rows --------------------------------
(***************************************************************************)
(* The row operations of vtab_update (api/vtable.cpp) over the key table   *)
(* that BPlusTree implements: INSERT, DELETE and UPDATE, the generated key *)
(* of a table without a primary key (schema/id_gen.h), and the conversion  *)
(* of a 32-bit primary key into the 64-bit key of the index: the union is  *)
(* zeroed, its i32 member assigned and its i64 member read (table/value.h, *)
(* table/parser.cpp), so the upper half is zero whatever the sign.         *)
(***************************************************************************)
EXTENDS Integers

CONSTANTS Half,     \* 2^31: an INT is in -Half .. Half - 1
          Data,     \* the other columns
          Missing,  \* no row under this key
          MaxGen    \* bound: generated keys

ASSUME RowsAssumption == Half \in Nat \ {0} /\ MaxGen \in Nat /\ MaxGen < 2 * Half

VARIABLES
  kind,     \* of the primary key: "int", "bigint", or "hidden"
  rows,     \* index key -> the record under it, or Missing
  gen       \* id_gen: the next generated key

vars == <<kind, rows, gen>>

Declared == -Half .. Half - 1
IndexKeys == -Half .. 2 * Half - 1

Records == [pk : Declared \cup (0 .. MaxGen), data : Data]

\* Variant: the union is not zeroed, and something is left above the key.
i64Dirty(pk) == IF kind = "int" THEN (pk % Half) + Half ELSE pk

\* The key of the index that a primary key becomes.
i64(pk) == IF kind = "int" /\ pk < 0 THEN pk + 2 * Half ELSE pk

\* bplus_tree::add and remove, as KeyTable has them.
AddedOver(r, k, rec) == [r EXCEPT ![k] = rec]   \* Variant: a key is never taken.
Added(r, k, rec) == IF r[k] = Missing THEN [r EXCEPT ![k] = rec] ELSE r
Removed(r, k) == [r EXCEPT ![k] = Missing]

\* The value of the key column: from the statement, or generated.
NewKey(v) == IF kind = "hidden" THEN gen ELSE v

Generated ==
  /\ kind = "hidden" => gen < MaxGen
  /\ gen' = IF kind = "hidden" THEN gen + 1 ELSE gen

Init ==
  /\ kind \in {"int", "bigint", "hidden"}
  /\ rows = [k \in IndexKeys |-> Missing]
  /\ gen = 0

Insert(v, d) ==
  /\ rows' = Added(rows, i64(NewKey(v)), [pk |-> NewKey(v), data |-> d])
  /\ Generated
  /\ UNCHANGED kind

\* Variant: the 32-bit member is read back, with its sign.
rowidSigned(k) == rows[k].pk

\* vtab_rowid: what a scan reports of the row, and SQLite names it by.
rowid(k) == i64(rows[k].pk)

\* *pRowid, what INSERT reports: a key from the statement keeps its sign.
pRowid(v) == NewKey(v)

\* Rows that a scan can report.
Present == {k \in IndexKeys : rows[k] # Missing}

Delete(k) ==
  /\ k \in Present
  /\ rows' = Removed(rows, rowid(k))
  /\ UNCHANGED <<kind, gen>>

\* Variant: the new row is added first.
UpdateAddFirst(k, v, d) ==
  /\ k \in Present
  /\ rows' = Removed(Added(rows, i64(NewKey(v)), [pk |-> NewKey(v), data |-> d]),
                     rowid(k))
  /\ Generated
  /\ UNCHANGED kind

\* The old row is removed first, then the new one added; a hidden key is
\* generated anew. The result of neither call is looked at.
Update(k, v, d) ==
  /\ k \in Present
  /\ rows' = Added(Removed(rows, rowid(k)), i64(NewKey(v)),
                   [pk |-> NewKey(v), data |-> d])
  /\ Generated
  /\ UNCHANGED kind

\* A new table object over the same file, also of another connection: its
\* generator starts again.
Reopen == gen' = 0 /\ UNCHANGED <<kind, rows>>

Next ==
  \/ \E v \in Declared, d \in Data : Insert(v, d)
  \/ \E k \in IndexKeys : Delete(k)
  \/ \E k \in IndexKeys, v \in Declared, d \in Data : Update(k, v, d)
  \/ Reopen

Spec == Init /\ [][Next]_vars
-----------------------------------------------------------------------------
\* Every variable has its type.
TypeOK ==
  /\ kind \in {"int", "bigint", "hidden"}
  /\ rows \in [IndexKeys -> Records \cup {Missing}]
  /\ gen \in 0 .. MaxGen

\* A row is stored under the key that a scan reports of it and that a later
\* UPDATE or DELETE names, for negative keys as well: the two zero-extensions,
\* on the way in and out, are the same.
RowidNamesRow == \A k \in Present : rowid(k) = k

\* WHERE id = v, which Filter turns into the index key v, finds the row whose
\* key column is v: of an INT column for keys that are not negative only.
LookupFindsRow ==
  \A k \in Present : (kind = "int" => rows[k].pk >= 0) => k = rows[k].pk

\* An UPDATE that leaves the primary key alone replaces exactly its row,
\* although it is removed and added in between.
UpdateInPlace ==
  [][\A k \in Present, v \in Declared, d \in Data :
       Update(k, v, d) /\ kind # "hidden" /\ v = rows[k].pk
         => rows' = [rows EXCEPT ![k] = [pk |-> v, data |-> d]]]_vars

\* The comment in vtable.cpp (line 219): when the keys differ, the row with
\* the old rowid is replaced by the one with the new rowid.
UpdateReplaces ==
  [][\A k \in Present, v \in Declared, d \in Data :
       Update(k, v, d) /\ kind = "bigint"
         => rows'[v] = [pk |-> v, data |-> d]]_vars

\* The comment in vtable.cpp (line 164): a key that is not given is generated,
\* and *pRowid is the new one - so the row is there under it.
InsertAdds ==
  [][\A v \in Declared, d \in Data :
       Insert(v, d) /\ kind = "hidden"
         => rows'[gen] = [pk |-> gen, data |-> d]]_vars

\* The same comment: *pRowid "tells SQLite", for last_insert_rowid(), the rowid
\* of the row that INSERT has added.
InsertReportsRow ==
  [][\A v \in Declared, d \in Data :
       Insert(v, d) /\ i64(NewKey(v)) \notin Present
         => rows'[pRowid(v)] = [pk |-> NewKey(v), data |-> d]]_vars
=============================================================================
