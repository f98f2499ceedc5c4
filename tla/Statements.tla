----------------------------- MODULE Statements -----------------------------
(***************************************************************************)
(* SQL statements on one table: Filter plans a statement and finds the     *)
(* keys that its cursor visits, query() copies the rows under them into    *)
(* the iterator, and SQLite then updates or deletes the rows of the        *)
(* iterator, one vtab_update of Rows for each, while the table changes     *)
(* under the copies. Between statements rows are inserted and the table is *)
(* opened again. SQLite, which decides when to call what, is external.     *)
(* Each statement is a transaction of its own here: what query() reads in  *)
(* the middle of one is the subject of Cursor.                             *)
(***************************************************************************)
EXTENDS Filter, Rows

ASSUME SameKeys == Keys = IndexKeys

VARIABLES
  iter   \* the copies of rows that the cursor still has to report, by rowid

stmtVars == <<filterVars, vars, iter>>

NoRows == [k \in {} |-> Missing]
Without(rest, k) == [j \in DOMAIN rest \ {k} |-> rest[j]]

StmtInit ==
  /\ FilterInit /\ Init
  /\ iter = NoRows

\* Between statements.
Idle == phase = "plan" /\ idxStr = <<>>

InsertRow(v, d) ==
  /\ Idle
  /\ Insert(v, d)
  /\ UNCHANGED <<filterVars, iter>>

OpenAgain == Idle /\ Reopen /\ UNCHANGED <<filterVars, iter>>

\* xBestIndex and the loop over the arguments of xFilter.
PlanOrFilter ==
  /\ \/ \E op \in Cmps : BestIndex(op)
     \/ EndPlan \/ StartFilter
     \/ \E v \in Args : FilterArg(v)
  /\ UNCHANGED <<vars, iter>>

\* query(): all rows of the interval are copied before the first is reported.
Query ==
  /\ EndFilter
  /\ iter' = [k \in scan' \cap Present |-> rows[k]]
  /\ UNCHANGED vars

\* SQLite takes a row of the cursor, and changes it through its rowid.
DeleteRow(k) ==
  /\ k \in DOMAIN iter
  /\ Delete(k)
  /\ iter' = Without(iter, k)
  /\ UNCHANGED filterVars

UpdateRow(k, v, d) ==
  /\ k \in DOMAIN iter
  /\ Update(k, v, d)
  /\ iter' = Without(iter, k)
  /\ UNCHANGED filterVars

\* The cursor is closed, the statement and its plan are over.
EndStatement ==
  /\ phase = "scan"
  /\ phase' = "plan"
  /\ idxStr' = <<>> /\ freed' = FALSE /\ filters' = 0
  /\ i' = 0 /\ cons' = Everything /\ asked' = {} /\ scan' = {}
  /\ iter' = NoRows
  /\ UNCHANGED vars

StmtNext ==
  \/ \E v \in Declared, d \in Data : InsertRow(v, d)
  \/ OpenAgain \/ PlanOrFilter \/ Query \/ EndStatement
  \/ \E k \in Keys : DeleteRow(k)
  \/ \E k \in Keys, v \in Declared, d \in Data : UpdateRow(k, v, d)

StmtSpec == StmtInit /\ [][StmtNext]_stmtVars
-----------------------------------------------------------------------------
\* Whatever a statement has done to earlier rows, the rows that it has not
\* come to yet are in the table, under the rowid that it will name, as they
\* were when the cursor copied them: no row of the cursor is overwritten or
\* removed by the change of another one.
RowsAwaitTheirTurn == \A k \in DOMAIN iter : rows[k] = iter[k]
=============================================================================
