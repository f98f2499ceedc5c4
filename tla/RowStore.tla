------------------------------ MODULE RowStore ------------------------------
(***************************************************************************)
(* Rows on their way into record pages and back: a table is declared       *)
(* (RowLayout), each row that vtab_update inserts is laid out and handed   *)
(* to add_rec (RecStore), and cursor::query decodes what get_rec points    *)
(* at. The pages now have bytes.                                           *)
(***************************************************************************)
EXTENDS RecStore, RowLayout

VARIABLES
  bytes,  \* what was copied into the pages: <<page, address, byte>>
  kept    \* ghost: the rows inserted, [page, slot, row, lens]

storeVars == <<vars, layoutVars, bytes, kept>>

StoreInit == Init /\ LayoutInit /\ bytes = {} /\ kept = {}

Table == Construct /\ UNCHANGED <<vars, bytes, kept>>

\* The record as copied to the place that add_rec has chosen for it.
InsertRow(lens) ==
  LET row == Cardinality(kept)
  IN  /\ open
      /\ add_rec(raw_size(lens))
      /\ bytes' = bytes \cup
           {<<last_rec', pages'[last_rec'].end_free + c[1], c[2]>> :
              c \in rec2raw(row, lens)}
      /\ kept' = kept \cup
           {[page |-> last_rec', slot |-> Len(pages'[last_rec'].ptr) - 1,
             row |-> row, lens |-> lens]}
      /\ UNCHANGED layoutVars

StoreNext == Table \/ \E lens \in Lengths : InsertRow(lens)

StoreSpec == StoreInit /\ [][StoreNext]_storeVars
-----------------------------------------------------------------------------
\* Every variable has its type; addresses stay in their pages.
StoreTypeOK ==
  /\ TypeOK /\ LayoutTypeOK
  /\ \A b \in bytes : b[1] \in PageIds /\ b[2] \in 0 .. PAGE_SIZE - 1
  /\ \A r \in kept : r.page \in PageIds /\ r.slot \in Nat /\ r.lens \in Lengths

\* What get_rec points at: the bytes of the page, counted from the record.
RawAt(page, slot) ==
  {<<c[2] - get_rec(page, slot), c[3]>> : c \in {b \in bytes : b[1] = page}}

\* Column i of a row as it was inserted, and as a query returns it.
Inserted(r, i) ==
  ValueBytes(r.row, i, IF i \in Texts THEN r.lens[i] ELSE TypeSize(columns[i].type))

Returned(r, i) == decode(RawAt(r.page, r.slot), i)

Doubles == {i \in Column : columns[i].type = "double"}

\* Every row reads back as it was inserted, column by column, whatever was
\* stored next to it since: the fixed parts and the strings of a row do not
\* touch, the lengths lead from string to string, and get_rec to the row.
\* Of a DOUBLE it is the integer part that comes back.
RowsReadBack ==
  \A r \in kept, i \in Column :
    Returned(r, i) = IF i \in Doubles THEN IntegerPart(Inserted(r, i)) ELSE Inserted(r, i)

\* DOUBLE is one of the types that a column may be declared with (type.h, line
\* 30), and table.h (line 17) calls it floating point: what is inserted is
\* returned.
DoublesComeBack ==
  \A r \in kept, i \in Doubles : Returned(r, i) = Inserted(r, i)
=============================================================================
