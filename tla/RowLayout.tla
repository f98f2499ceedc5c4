------------------------------ MODULE RowLayout ------------------------------
(***************************************************************************)
(* The columns of a table and the bytes of a row: the constructor of       *)
(* schema (schema/schema.cpp), which reads one column declaration per turn *)
(* of its loop, and rec2raw and raw2rec (table/parser.cpp). A row is its   *)
(* columns side by side, 4 or 8 bytes each, a string being represented by  *)
(* its place and its length; the strings follow in the order of columns.   *)
(*                                                                         *)
(* A byte is known by where it comes from: the k-th of a value, or of a    *)
(* number that the layout itself needs.                                    *)
(***************************************************************************)
EXTENDS Integers, Sequences, FiniteSets

CONSTANTS Word,        \* bytes of an INT: 4
          MaxColumns,  \* bound: columns declared
          MaxLen       \* bound: bytes of a string, with its NUL

ASSUME RowLayoutAssumption ==
  Word \in Nat \ {0} /\ MaxColumns \in Nat /\ MaxLen \in Nat \ {0}

\* "text" is char and varchar, "small" are smallint, tinyint and boolean.
Types == {"int", "small", "bigint", "double", "text", "unknown"}
KeyTypes == {"int", "bigint"}
KeyWords == {"", "primary", "key"}

VARIABLES
  open,         \* the constructor has returned
  id,           \* its local: the id of the next column
  columns,      \* [name, type]; the name is the number of the declaration
  offset,       \* bytes of a row before the strings
  has_primary,
  primary_key,  \* the column id of the primary key
  declared      \* ghost: what SQLite was told, [type, key]

layoutVars == <<open, id, columns, offset, has_primary, primary_key, declared>>

Hidden == 0   \* the name of the column that no one declared

TypeSize(t) == IF t \in {"int", "small"} THEN Word ELSE 2 * Word

LayoutInit ==
  /\ open = FALSE
  /\ id = 0 /\ columns = <<>> /\ offset = 0
  /\ has_primary = FALSE /\ primary_key = 0
  /\ declared = <<>>

Emplaced(name, t) ==
  /\ columns' = Append(columns, [name |-> name, type |-> t])
  /\ offset' = offset + TypeSize(t)

\* A key clause that the constructor passes over with `continue`.
Refused(t, key) ==
  \/ key = "primary" /\ (has_primary \/ t \notin KeyTypes)
  \/ key = "key" /\ t = "text"

\* Variant: the id is taken before the column is known.
SkipTakesId == id' = id + 1 /\ UNCHANGED <<columns, offset, has_primary, primary_key>>
Skip == UNCHANGED <<id, columns, offset, has_primary, primary_key>>

\* One turn of the loop. A column of unknown type is left out, although
\* SQLite has it; one whose key clause is refused stays, but keeps its id
\* for the next.
Declare(t, key) ==
  /\ ~open /\ Len(declared) < MaxColumns
  /\ declared' = Append(declared, [type |-> t, key |-> key])
  /\ \/ t = "unknown" /\ Skip
     \/ /\ t # "unknown"
        /\ Emplaced(Len(declared'), t)
        /\ id' = IF Refused(t, key) THEN id ELSE id + 1
        /\ IF key = "primary" /\ ~Refused(t, key)
           THEN has_primary' = TRUE /\ primary_key' = id
           ELSE UNCHANGED <<has_primary, primary_key>>
  /\ UNCHANGED open

\* Without a primary key, a hidden column goes behind the last one.
EndDeclare ==
  /\ ~open /\ declared # <<>>
  /\ open' = TRUE
  /\ IF has_primary THEN UNCHANGED <<columns, offset, primary_key>>
     ELSE Emplaced(Hidden, "bigint") /\ primary_key' = id
  /\ UNCHANGED <<id, has_primary, declared>>
\* The loop and what follows it.
Construct == (\E t \in Types, key \in KeyWords : Declare(t, key)) \/ EndDeclare
-----------------------------------------------------------------------------
\* Rows. The strings of a row are given by their lengths.

Column == 1 .. Len(columns)
Texts == {i \in Column : columns[i].type = "text"}
Lengths == [Texts -> 1 .. MaxLen]

ValueBytes(row, i, n) == [k \in 1 .. n |-> <<"value", row, i, k>>]
NumberBytes(n) == [k \in 1 .. Word |-> <<"number", n, 0, k>>]
Garbage == <<"garbage", 0, 0, 0>>

\* What the first n of some sizes come to, for every n.
Sums(size) ==
  LET sum[n \in {0} \cup DOMAIN size] == IF n = 0 THEN 0 ELSE sum[n - 1] + size[n]
  IN  sum

\* cur_offset at column i.
FixedSizes == [j \in Column |-> TypeSize(columns[j].type)]
FixedAt(i) == Sums(FixedSizes)[i - 1]

\* Where vtab_update puts the string of column i (make_var_ptr), and where
\* it ends up after the last column: the bytes of the row.
TextSizes(lens) == [j \in Column |-> IF j \in Texts THEN lens[j] ELSE 0]
StringAt(lens, i) == offset + Sums(TextSizes(lens))[i - 1]

\* Variant: the strings are not counted.
raw_sizeFixed(lens) == offset
raw_size(lens) == StringAt(lens, Len(columns) + 1)

\* Bytes placed from an address on, as pairs of address and byte.
Put(at, bytes) == {<<at + k - 1, bytes[k]>> : k \in DOMAIN bytes}

rec2raw(row, lens) ==
  UNION {IF i \in Texts
         THEN Put(FixedAt(i), NumberBytes(StringAt(lens, i)))
                \cup Put(FixedAt(i) + Word, NumberBytes(lens[i]))
                \cup Put(StringAt(lens, i), ValueBytes(row, i, lens[i]))
         ELSE Put(FixedAt(i), ValueBytes(row, i, TypeSize(columns[i].type)))
           : i \in Column}

\* The byte at an address: garbage unless exactly one was put there.
ByteAt(raw, at) ==
  LET here == {c \in raw : c[1] = at}
  IN  IF \E c \in here : here = {c} THEN (CHOOSE c \in here : TRUE)[2] ELSE Garbage

ReadBytes(raw, at, n) == [k \in 1 .. n |-> ByteAt(raw, at + k - 1)]
ReadLength(raw, i) == ByteAt(raw, FixedAt(i) + Word)[2]

\* raw2rec: column i. The place stored with a string is not used; it follows
\* from the lengths of those before.
raw2rec(raw, i) ==
  IF i \in Texts
  THEN ReadBytes(raw, StringAt([j \in Texts |-> ReadLength(raw, j)], i),
                 ReadLength(raw, i))
  ELSE ReadBytes(raw, FixedAt(i), TypeSize(columns[i].type))

\* What vtab_column gives SQLite: decode() hands every kind of value on as it
\* is, but a DOUBLE through sqlite3_result_int, which takes an int.
IntegerPart(bytes) == [k \in DOMAIN bytes |-> <<"integer part of", bytes, 0, k>>]

decode(raw, i) ==
  IF columns[i].type = "double" THEN IntegerPart(raw2rec(raw, i)) ELSE raw2rec(raw, i)
-----------------------------------------------------------------------------
\* Every variable has its type.
LayoutTypeOK ==
  /\ open \in BOOLEAN /\ has_primary \in BOOLEAN
  /\ id \in 0 .. MaxColumns /\ primary_key \in 0 .. MaxColumns
  /\ columns \in Seq([name : 0 .. MaxColumns, type : Types \ {"unknown"}])
  /\ offset \in Nat
  /\ declared \in Seq([type : Types, key : KeyWords])

\* No key clause was refused: one primary key at most, of an integer type,
\* and no string as a key.
AllAccepted ==
  \A d \in DOMAIN declared :
    /\ declared[d].key = "primary" =>
         /\ declared[d].type \in KeyTypes
         /\ \A e \in DOMAIN declared \ {d} : declared[e].key # "primary"
    /\ declared[d].key = "key" => declared[d].type # "text"

\* SQLite's number of the column whose value vtab_update takes, with
\* argv[i + 2], for column i of the schema.
TakenFrom(i) == i

\* As long as no key clause was refused, the schema's primary key is the integer
\* column that was declared so, or the hidden one behind all others; and the
\* value vtab_update takes for a declared one is that of this column exactly if
\* no column of unknown type stands before it: the schema leaves such a column
\* out, SQLite does not, and the key is then the value of another column.
KeyColumnIsPrimary ==
  open /\ AllAccepted =>
    LET key == columns[primary_key + 1]
    IN  /\ primary_key < Len(columns)
        /\ key.type \in KeyTypes
        /\ IF has_primary
           THEN /\ declared[key.name].key = "primary"
                /\ TakenFrom(primary_key + 1) = key.name
                     <=> \A d \in 1 .. key.name - 1 : declared[d].type # "unknown"
           ELSE key.name = Hidden /\ primary_key + 1 = Len(columns)

\* The comment in schema.cpp (lines 58-60): if there is no primary key, the
\* hidden column behind the last one is it, and no id has to be changed.
HiddenIsPrimary ==
  open /\ ~has_primary => primary_key + 1 = Len(columns)

\* vtab_column and vtab_update use SQLite's column numbers for the schema's:
\* the columns are those that vtab_create declared to SQLite.
ColumnsAreSQLites ==
  open => \A d \in DOMAIN declared : d <= Len(columns) /\ columns[d].name = TakenFrom(d)
=============================================================================
