----------------------------- MODULE MCRowStore -----------------------------
(* RowStore for TLC: an INT has one byte, pages have 18, slots one.         *)
EXTENDS RowStore

\* From a row of one INT to the longest of three strings and a hidden key.
RowSizes == Word .. 8 * Word + 3 * MaxLen
=============================================================================
