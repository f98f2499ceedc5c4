------------------------------ MODULE MCVtabTx ------------------------------
(* VtabTx for TLC.                                                          *)
EXTENDS VtabTx, TLC

\* The invariants speak of states before such a commit only.
AllBegun == ~bare

Symmetry == Permutations(Conns) \cup Permutations(Tables)
=============================================================================
