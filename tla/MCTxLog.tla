------------------------------ MODULE MCTxLog ------------------------------
(* Instances of TxLog for TLC.                                              *)
EXTENDS TxLog, TLC

\* The index pages are interchangeable.
PageSymmetry == Permutations(IndexPages)

\* Where `taint` voids the promises, what follows is explored only while the
\* log is short.
KeepsToPromises == taint # {} => Len(log) + stops = 0

\* The same, with what a commit that crashed leaves in the log.
OrKeepsOrphans == taint \subseteq {"orphan REDO"}
=============================================================================
