---------------------------- MODULE MCBufferPool ----------------------------
(* Instances of BufferPool for TLC.                                         *)
EXTENDS BufferPool

\* Page 1 is the root leaf, page 2 the first record page, as in a new table.
MCTwoClasses == [p \in PageIds |-> IF p = 2 THEN "rec_page" ELSE "bplus_page"]
=============================================================================
