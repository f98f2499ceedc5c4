---------------------------- MODULE MCStatements ----------------------------
(* Statements for TLC: an INT has two bits.                                  *)
EXTENDS Statements, TLC

MCMinKey == -Half
MCMaxKey == 2 * Half - 1

\* Every integer, the fractions around some, one text and NULL.
MCArgs ==
  [int : MCMinKey .. MCMaxKey, rest : {"none"}]
    \cup [int : {0, 1, MCMaxKey}, rest : {"above"}]
    \cup [int : {0, -1, MCMinKey}, rest : {"below"}]
    \cup [int : {0}, rest : {"text", "null"}]

\* Which keys a scan visits does not depend on the rows: statements with
\* several terms meet an empty table, those with one every table; with three
\* terms the arguments are integers.
TermsAlone ==
  /\ Len(idxStr) > 1 => \A k \in IndexKeys : rows[k] = Missing
  /\ Len(idxStr) > 2 => \A t \in asked : t[2].rest = "none"

\* The other columns are interchangeable.
Symmetry == Permutations(Data)
=============================================================================
