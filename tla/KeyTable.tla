------------------------------ MODULE KeyTable ------------------------------
(***************************************************************************)
(* What the index promises the table: a map from keys to record positions. *)
(* The first record added under a key stays until the key is removed.      *)
(***************************************************************************)
CONSTANTS Keys, Records,
          Missing,  \* no record under this key
          NoLast    \* nothing was called yet

VARIABLES
  content,
  last      \* the last call, so that a call that does nothing is still seen

vars == <<content, last>>

Init == content = [k \in Keys |-> Missing] /\ last = NoLast

\* Adding under a key that has a record changes nothing, and says nothing.
Add(k, rec) ==
  /\ last' = <<k, rec>>
  /\ content' = IF content[k] = Missing
                THEN [content EXCEPT ![k] = rec] ELSE content

Remove(k) ==
  /\ last' = <<k, Missing>>
  /\ content' = [content EXCEPT ![k] = Missing]

Next == \E k \in Keys : Remove(k) \/ \E rec \in Records : Add(k, rec)

Spec == Init /\ [][Next]_vars
=============================================================================
