----------------------------- MODULE PageStore -----------------------------
(***************************************************************************)
(* What the page cache promises its callers: a store of pages that never   *)
(* forgets and in which an access to one page changes no other. Nothing of *)
(* slots, eviction, dirty bits or files is visible - but for one thing: a  *)
(* page may be garbled, in an object that is not of its class, and what is *)
(* then read from or stored in this page may be anything.                  *)
(***************************************************************************)
EXTENDS Naturals

CONSTANTS MaxPage,   \* largest page id that is handed out
          Data       \* page contents

VARIABLES content,   \* content of every page, by page id
          pageCnt,   \* page_cnt of the head page: ids 1 .. pageCnt-1 exist
          ret,       \* what the last read returned, as [page, data]
          garbled    \* the pages whose object is of another class

\* Which pages are garbled is for the cache to say: the store promises nothing
\* of it, so it is not among the variables of a step.
vars == <<content, pageCnt, ret>>

PageIds == 1 .. MaxPage
Existing == 1 .. pageCnt - 1

Init ==
  /\ content \in [PageIds -> Data]
  /\ pageCnt = 1
  /\ ret = [page |-> 0, data |-> CHOOSE d \in Data : TRUE]

\* What the caller gets of p, or leaves there, when it should be d.
Seen(p, d) == IF p \in garbled' THEN Data ELSE {d}

\* A read returns what was last written to that page.
Read(p) ==
  /\ p \in Existing
  /\ \E d \in Seen(p, content[p]) : ret' = [page |-> p, data |-> d]
  /\ UNCHANGED <<content, pageCnt>>

Write(p, d) ==
  /\ p \in Existing
  /\ \E e \in Seen(p, d) : content' = [content EXCEPT ![p] = e]
  /\ UNCHANGED <<pageCnt, ret>>

\* A new page has a fresh id; nothing is promised of its body, and nothing
\* happens to any other page.
Alloc(d) ==
  /\ pageCnt \in PageIds
  /\ content' = [content EXCEPT ![pageCnt] = d]
  /\ pageCnt' = pageCnt + 1
  /\ UNCHANGED ret

Next ==
  \/ \E p \in PageIds : Read(p) \/ \E d \in Data : Write(p, d)
  \/ \E d \in Data : Alloc(d)

Spec == Init /\ [][Next]_vars
=============================================================================
