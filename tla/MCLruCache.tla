----------------------------- MODULE MCLruCache -----------------------------
(* Model checking of LruCache: six slots give all 720 recency orders.       *)
EXTENDS LruCache
=============================================================================
