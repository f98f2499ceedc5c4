----------------------------- MODULE MCKeySearch -----------------------------
(* KeySearch for TLC: every ascending page of up to MaxCnt keys.             *)
EXTENDS KeySearch

MCKeys == 0 .. 5
=============================================================================
