------------------------------- MODULE Filter -------------------------------
(***************************************************************************)
(* From a WHERE clause to the keys a cursor visits: vtab_best_index and    *)
(* vtab_filter (api/vtable.cpp), the intervals of table/constrain.h and    *)
(* the bounds that cursor::query takes from them (table/cursor.cpp).       *)
(* SQLite plans once and may then filter many times with the same plan, as *)
(* for the inner table of a join.                                          *)
(***************************************************************************)
EXTENDS Integers, Sequences

CONSTANTS MinKey, MaxKey,   \* the machine integers pri_key_t
          Args,             \* the arguments that terms are given
          MaxTerms,         \* bound: terms on the primary key
          MaxFilters        \* bound: xFilter calls of one plan

Keys == MinKey .. MaxKey

\* An argument, by the integer that sqlite3_value_int64 makes of it: a number
\* is cut towards zero, or at the ends of the integers, and lies `above` or
\* `below` what is left; NULL becomes 0, a text the number it begins with.
Arguments ==
  {v \in [int : Keys, rest : {"none", "above", "below", "text", "null"}] :
     /\ v.rest = "above" => v.int >= 0
     /\ v.rest = "below" => v.int <= 0}

ASSUME FilterAssumption ==
  /\ MinKey \in Int /\ MaxKey \in Int /\ MinKey <= MaxKey
  /\ MaxTerms \in Nat /\ MaxFilters \in Nat
  /\ Args \subseteq Arguments

Cmps == {"EQ", "GT", "LE", "LT", "GE"}
Garbage == "garbage"   \* a byte that is none of the operators

VARIABLES
  phase,    \* "plan", "planned" (a plan is there), "filter", "scan"
  idxStr,   \* the operators best_index recorded, one per argument
  freed,    \* idxStr was deleted
  filters,  \* xFilter calls of this plan
  i,        \* arguments that filter has read
  cons,     \* the interval: [lo, hi, lo_oi, hi_oi]
  asked,    \* ghost: terms and arguments of this call, as <<op, v>>
  scan      \* the keys that query() visits

plan == <<idxStr, freed, filters>>
filterVars == <<phase, plan, i, cons, asked, scan>>
-----------------------------------------------------------------------------
\* constrain<T>

Intervals == [lo : Keys, hi : Keys, lo_oi : BOOLEAN, hi_oi : BOOLEAN]

Everything == [lo |-> MinKey, hi |-> MaxKey, lo_oi |-> FALSE, hi_oi |-> FALSE]

\* constrain(op, v); an operator that is not known leaves everything valid.
Constrain(op, v) ==
  [lo |-> IF op \in {"EQ", "GE", "GT"} THEN v ELSE MinKey,
   hi |-> IF op \in {"EQ", "LE", "LT"} THEN v ELSE MaxKey,
   lo_oi |-> op = "GT",
   hi_oi |-> op = "LT"]

\* operator &: the inner end of each side; equal ends are open if one is.
Both(a, b) ==
  [lo |-> IF a.lo >= b.lo THEN a.lo ELSE b.lo,
   hi |-> IF a.hi <= b.hi THEN a.hi ELSE b.hi,
   lo_oi |-> IF a.lo = b.lo THEN a.lo_oi \/ b.lo_oi
             ELSE IF a.lo < b.lo THEN b.lo_oi ELSE a.lo_oi,
   hi_oi |-> IF a.hi = b.hi THEN a.hi_oi \/ b.hi_oi
             ELSE IF a.hi < b.hi THEN a.hi_oi ELSE b.hi_oi]

runnableClosed(c) == c.lo <= c.hi   \* Variant: open ends are forgotten.
runnable(c) == c.lo <= c.hi /\ ~(c.lo = c.hi /\ (c.lo_oi \/ c.hi_oi))

\* The next and the previous machine integer; they wrap around.
Up(v) == IF v = MaxKey THEN MinKey ELSE v + 1
Down(v) == IF v = MinKey THEN MaxKey ELSE v - 1

\* query(): no scan at all, or from lb on until a key is beyond ub.
Visited(c) ==
  IF runnable(c)
  THEN (IF c.lo_oi THEN Up(c.lo) ELSE c.lo) .. (IF c.hi_oi THEN Down(c.hi) ELSE c.hi)
  ELSE {}
-----------------------------------------------------------------------------
FilterInit ==
  /\ phase = "plan"
  /\ idxStr = <<>> /\ freed = FALSE /\ filters = 0
  /\ i = 0 /\ cons = Everything /\ asked = {} /\ scan = {}

\* One round of the loop of best_index. Only usable terms on the primary key
\* with one of these operators are recorded; SQLite checks all others itself.
BestIndex(op) ==
  /\ phase = "plan"
  /\ Len(idxStr) < MaxTerms
  /\ idxStr' = Append(idxStr, op)
  /\ UNCHANGED <<phase, freed, filters, i, cons, asked, scan>>

EndPlan ==
  /\ phase = "plan"
  /\ phase' = "planned"
  /\ UNCHANGED <<plan, i, cons, asked, scan>>

\* xFilter with the plan; a cursor that was scanned before starts again.
StartFilter ==
  /\ phase \in {"planned", "scan"}
  /\ filters < MaxFilters
  /\ phase' = "filter"
  /\ filters' = filters + 1
  /\ i' = 0 /\ cons' = Everything /\ asked' = {} /\ scan' = {}
  /\ UNCHANGED <<idxStr, freed>>

\* What idxStr[i] reads; deleted memory holds anything.
ReadOps == IF freed THEN Cmps \cup {Garbage} ELSE {idxStr[i + 1]}

\* One round of the loop over the arguments.
FilterArg(v) ==
  /\ phase = "filter"
  /\ i < Len(idxStr)
  /\ \E op \in ReadOps : cons' = Both(cons, Constrain(op, v.int))
  /\ asked' = asked \cup {<<idxStr[i + 1], v>>}
  /\ i' = i + 1
  /\ UNCHANGED <<phase, plan, scan>>

\* set_constrain, query, rewind, delete[] idxStr.
EndFilter ==
  /\ phase = "filter"
  /\ i = Len(idxStr)
  /\ scan' = Visited(cons)
  /\ freed' = TRUE
  /\ phase' = "scan"
  /\ UNCHANGED <<idxStr, filters, i, cons, asked>>

FilterNext ==
  \/ \E op \in Cmps : BestIndex(op)
  \/ EndPlan \/ StartFilter \/ EndFilter
  \/ \E v \in Args : FilterArg(v)

FilterSpec == FilterInit /\ [][FilterNext]_filterVars
-----------------------------------------------------------------------------
\* Every variable has its type; the terms asked are of the plan.
FilterTypeOK ==
  /\ phase \in {"plan", "planned", "filter", "scan"}
  /\ idxStr \in Seq(Cmps)
  /\ freed \in BOOLEAN
  /\ filters \in Nat
  /\ i \in 0 .. Len(idxStr)
  /\ cons \in Intervals
  /\ asked \in SUBSET (Cmps \X Args)
  /\ scan \in SUBSET Keys

\* SQLite's comparison of a key with an argument, doubled to be whole: NULL
\* meets nothing, and every text is greater than every number.
Doubled(v) ==
  2 * v.int + (CASE v.rest = "above" -> 1 [] v.rest = "below" -> -1 [] OTHER -> 0)

Meets(k, op, v) ==
  CASE v.rest = "null" -> FALSE
    [] v.rest = "text" -> op \in {"LE", "LT"}
    [] OTHER -> CASE op = "EQ" -> 2 * k = Doubled(v)
                  [] op = "GT" -> 2 * k > Doubled(v)
                  [] op = "LE" -> 2 * k <= Doubled(v)
                  [] op = "LT" -> 2 * k < Doubled(v)
                  [] op = "GE" -> 2 * k >= Doubled(v)

Wanted == {k \in Keys : \A t \in asked : Meets(k, t[1], t[2])}

\* The conversion moves the bound inwards: a key next to it is lost.
Lost(op, v) ==
  \/ op = "LT" /\ v.rest = "above"
  \/ op = "GT" /\ v.rest = "below"
  \/ op \in {"LE", "LT"} /\ v.rest = "text"

\* The first scan of a plan visits every key that meets the terms on the
\* primary key, and no other if all arguments are integers: contradictory
\* terms, equal open and closed ends, fractions, NULL, and bounds at the ends
\* of the integers, where lo + 1 and hi - 1 overflow, included. What it visits
\* in excess SQLite rejects, which is not told to omit its own check. Terms
\* whose conversion loses keys are left to ScanMissesNothing.
ScanIsExact ==
  phase = "scan" /\ filters = 1 =>
    /\ (\A t \in asked : ~Lost(t[1], t[2])) => Wanted \subseteq scan
    /\ (\A t \in asked : t[2].rest = "none") => scan = Wanted

\* The comment in vtable.cpp (line 57) that "here one only finds the primary
\* key, whether it is legal is left to the application above": then the scan
\* must not miss a key that meets the terms, as id < 2.5 misses 2.
ScanMissesNothing == phase = "scan" /\ filters = 1 => Wanted \subseteq scan

\* The comment "we control it ourselves" (vtable.cpp, line 62) about idxStr,
\* whose lifetime SQLite is told to leave to the module: whoever filters has
\* a plan that was not deleted.
PlanIsAlive == phase = "filter" => ~freed
=============================================================================
