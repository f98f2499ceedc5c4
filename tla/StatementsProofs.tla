-------------------------- MODULE StatementsProofs --------------------------
(***************************************************************************)
(* Proofs about Filter, Rows and Statements, for machine integers of any   *)
(* width, any number of terms and any bound on generated keys: the         *)
(* intervals' & is intersection, and the scan visits what is inside the    *)
(* interval although its bounds are computed with integers that wrap       *)
(* around and an argument is converted, but for the Lost keys; rows are    *)
(* found under the key that names them, and a statement finds its rows as  *)
(* its cursor copied them.                                                 *)
(***************************************************************************)
EXTENDS Statements, TLAPS

-----------------------------------------------------------------------------
\* Filter: the plan of a query and the interval that its cursor visits.

\* What an interval means.
Inside(c, k) ==
  /\ IF c.lo_oi THEN c.lo < k ELSE c.lo <= k
  /\ IF c.hi_oi THEN k < c.hi ELSE k <= c.hi

\* constrain's & keeps exactly the keys inside both operands.
LEMMA BothIsIntersection ==
  ASSUME NEW a \in Intervals, NEW b \in Intervals, NEW k \in Keys
  PROVE  /\ Both(a, b) \in Intervals
         /\ Inside(Both(a, b), k) <=> Inside(a, k) /\ Inside(b, k)
<1>1. MinKey \in Int /\ MaxKey \in Int
  BY FilterAssumption
<1>2. /\ a.lo \in Int /\ a.hi \in Int /\ b.lo \in Int /\ b.hi \in Int /\ k \in Int
      /\ a.lo_oi \in BOOLEAN /\ a.hi_oi \in BOOLEAN
      /\ b.lo_oi \in BOOLEAN /\ b.hi_oi \in BOOLEAN
  BY <1>1 DEF Intervals, Keys
<1>3. Both(a, b) \in Intervals
  BY DEF Both, Intervals
<1>4. (IF Both(a, b).lo_oi THEN Both(a, b).lo < k ELSE Both(a, b).lo <= k)
        <=> /\ IF a.lo_oi THEN a.lo < k ELSE a.lo <= k
            /\ IF b.lo_oi THEN b.lo < k ELSE b.lo <= k
  BY <1>2 DEF Both
<1>5. (IF Both(a, b).hi_oi THEN k < Both(a, b).hi ELSE k <= Both(a, b).hi)
        <=> /\ IF a.hi_oi THEN k < a.hi ELSE k <= a.hi
            /\ IF b.hi_oi THEN k < b.hi ELSE k <= b.hi
  BY <1>2 DEF Both
<1> QED
  BY <1>3, <1>4, <1>5 DEF Inside

\* What the code makes of an argument, as if it had been an integer.
Whole(v) == [v EXCEPT !.rest = "none"]

LEMMA WholeMeets ==
  ASSUME NEW v \in Arguments, NEW k \in Keys
  PROVE  /\ Meets(k, "EQ", Whole(v)) <=> k = v.int
         /\ Meets(k, "GT", Whole(v)) <=> k > v.int
         /\ Meets(k, "LE", Whole(v)) <=> k <= v.int
         /\ Meets(k, "LT", Whole(v)) <=> k < v.int
         /\ Meets(k, "GE", Whole(v)) <=> k >= v.int
<1>1. v.int \in Int /\ k \in Int
  BY FilterAssumption DEF Arguments, Keys
<1>2. Whole(v).rest = "none" /\ Whole(v).int = v.int
  BY DEF Arguments, Whole
<1>3. Doubled(Whole(v)) = 2 * v.int
  BY <1>1, <1>2 DEF Doubled
<1> HIDE DEF Whole
<1> QED
  BY <1>1, <1>2, <1>3 DEF Meets

\* One term's interval holds the keys that meet the term as converted.
LEMMA ConstrainMeansTerm ==
  ASSUME NEW op \in Cmps, NEW v \in Arguments, NEW k \in Keys
  PROVE  Inside(Constrain(op, v.int), k) <=> Meets(k, op, Whole(v))
<1>1. /\ MinKey \in Int /\ MaxKey \in Int
      /\ v.int \in Int /\ MinKey <= v.int /\ v.int <= MaxKey
      /\ k \in Int /\ MinKey <= k /\ k <= MaxKey
  BY FilterAssumption DEF Keys, Arguments
<1>2. CASE op = "EQ"
  <2>1. Inside(Constrain(op, v.int), k) <=> v.int <= k /\ k <= v.int
    BY <1>2 DEF Constrain, Inside
  <2>2. v.int <= k /\ k <= v.int <=> k = v.int
    BY <1>1
  <2> QED
    BY <1>2, <2>1, <2>2, WholeMeets
<1>3. CASE op = "GT"
  BY <1>1, <1>3, WholeMeets DEF Constrain, Inside
<1>4. CASE op = "LE"
  BY <1>1, <1>4, WholeMeets DEF Constrain, Inside
<1>5. CASE op = "LT"
  BY <1>1, <1>5, WholeMeets DEF Constrain, Inside
<1>6. CASE op = "GE"
  BY <1>1, <1>6, WholeMeets DEF Constrain, Inside
<1> QED
  BY <1>2, <1>3, <1>4, <1>5, <1>6 DEF Cmps

\* A term that is not one of the Lost keeps, when converted, every key.
LEMMA ConversionKeeps ==
  ASSUME NEW op \in Cmps, NEW v \in Arguments, NEW k \in Keys, ~Lost(op, v),
         Meets(k, op, v)
  PROVE  Meets(k, op, Whole(v))
<1>1. v.int \in Int /\ k \in Int
  BY FilterAssumption DEF Arguments, Keys
<1>2. CASE v.rest = "none"
  <2>1. Whole(v) = v
    BY <1>2 DEF Whole, Arguments
  <2> QED
    BY <2>1
<1> DEFINE d == Doubled(v)
<1>3. CASE v.rest = "above"
  <2>1. d = 2 * v.int + 1 /\ op # "LT"
    BY <1>3 DEF Doubled, Lost
  <2>2. op = "EQ" => 2 * k = d
    BY <1>3 DEF Meets
  <2>3. op = "GT" => 2 * k > d
    BY <1>3 DEF Meets
  <2>4. op = "LE" => 2 * k <= d
    BY <1>3 DEF Meets
  <2>5. op = "GE" => 2 * k >= d
    BY <1>3 DEF Meets
  <2> HIDE DEF d
  <2>6. /\ op = "EQ" => k = v.int
        /\ op = "GT" => k > v.int
        /\ op = "LE" => k <= v.int
        /\ op = "GE" => k >= v.int
    BY <1>1, <2>1, <2>2, <2>3, <2>4, <2>5
  <2> QED
    BY <2>1, <2>6, WholeMeets DEF Cmps
<1>4. CASE v.rest = "below"
  <2>1. d = 2 * v.int - 1 /\ op # "GT"
    BY <1>1, <1>4 DEF Doubled, Lost
  <2>2. op = "EQ" => 2 * k = d
    BY <1>4 DEF Meets
  <2>3. op = "LT" => 2 * k < d
    BY <1>4 DEF Meets
  <2>4. op = "LE" => 2 * k <= d
    BY <1>4 DEF Meets
  <2>5. op = "GE" => 2 * k >= d
    BY <1>4 DEF Meets
  <2> HIDE DEF d
  <2>6. /\ op = "EQ" => k = v.int
        /\ op = "LT" => k < v.int
        /\ op = "LE" => k <= v.int
        /\ op = "GE" => k >= v.int
    BY <1>1, <2>1, <2>2, <2>3, <2>4, <2>5
  <2> QED
    BY <2>1, <2>6, WholeMeets DEF Cmps
<1>5. CASE v.rest \in {"text", "null"}
  BY <1>5 DEF Meets, Lost
<1> QED
  BY <1>2, <1>3, <1>4, <1>5 DEF Arguments

\* An operator of any kind, known or not, makes an interval.
LEMMA ConstrainType ==
  ASSUME NEW op, NEW v \in Keys
  PROVE  Constrain(op, v) \in Intervals
BY FilterAssumption DEF Constrain, Intervals, Keys

\* query() visits the keys inside the interval: where lo + 1 or hi - 1 would
\* wrap around, runnable() has said no before.
LEMMA VisitedIsInside ==
  ASSUME NEW c \in Intervals
  PROVE  Visited(c) = {k \in Keys : Inside(c, k)}
<1>1. /\ MinKey \in Int /\ MaxKey \in Int
      /\ c.lo \in Int /\ MinKey <= c.lo /\ c.lo <= MaxKey
      /\ c.hi \in Int /\ MinKey <= c.hi /\ c.hi <= MaxKey
      /\ c.lo_oi \in BOOLEAN /\ c.hi_oi \in BOOLEAN
  BY FilterAssumption DEF Intervals, Keys
<1>2. CASE ~runnable(c)
  <2>1. \A k \in Keys : ~Inside(c, k)
    BY <1>1, <1>2 DEF runnable, Inside, Keys
  <2> QED
    BY <1>2, <2>1 DEF Visited
<1>3. CASE runnable(c)
  <2>1. c.lo <= c.hi
    BY <1>3 DEF runnable
  <2>2. c.lo_oi => Up(c.lo) = c.lo + 1
    BY <1>1, <1>3, <2>1 DEF runnable, Up
  <2>3. c.hi_oi => Down(c.hi) = c.hi - 1
    BY <1>1, <1>3, <2>1 DEF runnable, Down
  <2>4. \A k : k \in Visited(c) <=> k \in Keys /\ Inside(c, k)
    BY <1>1, <1>3, <2>1, <2>2, <2>3 DEF Visited, Inside, Keys
  <2> QED
    BY <2>4
<1> QED
  BY <1>2, <1>3
-----------------------------------------------------------------------------
\* The keys that meet all terms as converted.
Converted == {k \in Keys : \A t \in asked : Meets(k, t[1], Whole(t[2]))}

LEMMA ConvertedCovers ==
  ASSUME FilterTypeOK
  PROVE  /\ (\A t \in asked : ~Lost(t[1], t[2])) => Wanted \subseteq Converted
         /\ (\A t \in asked : t[2].rest = "none") => Wanted = Converted
<1>1. \A t \in asked : t[1] \in Cmps /\ t[2] \in Arguments
  BY FilterAssumption DEF FilterTypeOK
<1>2. ASSUME \A t \in asked : ~Lost(t[1], t[2])
      PROVE  Wanted \subseteq Converted
  BY <1>1, <1>2, ConversionKeeps DEF Wanted, Converted
<1>3. ASSUME \A t \in asked : t[2].rest = "none"
      PROVE  Wanted = Converted
  <2>1. \A t \in asked : Whole(t[2]) = t[2]
    BY <1>1, <1>3 DEF Whole, Arguments
  <2> QED
    BY <2>1 DEF Wanted, Converted
<1> QED
  BY <1>2, <1>3

\* Where an xFilter call stands: the plan is alive until the first call ends,
\* and the interval means the arguments read so far.
Progress ==
  /\ phase \in {"plan", "planned"} => filters = 0
  /\ filters = 0 => phase \in {"plan", "planned"} /\ ~freed
  /\ filters = 1 /\ phase = "filter" =>
       ~freed /\ \A k \in Keys : Inside(cons, k) <=> k \in Converted
  /\ filters = 1 /\ phase = "scan" => scan = Converted

FInv == FilterTypeOK /\ Progress

LEMMA InitInv == FilterInit => FInv
<1> SUFFICES ASSUME FilterInit PROVE FInv
  OBVIOUS
<1>1. FilterTypeOK
  <2>1. Everything \in Intervals
    BY FilterAssumption DEF Everything, Intervals, Keys
  <2>2. idxStr \in Seq(Cmps) /\ i \in 0 .. Len(idxStr)
    BY DEF FilterInit
  <2> QED
    BY <2>1, <2>2 DEF FilterInit, FilterTypeOK
<1>2. Progress
  BY DEF FilterInit, Progress
<1> QED
  BY <1>1, <1>2 DEF FInv

LEMMA TypeStep ==
  ASSUME FilterTypeOK, [FilterNext]_filterVars
  PROVE  FilterTypeOK'
<1> USE DEF FilterTypeOK
<1>1. CASE \E op \in Cmps : BestIndex(op)
  BY <1>1 DEF BestIndex
<1>2. CASE EndPlan
  BY <1>2 DEF EndPlan, plan
<1>3. CASE StartFilter
  BY <1>3, FilterAssumption DEF StartFilter, Everything, Intervals, Keys
<1>4. CASE EndFilter
  <2>1. Visited(cons) \in SUBSET Keys
    BY VisitedIsInside
  <2> QED
    BY <1>4, <2>1 DEF EndFilter
<1>5. CASE \E v \in Args : FilterArg(v)
  <2>1. PICK v \in Args : FilterArg(v)
    BY <1>5
  <2>2. PICK op \in ReadOps : cons' = Both(cons, Constrain(op, v.int))
    BY <2>1 DEF FilterArg
  <2>3. cons' \in Intervals
    <3>1. Constrain(op, v.int) \in Intervals
      BY ConstrainType, FilterAssumption DEF Arguments
    <3>2. MinKey \in Keys
      BY FilterAssumption DEF Keys
    <3> QED
      BY <2>2, <3>1, <3>2, BothIsIntersection
  <2>4. idxStr[i + 1] \in Cmps
    BY <2>1 DEF FilterArg
  <2> QED
    BY <2>1, <2>3, <2>4 DEF FilterArg, plan
<1>6. CASE UNCHANGED filterVars
  BY <1>6 DEF filterVars, plan
<1> QED
  BY <1>1, <1>2, <1>3, <1>4, <1>5, <1>6 DEF FilterNext

LEMMA ProgressStep ==
  ASSUME FInv, [FilterNext]_filterVars
  PROVE  Progress'
<1> USE DEF FInv, FilterTypeOK, Progress
<1>1. CASE \E op \in Cmps : BestIndex(op)
  BY <1>1 DEF BestIndex
<1>2. CASE EndPlan
  BY <1>2 DEF EndPlan, plan
<1>3. CASE StartFilter
  <2>1. \A k \in Keys : Inside(Everything, k)
    BY FilterAssumption DEF Inside, Everything, Keys
  <2>2. filters' = filters + 1 /\ phase' = "filter" /\ freed' = freed
    BY <1>3 DEF StartFilter
  <2>3. cons' = Everything /\ Converted' = Keys
    BY <1>3 DEF StartFilter, Converted
  <2> QED
    BY <2>1, <2>2, <2>3
<1>4. CASE EndFilter
  <2>1. filters' = filters /\ phase' = "scan" /\ phase = "filter"
    BY <1>4 DEF EndFilter
  <2>2. scan' = {k \in Keys : Inside(cons, k)}
    BY <1>4, VisitedIsInside DEF EndFilter
  <2>3. Converted' = Converted
    BY <1>4 DEF EndFilter, Converted
  <2>4. Converted \subseteq Keys
    BY DEF Converted
  <2>5. filters = 1 => scan' = Converted
    BY <2>1, <2>2, <2>4
  <2> QED
    BY <2>1, <2>3, <2>5
<1>5. CASE \E v \in Args : FilterArg(v)
  <2>1. PICK v \in Args : FilterArg(v)
    BY <1>5
  <2>2. /\ filters' = filters /\ phase' = "filter" /\ phase = "filter"
        /\ freed' = freed /\ asked' = asked \cup {<<idxStr[i + 1], v>>}
        /\ idxStr[i + 1] \in Cmps /\ v \in Arguments /\ v.int \in Keys
    BY <2>1, FilterAssumption DEF FilterArg, plan, Arguments
  <2>3. ASSUME filters = 1
        PROVE  \A k \in Keys : Inside(cons, k)' <=> k \in Converted'
    <3>1. ~freed /\ ReadOps = {idxStr[i + 1]}
      BY <2>2, <2>3 DEF ReadOps
    <3>2. cons' = Both(cons, Constrain(idxStr[i + 1], v.int))
      BY <2>1, <3>1 DEF FilterArg
    <3>3. TAKE k \in Keys
    <3>4. Constrain(idxStr[i + 1], v.int) \in Intervals
      BY <2>2, ConstrainType
    <3>5. Inside(cons, k)' <=> Inside(cons, k) /\ Meets(k, idxStr[i + 1], Whole(v))
      <4>1. Inside(cons', k) <=> Inside(cons, k) /\ Inside(Constrain(idxStr[i + 1], v.int), k)
        BY <3>2, <3>4, BothIsIntersection
      <4>2. Inside(Constrain(idxStr[i + 1], v.int), k) <=> Meets(k, idxStr[i + 1], Whole(v))
        BY <2>2, ConstrainMeansTerm
      <4> QED
        <5>1. Inside(cons, k)' <=> Inside(cons', k)
          BY DEF Inside
        <5> QED
          BY <4>1, <4>2, <5>1
    <3>6. k \in Converted' <=> k \in Converted /\ Meets(k, idxStr[i + 1], Whole(v))
      <4> DEFINE t0 == <<idxStr[i + 1], v>>
      <4>1. t0[1] = idxStr[i + 1] /\ t0[2] = v
        OBVIOUS
      <4>2. asked' = asked \cup {t0}
        BY <2>2
      <4> HIDE DEF t0
      <4>3. (\A t \in asked' : Meets(k, t[1], Whole(t[2])))
              <=> (\A t \in asked : Meets(k, t[1], Whole(t[2]))) /\ Meets(k, t0[1], Whole(t0[2]))
        BY <4>2
      <4> QED
        BY <4>1, <4>3 DEF Converted
    <3>7. Inside(cons, k) <=> k \in Converted
      BY <2>2, <2>3
    <3> QED
      BY <3>5, <3>6, <3>7
  <2> QED
    BY <2>2, <2>3
<1>6. CASE UNCHANGED filterVars
  <2>1. Converted' = Converted
    BY <1>6 DEF filterVars, Converted
  <2> QED
    BY <1>6, <2>1 DEF filterVars, plan
<1> QED
  BY <1>1, <1>2, <1>3, <1>4, <1>5, <1>6 DEF FilterNext

\* Plans, positions and intervals are typed, whatever a deleted plan reads.
THEOREM FilterTypeCorrect == FilterSpec => []FilterTypeOK
<1>1. FilterInit => FilterTypeOK
  BY InitInv DEF FInv
<1>2. FilterTypeOK /\ [FilterNext]_filterVars => FilterTypeOK'
  BY TypeStep
<1> QED
  BY <1>1, <1>2, PTL DEF FilterSpec

\* For every key type and any number of terms: the first scan of a plan visits
\* all keys that meet the terms, unless the conversion of one of the arguments
\* loses keys, and exactly those if all arguments are integers.
THEOREM ScanVisitsTheWanted == FilterSpec => []ScanIsExact
<1>1. FilterInit => FInv
  BY InitInv
<1>2. FInv /\ [FilterNext]_filterVars => FInv'
  BY TypeStep, ProgressStep DEF FInv
<1>3. FInv => ScanIsExact
  BY ConvertedCovers DEF FInv, Progress, ScanIsExact
<1> QED
  BY <1>1, <1>2, <1>3, PTL DEF FilterSpec
-----------------------------------------------------------------------------
\* Rows and Statements.

PrimaryKeys == Declared \cup (0 .. MaxGen)

IInv == TypeOK /\ RowidNamesRow

LEMMA Widths ==
  /\ Half \in Nat /\ MaxGen \in Nat
  /\ Declared \subseteq Int /\ IndexKeys \subseteq Int
  /\ \A v \in Int : v \in Declared <=> -Half <= v /\ v <= Half - 1
  /\ \A v \in Int : v \in IndexKeys <=> -Half <= v /\ v <= 2 * Half - 1
  /\ 1 <= Half /\ MaxGen < 2 * Half
BY RowsAssumption DEF Declared, IndexKeys

\* The zero-extension of a 32-bit key is a key of the index.
LEMMA i64Type ==
  ASSUME NEW pk \in PrimaryKeys
  PROVE  i64(pk) \in IndexKeys
<1>1. pk \in Int /\ -Half <= pk /\ pk < 2 * Half
  <2>1. CASE pk \in Declared
    BY <2>1, Widths
  <2>2. CASE pk \in 0 .. MaxGen
    BY <2>2, Widths
  <2> QED BY <2>1, <2>2 DEF PrimaryKeys
<1>2. CASE kind = "int" /\ pk < 0
  <2>1. i64(pk) = pk + 2 * Half
    BY <1>2 DEF i64
  <2> QED BY <1>1, <1>2, <2>1, Widths
<1>3. CASE ~(kind = "int" /\ pk < 0)
  <2>1. i64(pk) = pk
    BY <1>3 DEF i64
  <2> QED BY <1>1, <2>1, Widths
<1> QED BY <1>2, <1>3

\* The tables that the index may hold: well-typed, and every record under its
\* own key.
Keyed(r) ==
  /\ r \in [IndexKeys -> Records \cup {Missing}]
  /\ \A k \in IndexKeys : r[k] # Missing => r[k] \in Records /\ i64(r[k].pk) = k

LEMMA KeyedRows ==
  ASSUME TypeOK, RowidNamesRow
  PROVE  Keyed(rows)
BY DEF TypeOK, RowidNamesRow, Present, rowid, Keyed

LEMMA RemovedKeyed ==
  ASSUME NEW r, Keyed(r), NEW k \in IndexKeys
  PROVE  Keyed(Removed(r, k))
BY DEF Keyed, Removed

LEMMA AddedKeyed ==
  ASSUME NEW r, Keyed(r), NEW pk \in PrimaryKeys, NEW d \in Data
  PROVE  Keyed(Added(r, i64(pk), [pk |-> pk, data |-> d]))
<1> DEFINE rec == [pk |-> pk, data |-> d]
<1>1. i64(pk) \in IndexKeys
  BY i64Type
<1>2. rec \in Records /\ rec.pk = pk
  BY DEF Records, PrimaryKeys
<1> HIDE DEF rec
<1>3. CASE r[i64(pk)] = Missing
  <2>1. Added(r, i64(pk), rec) = [r EXCEPT ![i64(pk)] = rec]
    BY <1>3 DEF Added
  <2> QED BY <1>1, <1>2, <2>1 DEF Keyed, rec
<1>4. CASE r[i64(pk)] # Missing
  <2>1. Added(r, i64(pk), rec) = r
    BY <1>4 DEF Added
  <2> QED BY <2>1 DEF rec
<1> QED BY <1>3, <1>4

LEMMA NewKeyType ==
  ASSUME TypeOK, NEW v \in Declared
  PROVE  NewKey(v) \in PrimaryKeys
BY DEF NewKey, TypeOK, PrimaryKeys

LEMMA InvInit == Init => IInv
<1> SUFFICES ASSUME Init PROVE IInv
  OBVIOUS
<1>1. gen \in 0 .. MaxGen
  BY Widths DEF Init
<1>2. rows \in [IndexKeys -> Records \cup {Missing}] /\ Present = {}
  BY DEF Init, Present
<1> QED BY <1>1, <1>2 DEF Init, IInv, TypeOK, RowidNamesRow

\* What Generated does to the generator.
LEMMA GeneratedNext ==
  ASSUME TypeOK, Generated
  PROVE  /\ gen' \in 0 .. MaxGen
         /\ kind = "hidden" => gen' = gen + 1
BY Widths DEF TypeOK, Generated

\* A record is added, to the table or to what Update left of it.
LEMMA AddPreserves ==
  ASSUME IInv, NEW r, Keyed(r), NEW v \in Declared, NEW d \in Data,
         rows' = Added(r, i64(NewKey(v)), [pk |-> NewKey(v), data |-> d]),
         Generated, UNCHANGED kind
  PROVE  IInv'
<1>1. NewKey(v) \in PrimaryKeys
  BY NewKeyType DEF IInv
<1>2. Keyed(rows')
  BY <1>1, AddedKeyed
<1>3. TypeOK'
  BY <1>2, GeneratedNext DEF IInv, TypeOK, Keyed
<1>4. RowidNamesRow'
  <2> SUFFICES ASSUME NEW k \in IndexKeys, rows'[k] # Missing
               PROVE  rowid(k)' = k
    BY DEF RowidNamesRow, Present
  <2>1. i64(rows'[k].pk) = k
    BY <1>2 DEF Keyed
  <2>2. kind' = kind
    OBVIOUS
  <2> QED BY <2>1, <2>2 DEF rowid, i64
<1> QED BY <1>3, <1>4 DEF IInv

\* The row that Delete and Update remove is the one they name.
LEMMA RemovePreserves ==
  ASSUME IInv, NEW k \in Present
  PROVE  /\ rowid(k) = k /\ k \in IndexKeys
         /\ Keyed(Removed(rows, rowid(k)))
<1>1. rowid(k) = k /\ k \in IndexKeys
  BY DEF IInv, RowidNamesRow, Present
<1>2. Keyed(rows)
  BY KeyedRows DEF IInv
<1>3. Keyed(Removed(rows, k))
  BY <1>1, <1>2, RemovedKeyed
<1> QED BY <1>1, <1>3

LEMMA InvNext == IInv /\ [Next]_vars => IInv'
<1> SUFFICES ASSUME IInv, [Next]_vars PROVE IInv'
  OBVIOUS
<1>1. CASE UNCHANGED vars
  BY <1>1 DEF vars, IInv, TypeOK, RowidNamesRow, Present,
              rowid, i64
<1>2. ASSUME NEW v \in Declared, NEW d \in Data, Insert(v, d)
      PROVE  IInv'
  <2>1. Keyed(rows)
    BY KeyedRows DEF IInv
  <2> QED BY <1>2, <2>1, AddPreserves DEF Insert
<1>3. ASSUME NEW k \in IndexKeys, Delete(k)
      PROVE  IInv'
  <2>1. k \in Present /\ rows' = Removed(rows, rowid(k))
        /\ UNCHANGED <<kind, gen>>
    BY <1>3 DEF Delete
  <2>2. Keyed(rows')
    BY <2>1, RemovePreserves
  <2>3. TypeOK'
    BY <2>1, <2>2 DEF Keyed, IInv, TypeOK
  <2>4. RowidNamesRow'
    BY <2>1, <2>2 DEF Keyed, RowidNamesRow, Present, rowid, i64
  <2> QED BY <2>3, <2>4 DEF IInv
<1>4. ASSUME NEW k \in IndexKeys, NEW v \in Declared, NEW d \in Data,
             Update(k, v, d)
      PROVE  IInv'
  <2>1. k \in Present
    BY <1>4 DEF Update
  <2> DEFINE r == Removed(rows, rowid(k))
  <2>2. Keyed(r)
    BY <2>1, RemovePreserves
  <2>3. /\ rows' = Added(r, i64(NewKey(v)), [pk |-> NewKey(v), data |-> d])
        /\ Generated /\ UNCHANGED kind
    BY <1>4 DEF Update
  <2> HIDE DEF r
  <2> QED BY <2>2, <2>3, AddPreserves
<1>5. CASE Reopen
  <2>1. 0 \in 0 .. MaxGen
    BY Widths
  <2> QED BY <1>5, <2>1 DEF Reopen, IInv, TypeOK, RowidNamesRow,
                            Present, rowid, i64
<1> QED BY <1>1, <1>2, <1>3, <1>4, <1>5 DEF Next

LEMMA InvAlways == Spec => []IInv
BY InvInit, InvNext, PTL DEF Spec

\* Every variable keeps its type.
THEOREM RowsTypeCorrect == Spec => []TypeOK
BY InvAlways, PTL DEF IInv

\* What a scan reports of a row is the key it is stored under, whatever the
\* width and sign of its primary key: UPDATE and DELETE hit the row they name.
THEOREM RowidIsIndexKey == Spec => []RowidNamesRow
BY InvAlways, PTL DEF IInv

\* The key column finds its row, unless it is an INT below zero.
THEOREM LookupIsRight == Spec => []LookupFindsRow
<1>1. ASSUME IInv, NEW k \in Present, kind = "int" => rows[k].pk >= 0
      PROVE  k = rows[k].pk
  <2>1. rows[k] \in Records /\ i64(rows[k].pk) = k
    BY <1>1, KeyedRows DEF IInv, Keyed, Present
  <2>2. rows[k].pk \in Int
    <3>1. rows[k].pk \in Declared \cup (0 .. MaxGen)
      BY <2>1 DEF Records
    <3>2. \A n \in 0 .. MaxGen : n \in Int
      BY Widths
    <3> QED BY <3>1, <3>2, Widths
  <2> QED BY <1>1, <2>1, <2>2 DEF i64
<1>2. IInv => LookupFindsRow
  BY <1>1 DEF LookupFindsRow
<1> QED BY InvAlways, <1>2, PTL

\* An UPDATE that keeps the primary key never loses its row.
THEOREM UpdateKeepsRow == Spec => UpdateInPlace
<1>1. ASSUME IInv, NEW k \in Present, NEW v \in Declared, NEW d \in Data,
             Update(k, v, d), kind # "hidden", v = rows[k].pk
      PROVE  rows' = [rows EXCEPT ![k] = [pk |-> v, data |-> d]]
  <2>1. rowid(k) = k /\ k \in IndexKeys /\ i64(v) = k
    BY <1>1, RemovePreserves DEF rowid
  <2>2. rows \in [IndexKeys -> Records \cup {Missing}]
    BY <1>1 DEF IInv, TypeOK
  <2>3. rows' = Added(Removed(rows, k), k, [pk |-> v, data |-> d])
    BY <1>1, <2>1 DEF Update, NewKey
  <2>4. Removed(rows, k)[k] = Missing
    BY <2>1, <2>2 DEF Removed
  <2> QED BY <2>1, <2>2, <2>3, <2>4 DEF Added, Removed
<1>2. IInv => [\A k \in Present, v \in Declared, d \in Data :
                 Update(k, v, d) /\ kind # "hidden" /\ v = rows[k].pk
                   => rows' = [rows EXCEPT ![k] = [pk |-> v, data |-> d]]]_vars
  BY <1>1
<1> QED BY InvAlways, <1>2, PTL DEF UpdateInPlace
-----------------------------------------------------------------------------
\* Statements. The cursor's copies are of rows, and there are none between
\* statements.
Turn == /\ RowsAwaitTheirTurn
        /\ \A k \in DOMAIN iter : k \in IndexKeys /\ iter[k] # Missing
        /\ phase = "plan" => DOMAIN iter = {}

SInv == IInv /\ Turn

LEMMA StmtStepIsNext == StmtNext => [Next]_vars
BY SameKeys DEF StmtNext, InsertRow, OpenAgain, PlanOrFilter, Query,
                EndStatement, DeleteRow, UpdateRow, Next

\* The rows that a change of row k does not name stay as they are.
LEMMA OthersStay ==
  ASSUME IInv, NEW k \in Present, NEW j \in Present, j # k,
         Delete(k) \/ \E v \in Declared, d \in Data : Update(k, v, d)
  PROVE  rows'[j] = rows[j]
<1>1. rowid(k) = k /\ k \in IndexKeys /\ Keyed(Removed(rows, k))
  BY RemovePreserves
<1>2. j \in IndexKeys /\ rows[j] # Missing
  BY DEF Present
<1>3. Removed(rows, k)[j] = rows[j]
  BY <1>1, <1>2, KeyedRows DEF IInv, Keyed, Removed
<1>4. CASE Delete(k)
  BY <1>1, <1>3, <1>4 DEF Delete
<1>5. ASSUME NEW v \in Declared, NEW d \in Data, Update(k, v, d)
      PROVE  rows'[j] = rows[j]
  <2> DEFINE r == Removed(rows, k)
             key == i64(NewKey(v))
             rec == [pk |-> NewKey(v), data |-> d]
  <2>1. rows' = Added(r, key, rec)
    BY <1>1, <1>5 DEF Update
  <2> HIDE DEF r, key, rec
  <2>2. CASE r[key] = Missing
    <3>1. j # key
      BY <1>2, <1>3, <2>2 DEF r
    <3> QED BY <1>2, <1>3, <2>1, <2>2, <3>1 DEF Added, r
  <2>3. CASE r[key] # Missing
    BY <1>3, <2>1, <2>3 DEF Added, r
  <2> QED BY <2>2, <2>3
<1> QED BY <1>4, <1>5

LEMMA TurnNext ==
  ASSUME SInv, [StmtNext]_stmtVars
  PROVE  Turn'
<1> USE DEF SInv, Turn, RowsAwaitTheirTurn
<1>1. ASSUME NEW v \in Declared, NEW d \in Data, InsertRow(v, d)
      PROVE  Turn'
  BY <1>1 DEF InsertRow, Idle, filterVars
<1>2. CASE OpenAgain
  BY <1>2 DEF OpenAgain, Reopen, filterVars
<1>3. CASE PlanOrFilter
  BY <1>3 DEF PlanOrFilter, BestIndex, EndPlan, StartFilter, FilterArg, vars
<1>4. CASE Query
  <2>1. phase' = "scan"
    BY <1>4 DEF Query, EndFilter
  <2>2. rows' = rows /\ iter' = [k \in scan' \cap Present |-> rows[k]]
    BY <1>4 DEF Query, vars
  <2> QED BY <2>1, <2>2 DEF Present
<1>5. CASE EndStatement
  BY <1>5 DEF EndStatement, NoRows, vars
<1>6. ASSUME NEW k \in Keys,
             \/ DeleteRow(k)
             \/ \E v \in Declared, d \in Data : UpdateRow(k, v, d)
      PROVE  Turn'
  <2>1. /\ iter' = Without(iter, k) /\ phase' = phase
        /\ k \in DOMAIN iter
        /\ Delete(k) \/ \E v \in Declared, d \in Data : Update(k, v, d)
    BY <1>6 DEF DeleteRow, UpdateRow, filterVars
  <2>2. DOMAIN iter' = DOMAIN iter \ {k}
        /\ \A j \in DOMAIN iter' : iter'[j] = iter[j]
    BY <2>1 DEF Without
  <2>3. \A j \in DOMAIN iter : j \in Present
    BY DEF Present
  <2>4. \A j \in DOMAIN iter' : rows'[j] = rows[j]
    BY <2>1, <2>2, <2>3, OthersStay
  <2> QED BY <2>1, <2>2, <2>4
<1>7. CASE UNCHANGED stmtVars
  BY <1>7 DEF stmtVars, vars, filterVars
<1> QED
  BY <1>1, <1>2, <1>3, <1>4, <1>5, <1>6, <1>7 DEF StmtNext

\* In every statement each row that SQLite has not come to yet is in the table
\* as the cursor copied it, under the rowid that will name it.
THEOREM CopiesStayTrue == StmtSpec => []RowsAwaitTheirTurn
<1>1. StmtInit => SInv
  BY InvInit DEF StmtInit, SInv, Turn, RowsAwaitTheirTurn, NoRows
<1>2. SInv /\ [StmtNext]_stmtVars => SInv'
  <2> SUFFICES ASSUME SInv, [StmtNext]_stmtVars PROVE SInv'
    OBVIOUS
  <2>1. [Next]_vars
    BY StmtStepIsNext DEF stmtVars
  <2> QED BY <2>1, InvNext, TurnNext DEF SInv
<1>3. SInv => RowsAwaitTheirTurn
  BY DEF SInv, Turn
<1> QED BY <1>1, <1>2, <1>3, PTL DEF StmtSpec
=============================================================================
