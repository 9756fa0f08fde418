--------------------------- MODULE RegistryProofs ---------------------------
(***************************************************************************)
(* Proofs about two tables: the rows that generate_series returns, for any *)
(* width of the integers; and the registries in which a callback from      *)
(* SQLite finds its Go value, for any number of users, of objects and of   *)
(* bits in a word.                                                         *)
(***************************************************************************)
EXTENDS Registry, Series, TLAPS

\* A number is its quotient and its remainder.
LEMMA DivMod ==
  ASSUME NEW N \in Nat \ {0}, NEW a \in Nat
  PROVE  /\ a \div N \in Nat /\ a % N \in 0 .. N - 1
         /\ a = (a \div N) * N + (a % N)
OBVIOUS

\* One multiple more is N more.
LEMMA Mono ==
  ASSUME NEW N \in Nat \ {0}, NEW k \in Nat, k > 0
  PROVE  k * N >= N
OBVIOUS

\* No two pairs of a quotient and a remainder are the same number.
LEMMA Unique ==
  ASSUME NEW N \in Nat \ {0}, NEW q \in Nat, NEW n \in 0 .. N - 1,
         NEW d \in Nat, NEW r \in 0 .. N - 1, q * N + n = d * N + r
  PROVE  q = d /\ n = r
<1>1. CASE q > d
  <2>1. (q - d) * N >= N BY <1>1, Mono
  <2>2. (q - d) * N = q * N - d * N OBVIOUS
  <2> QED BY <2>1, <2>2
<1>2. CASE d > q
  <2>1. (d - q) * N >= N BY <1>2, Mono
  <2>2. (d - q) * N = d * N - q * N OBVIOUS
  <2> QED BY <2>1, <2>2
<1>3. CASE q = d BY <1>3
<1> QED BY <1>1, <1>2, <1>3
-----------------------------------------------------------------------------
(***************************************************************************)
(* generate_series.                                                        *)
(***************************************************************************)

\* An integer in range does not wrap around.
LEMMA NoWrap == ASSUME NEW n \in Ints PROVE Wrap(n) = n
<1> USE SeriesAssumption
<1>1. n \in Int /\ n + Half \in 0 .. 2 * Half - 1 BY DEF Ints
<1> DEFINE a == n + Half
           M == 2 * Half
<1>2. a \in Nat /\ M \in Nat \ {0} /\ a < M BY <1>1
<1> HIDE DEF a, M
<1>3. a \div M \in Nat /\ a % M \in 0 .. M - 1 /\ a = (a \div M) * M + (a % M)
  BY Zenon, <1>2, DivMod
<1>4. 0 * M + a = (a \div M) * M + (a % M) BY <1>2, <1>3
<1>5. a % M = a BY <1>2, <1>3, <1>4, Unique
<1> QED BY <1>1, <1>5 DEF a, M, Wrap

\* Multiples of the stride: which numbers have no remainder, and how they lie.
LEMMA Multiples ==
    ASSUME NEW N \in Nat \ {0}
    PROVE  /\ \A k \in Nat : (k * N) % N = 0
           /\ \A a \in Nat : a % N = 0 => a = (a \div N) * N
           /\ \A j, k \in Int : j < k => j * N + N <= k * N
<1>1. ASSUME NEW k \in Nat PROVE (k * N) % N = 0
  <2> DEFINE a == k * N
  <2>1. a \in Nat BY <1>1
  <2>2. a \div N \in Nat /\ a % N \in 0 .. N - 1 /\ a = (a \div N) * N + (a % N)
    BY Zenon, <2>1, DivMod
  <2>3. k * N + 0 = (a \div N) * N + (a % N) BY <2>1, <2>2
  <2> HIDE DEF a
  <2> QED BY <2>2, <2>3, Unique DEF a
<1>2. ASSUME NEW a \in Nat, a % N = 0 PROVE a = (a \div N) * N
  <2>1. a \div N \in Nat /\ a = (a \div N) * N + (a % N) BY Zenon, DivMod
  <2> QED BY <2>1, <1>2
<1>3. ASSUME NEW j \in Int, NEW k \in Int, j < k PROVE j * N + N <= k * N
  <2>1. (k - j) * N >= N BY <1>3, Mono
  <2>2. (k - j) * N = k * N - j * N OBVIOUS
  <2> QED BY <2>1, <2>2
<1> QED BY Zenon, <1>1, <1>2, <1>3
-----------------------------------------------------------------------------
\* The types of a query and of its scan.
SeriesTypeOK ==
    /\ sphase \in {"idle", "asked", "refused", "planned", "scanning", "done"}
    /\ where \in [Columns -> Constraint]
    /\ rows \in Seq(Nat \X Int)
    /\ cur \in [isDesc : BOOLEAN, rowid : Nat, value : Int, mnValue : Int,
                mxValue : Int, step : Int]

\* The scan stands at its row number i + 1 when i rows have been returned: the
\* i-th multiple of the stride above start, or below the last number.
LastPlace == (Stop - Start) \div Stride
RowPlace(i) == IF Step < 0 THEN LastPlace - i ELSE i
RowAt(i) == Start + RowPlace(i) * Stride

Along(r, c) ==
    IF HasNull THEN r = <<>> /\ ~c.isDesc /\ c.value = 1 /\ c.mxValue = 0
    ELSE /\ c.mnValue = Start /\ c.mxValue = Stop /\ c.step = Stride
         /\ c.isDesc = (Step < 0)
         /\ c.rowid = Len(r) + 1
         /\ c.value = RowAt(Len(r))
         /\ \A i \in DOMAIN r :
               r[i][1] = i /\ r[i][2] = RowAt(i - 1) /\ RowAt(i - 1) \in Start .. Stop

Sane == InRange /\ ~DescendsFromBelow

SeriesInv ==
    /\ SeriesTypeOK
    /\ sphase \in {"planned", "scanning", "done"} => plan.bits = IdxNum
    /\ sphase \notin {"scanning", "done"} => rows = <<>>
    /\ (Sane /\ sphase \in {"scanning", "done"}) => Along(rows, cur)
    /\ sphase = "done" => EOF

\* What a query without NULL asks for.
LEMMA Numbers ==
    ASSUME SeriesTypeOK, ~HasNull
    PROVE  /\ Start \in Ints /\ Stop \in Ints
           /\ Start \in Int /\ Stop \in Int /\ Step \in Int
           /\ Stride \in Nat \ {0}
<1> USE SeriesAssumption
<1>1. 0 \in Ints BY DEF Ints
<1>2. \A c \in Columns : IsEq(c) => where[c].v \in Ints \cup {Null}
  BY Zenon DEF SeriesTypeOK, Constraint, IsEq
<1>3. Start \in Ints /\ Stop \in Ints
  BY Zenon, <1>1, <1>2 DEF Start, Stop, HasNull, Columns
<1>4. Step \in Ints \/ Step = 1
  BY Zenon, <1>2 DEF Step, HasNull, Columns
<1> QED
  BY <1>3, <1>4 DEF Stride, Ints

\* The numbers of the series are start and the multiples of the stride above it,
\* up to stop.
LEMMA InSeries ==
    ASSUME SeriesTypeOK, ~HasNull
    PROVE  /\ \A k \in Nat : Start + k * Stride <= Stop => Start + k * Stride \in SeriesSet
           /\ \A n \in SeriesSet : /\ n \in Int /\ Start <= n /\ n <= Stop
                                  /\ \E k \in Nat : n = Start + k * Stride
<1>1. Start \in Ints /\ Stop \in Ints /\ Start \in Int /\ Stop \in Int /\ Stride \in Nat \ {0}
  BY Zenon, Numbers
<1>2. ASSUME NEW k \in Nat, Start + k * Stride <= Stop
      PROVE  Start + k * Stride \in SeriesSet
  <2>1. (k * Stride) % Stride = 0 /\ k * Stride \in Nat BY <1>1, Multiples
  <2> DEFINE d == k * Stride
  <2>2. d \in Nat /\ d % Stride = 0 /\ Start + d <= Stop BY Zenon, <2>1, <1>2
  <2> HIDE DEF d
  <2>3. Start + d \in Ints BY <1>1, <2>2, SeriesAssumption DEF Ints
  <2>4. (Start + d) - Start = d BY <1>1, <2>2
  <2>5. Start + d \in SeriesSet BY <1>1, <2>2, <2>3, <2>4 DEF SeriesSet
  <2> QED BY Zenon, <2>5 DEF d
<1>3. ASSUME NEW n \in SeriesSet
      PROVE  /\ n \in Int /\ Start <= n /\ n <= Stop
             /\ \E k \in Nat : n = Start + k * Stride
  <2>1. n \in Int /\ n >= Start /\ n <= Stop /\ (n - Start) % Stride = 0
    BY SeriesAssumption DEF SeriesSet, Ints
  <2> DEFINE d == n - Start
  <2>2. d \in Nat /\ d % Stride = 0 /\ n = Start + d BY <1>1, <2>1
  <2> HIDE DEF d
  <2>3. d = (d \div Stride) * Stride /\ d \div Stride \in Nat
    BY Zenon, <1>1, <2>2, Multiples, DivMod
  <2> QED BY Zenon, <2>1, <2>2, <2>3
<1> QED BY Zenon, <1>2, <1>3

\* How the places of a scan lie: the places of two rows are a multiple of the
\* stride apart.
LEMMA RowPlaces ==
    ASSUME SeriesTypeOK, ~HasNull, Sane, NEW i \in Nat
    PROVE  /\ RowAt(i) \in Int /\ RowAt(i + 1) \in Int
           /\ Step < 0 => /\ RowAt(i + 1) = RowAt(i) - Stride /\ RowAt(i) <= Stop
                          /\ LastPlace \in Nat /\ Start <= Stop
                          /\ Start + LastPlace * Stride > Stop - Stride
                          /\ RowAt(0) = Stop - ((Stop - Start) % Stride)
           /\ ~(Step < 0) => RowAt(i + 1) = RowAt(i) + Stride /\ RowAt(i) >= Start
                             /\ RowAt(0) = Start
<1>1. Start \in Int /\ Stop \in Int /\ Step \in Int /\ Stride \in Nat \ {0}
  BY Zenon, Numbers
<1>2. CASE ~(Step < 0)
  <2>1. (i + 1) * Stride = i * Stride + Stride /\ i * Stride \in Nat
        /\ 0 * Stride = 0
    BY <1>1
  <2> QED BY <1>1, <1>2, <2>1 DEF RowAt, RowPlace
<1>3. CASE Step < 0
  <2>1. SeriesSet # {}
    <3>1. IsEq("step") /\ Step # Null BY <1>3 DEF Step, HasNull
    <3> QED BY Zenon, <1>3, <3>1 DEF Sane, DescendsFromBelow
  <2>2. Start <= Stop BY <1>1, <2>1, InSeries
  <2> DEFINE d == Stop - Start
  <2>3. d \in Nat /\ Start + d = Stop BY <1>1, <2>2
  <2>4. LastPlace = d \div Stride BY Zenon DEF LastPlace
  <2> HIDE DEF d
  <2>5. /\ LastPlace \in Nat /\ d % Stride \in 0 .. Stride - 1
        /\ d = LastPlace * Stride + (d % Stride)
    BY Zenon, <1>1, <2>3, <2>4, DivMod
  <2>6. /\ (LastPlace - i) * Stride = LastPlace * Stride - i * Stride
        /\ (LastPlace - (i + 1)) * Stride = (LastPlace - i) * Stride - Stride
        /\ i * Stride \in Nat /\ LastPlace * Stride \in Nat
        /\ (LastPlace - 0) * Stride = LastPlace * Stride
    BY <1>1, <2>5
  <2>7. /\ RowAt(i) = Start + (LastPlace * Stride - i * Stride)
        /\ RowAt(i + 1) = RowAt(i) - Stride
        /\ RowAt(0) = Start + LastPlace * Stride
    BY <1>1, <1>3, <2>5, <2>6 DEF RowAt, RowPlace
  <2>8. RowAt(0) = Stop - (d % Stride)
    <3> DEFINE x == LastPlace * Stride
               y == d % Stride
    <3>1. x \in Int /\ y \in Int /\ d = x + y /\ RowAt(0) = Start + x
      BY <2>5, <2>6, <2>7
    <3> HIDE DEF x, y
    <3>2. RowAt(0) = Stop - y BY <1>1, <2>3, <3>1
    <3> QED BY Zenon, <3>2 DEF y
  <2>9. RowAt(i) \in Int /\ RowAt(i + 1) \in Int /\ RowAt(i) <= Stop
    BY <1>1, <2>3, <2>5, <2>6, <2>7
  <2>10. Start + LastPlace * Stride > Stop - Stride
    BY <1>1, <2>3, <2>5, <2>6
  <2> QED BY Zenon, <1>3, <2>2, <2>5, <2>7, <2>8, <2>9, <2>10 DEF d
<1> QED BY Zenon, <1>2, <1>3

\* Filter puts the cursor on the first number.
LEMMA FilterStarts ==
    ASSUME SeriesInv, Filter, Sane
    PROVE  Along(<<>>, cur')
<1> DEFINE given == Arg("step", 1)
           step == IF given = 0 THEN 1 ELSE IF given < 0 THEN Wrap(0 - given) ELSE given
           mn == IF AnyNull THEN 1 ELSE Arg("start", 0)
           mx == IF AnyNull THEN 0 ELSE Arg("stop", DefaultStop)
           last == IF step > 0 THEN Wrap(mx - GoMod(Wrap(mx - mn), step)) ELSE mx
<1>1. cur' = [isDesc |-> given < 0, rowid |-> 1, mnValue |-> mn,
              mxValue |-> mx, step |-> step,
              value |-> IF given < 0 THEN last ELSE mn]
  BY Zenon DEF Filter
<1>2. plan.bits = IdxNum /\ SeriesTypeOK
  BY Zenon DEF SeriesInv, Filter
<1>3. CASE HasNull
  <2>1. AnyNull
    <3>1. DefaultStop # Null /\ 0 # Null /\ 1 # Null
      BY SeriesAssumption DEF Ints
    <3>2. \E c \in Columns : IsEq(c) /\ where[c].v = Null
      BY Zenon, <1>3, <3>1 DEF HasNull, Start, Stop, Step, Columns
    <3> QED BY Zenon, <1>2, <3>2 DEF AnyNull, IdxNum
  <2>2. ~(given < 0)
    BY <1>2, <1>3, SeriesAssumption DEF Arg, IdxNum, Sane, DescendsFromBelow, SeriesSet,
       Step, Columns
  <2> HIDE DEF given, step, mn, mx, last
  <2>3. mn = 1 /\ mx = 0 BY Zenon, <2>1 DEF mn, mx
  <2> QED BY Zenon, <1>1, <1>3, <2>2, <2>3 DEF Along
<1>4. CASE ~HasNull
  <2>1. /\ Start \in Ints /\ Stop \in Ints /\ Start \in Int /\ Stop \in Int
        /\ Step \in Int /\ Stride \in Nat \ {0}
    BY Zenon, <1>2, <1>4, Numbers
  <2>2. ~AnyNull
    BY Zenon, <1>2, <1>4, SeriesAssumption
       DEF HasNull, AnyNull, Start, Stop, Step, IdxNum, Columns
  <2>3. given = Step /\ mn = Start /\ mx = Stop
    <3>1. \A c \in Columns : c \in plan.bits <=> IsEq(c)
      BY Zenon, <1>2 DEF IdxNum
    <3>2. /\ IsEq("start") => where["start"].v # Null
          /\ IsEq("stop") => where["stop"].v # Null
          /\ IsEq("step") => where["step"].v # Null
      BY Zenon, <1>4 DEF HasNull, Start, Stop, Step
    <3>3. given = Step
      <4>1. CASE IsEq("step") BY Zenon, <3>1, <3>2, <4>1 DEF Arg, Step, Columns
      <4>2. CASE ~IsEq("step") BY Zenon, <3>1, <4>2 DEF Arg, Step, Columns
      <4> QED BY Zenon, <4>1, <4>2
    <3>4. Arg("start", 0) = Start BY Zenon, <3>1, <3>2 DEF Arg, Start, Columns
    <3>5. Arg("stop", DefaultStop) = Stop
      <4>1. CASE IsEq("stop") BY Zenon, <3>1, <3>2, <4>1 DEF Arg, Stop, Columns
      <4>2. CASE ~IsEq("stop") BY Zenon, <3>1, <4>2 DEF Arg, Stop, Columns
      <4> QED BY Zenon, <4>1, <4>2
    <3> QED BY Zenon, <2>2, <3>3, <3>4, <3>5
  <2>4. /\ Stop - Start \in Ints /\ Stride \in Ints /\ Stop + Stride \in Ints
        /\ Start - Stride \in Ints
    BY Zenon, <1>4 DEF Sane, InRange
  <2> HIDE DEF given, mn, mx
  <2>5. step = Stride
    <3>1. CASE Step < 0
      <4>1. Stride = 0 - Step BY <2>1, <3>1 DEF Stride
      <4>2. Wrap(0 - Step) = Stride BY Zenon, <2>4, <4>1, NoWrap
      <4> QED BY <2>1, <2>3, <3>1, <4>2
    <3>2. CASE ~(Step < 0)
      BY Zenon, <2>1, <2>3, <3>2 DEF Stride
    <3> QED BY Zenon, <3>1, <3>2
  <2>6. Step < 0 => last = Stop - ((Stop - Start) % Stride)
    <3> SUFFICES ASSUME Step < 0 PROVE last = Stop - ((Stop - Start) % Stride)
        BY Zenon
    <3>1. Start <= Stop /\ RowAt(0) = Stop - ((Stop - Start) % Stride) /\ RowAt(0) \in Int
          /\ RowAt(0) = Start + LastPlace * Stride /\ LastPlace \in Nat /\ RowAt(0) <= Stop
      BY <1>2, <1>4, <2>1, RowPlaces DEF RowAt, RowPlace
    <3>2. RowAt(0) \in Ints
      BY <2>1, <3>1, SeriesAssumption DEF Ints
    <3>3. Wrap(mx - mn) = Stop - Start
      BY Zenon, <2>3, <2>4, NoWrap
    <3>4. GoMod(Wrap(mx - mn), step) = (Stop - Start) % Stride
      BY <2>1, <2>5, <3>1, <3>3 DEF GoMod
    <3> HIDE DEF step
    <3>5. last = Wrap(Stop - ((Stop - Start) % Stride))
      BY <2>1, <2>3, <2>5, <3>4
    <3> QED BY Zenon, <3>1, <3>2, <3>5, NoWrap
  <2>7. cur'.value = RowAt(0)
    <3> HIDE DEF step, last
    <3> QED BY Zenon, <1>1, <1>2, <1>4, <2>1, <2>3, <2>6, RowPlaces
  <2> HIDE DEF step, last
  <2> QED BY <1>1, <1>4, <2>3, <2>5, <2>7 DEF Along
<1> QED BY Zenon, <1>3, <1>4

\* Next takes the cursor to the next number, or one stride past the last.
LEMMA NextGoesOn ==
    ASSUME SeriesInv, NextRow, Sane
    PROVE  Along(rows', cur')
<1>1. SeriesTypeOK /\ Along(rows, cur) /\ ~EOF
  BY Zenon DEF SeriesInv, NextRow
<1>2. ~HasNull
  BY <1>1 DEF Along, EOF
<1>3. /\ Start \in Ints /\ Stop \in Ints /\ Start \in Int /\ Stop \in Int
      /\ Step \in Int /\ Stride \in Nat \ {0}
  BY Zenon, <1>1, <1>2, Numbers
<1> DEFINE k == Len(rows)
<1>4. k \in Nat /\ rows \in Seq(Nat \X Int) BY <1>1 DEF SeriesTypeOK
<1>5. /\ RowAt(k) \in Int /\ RowAt(k + 1) \in Int
      /\ Step < 0 => RowAt(k + 1) = RowAt(k) - Stride /\ RowAt(k) <= Stop
      /\ ~(Step < 0) => RowAt(k + 1) = RowAt(k) + Stride /\ RowAt(k) >= Start
  BY Zenon, <1>1, <1>2, <1>4, RowPlaces
<1>6. /\ cur.value = RowAt(k) /\ cur.step = Stride /\ cur.isDesc = (Step < 0)
      /\ cur.mnValue = Start /\ cur.mxValue = Stop /\ cur.rowid = k + 1
      /\ \A i \in DOMAIN rows :
               rows[i][1] = i /\ rows[i][2] = RowAt(i - 1) /\ RowAt(i - 1) \in Start .. Stop
  BY Zenon, <1>1, <1>2 DEF Along
<1>7. RowAt(k) \in Start .. Stop
  <2>1. CASE Step < 0
    <3>1. ~(RowAt(k) < Start) BY Zenon, <1>1, <1>6, <2>1 DEF EOF
    <3> QED BY <1>3, <1>5, <2>1, <3>1
  <2>2. CASE ~(Step < 0)
    <3>1. ~(RowAt(k) > Stop) BY Zenon, <1>1, <1>6, <2>2 DEF EOF
    <3> QED BY <1>3, <1>5, <2>2, <3>1
  <2> QED BY Zenon, <2>1, <2>2
<1>8. RowAt(k + 1) \in Ints
  BY <1>2, <1>3, <1>5, <1>7, SeriesAssumption DEF Sane, InRange, Ints
<1>9. cur' = [cur EXCEPT !.rowid = k + 2, !.value = RowAt(k + 1)]
  <2>1. Wrap(IF cur.isDesc THEN cur.value - cur.step ELSE cur.value + cur.step) = RowAt(k + 1)
    BY Zenon, <1>3, <1>5, <1>6, <1>8, NoWrap
  <2>2. cur.rowid + 1 = k + 2 BY <1>4, <1>6
  <2>3. cur' = [cur EXCEPT !.rowid = cur.rowid + 1,
                  !.value = Wrap(IF cur.isDesc THEN cur.value - cur.step
                                               ELSE cur.value + cur.step)]
    BY Zenon DEF NextRow
  <2> QED BY Zenon, <2>1, <2>2, <2>3
<1>10. /\ cur'.value = RowAt(k + 1) /\ cur'.rowid = k + 2 /\ cur'.step = Stride
       /\ cur'.isDesc = (Step < 0) /\ cur'.mnValue = Start /\ cur'.mxValue = Stop
  BY Zenon, <1>1, <1>6, <1>9 DEF SeriesTypeOK
<1>11. rows' = Append(rows, <<k + 1, RowAt(k)>>)
  BY Zenon, <1>6 DEF NextRow
<1>12. Len(rows') = k + 1 /\ DOMAIN rows' = 1 .. k + 1
  BY <1>4, <1>7, <1>11
<1>13. ASSUME NEW i \in DOMAIN rows'
       PROVE  rows'[i][1] = i /\ rows'[i][2] = RowAt(i - 1) /\ RowAt(i - 1) \in Start .. Stop
  <2>1. CASE i = k + 1
    <3>1. rows'[i] = <<k + 1, RowAt(k)>> /\ i - 1 = k BY <1>4, <1>11, <2>1
    <3> QED BY <1>7, <2>1, <3>1
  <2>2. CASE i # k + 1
    <3>1. i \in DOMAIN rows /\ rows'[i] = rows[i] BY <1>4, <1>11, <1>12, <2>2
    <3> QED BY Zenon, <1>6, <3>1
  <2> QED BY Zenon, <2>1, <2>2
<1> QED BY <1>2, <1>4, <1>10, <1>12, <1>13 DEF Along

\* Along a scan the rows are the numbers of the series in order and without a
\* gap, and at EOF they are all of them.
LEMMA AlongReturns ==
    ASSUME SeriesTypeOK, Sane, Along(rows, cur), sphase = "done" => EOF
    PROVE  ReturnsTheSeries
<1>1. CASE HasNull
  BY <1>1 DEF Along, ReturnsTheSeries, SeriesSet
<1>2. CASE ~HasNull
  <2>1. /\ Start \in Int /\ Stop \in Int /\ Step \in Int /\ Stride \in Nat \ {0}
    BY Zenon, <1>2, Numbers
  <2>2. /\ rows \in Seq(Nat \X Int) /\ Len(rows) \in Nat /\ DOMAIN rows = 1 .. Len(rows)
        /\ \A i \in DOMAIN rows :
               rows[i][1] = i /\ rows[i][2] = RowAt(i - 1) /\ RowAt(i - 1) \in Start .. Stop
        /\ cur.value = RowAt(Len(rows)) /\ cur.isDesc = (Step < 0)
        /\ cur.mnValue = Start /\ cur.mxValue = Stop
    BY <1>2 DEF Along, SeriesTypeOK
  <2>3. Step < 0 => LastPlace \in Nat /\ Start + LastPlace * Stride > Stop - Stride
    BY Zenon, <1>2, <2>2, RowPlaces
  <2>4. \A i \in Nat : RowPlace(i) \in Int /\ RowAt(i) = Start + RowPlace(i) * Stride
    BY <2>1, <2>3 DEF RowAt, RowPlace
  <2>5. \A j, k \in Int : j < k => j * Stride + Stride <= k * Stride
    BY Zenon, <2>1, Multiples
  <2>6. \A j, k \in Int : Start + j * Stride < Start + k * Stride => j < k
    <3> TAKE j, k \in Int
    <3>1. j = k => j * Stride = k * Stride BY Zenon
    <3>2. j * Stride \in Int /\ k * Stride \in Int BY <2>1
    <3>3. k < j => k * Stride + Stride <= j * Stride BY Zenon, <2>5
    <3> QED BY <2>1, <3>1, <3>2, <3>3
  <2>7. /\ \A k \in Nat : Start + k * Stride <= Stop => Start + k * Stride \in SeriesSet
        /\ \A n \in SeriesSet : /\ n \in Int /\ Start <= n /\ n <= Stop
                               /\ \E k \in Nat : n = Start + k * Stride
    BY Zenon, <1>2, InSeries
  <2>8. ASSUME NEW i \in DOMAIN rows PROVE rows[i][1] = i /\ rows[i][2] \in SeriesSet
    <3>1. RowPlace(i - 1) \in Int /\ rows[i][2] = Start + RowPlace(i - 1) * Stride
      <4>1. i - 1 \in Nat BY <2>2
      <4> QED BY Zenon, <2>2, <2>4, <4>1
    <3> DEFINE q == RowPlace(i - 1)
    <3>2. q \in Int /\ rows[i][2] = Start + q * Stride BY Zenon, <3>1
    <3>3. q * Stride \in Int /\ Start + q * Stride >= Start /\ Start + q * Stride <= Stop
      BY <2>1, <2>2, <3>2
    <3> HIDE DEF q
    <3>4. q \in Nat
      <4> SUFFICES ASSUME q < 0 PROVE FALSE BY <3>2
      <4>1. q * Stride + Stride <= 0 * Stride BY <2>5, <3>2
      <4>2. 0 * Stride = 0 BY <2>1
      <4> QED BY <2>1, <3>3, <4>1, <4>2
    <3>5. Start + q * Stride \in SeriesSet BY Zenon, <2>7, <3>3, <3>4
    <3> QED BY Zenon, <2>2, <3>2, <3>5
  <2>9. ASSUME NEW i \in DOMAIN rows, NEW j \in DOMAIN rows, i < j
        PROVE  Before(rows[i][2], rows[j][2])
    <3>1. /\ RowPlace(i - 1) \in Int /\ rows[i][2] = Start + RowPlace(i - 1) * Stride
          /\ RowPlace(j - 1) \in Int /\ rows[j][2] = Start + RowPlace(j - 1) * Stride
      BY <2>2, <2>4
    <3>2. RowPlace(i - 1) * Stride \in Int /\ RowPlace(j - 1) * Stride \in Int
      BY <2>1, <3>1
    <3>3. CASE Step < 0
      <4>1. RowPlace(j - 1) < RowPlace(i - 1) BY <2>2, <2>3, <2>9, <3>3 DEF RowPlace
      <4>2. RowPlace(j - 1) * Stride + Stride <= RowPlace(i - 1) * Stride
        BY Zenon, <2>5, <3>1, <4>1
      <4> QED BY <1>2, <2>1, <3>1, <3>2, <3>3, <4>2 DEF Before
    <3>4. CASE ~(Step < 0)
      <4>1. RowPlace(i - 1) < RowPlace(j - 1) BY <2>2, <2>9, <3>4 DEF RowPlace
      <4>2. RowPlace(i - 1) * Stride + Stride <= RowPlace(j - 1) * Stride
        BY Zenon, <2>5, <3>1, <4>1
      <4> QED BY <1>2, <2>1, <3>1, <3>2, <3>4, <4>2 DEF Before
    <3> QED BY Zenon, <3>3, <3>4
  <2>10. ASSUME NEW p \in 0 .. Len(rows), NEW n \in SeriesSet, Before(n, RowAt(p))
         PROVE  \E i \in DOMAIN rows : rows[i][2] = n
    <3>1. PICK k \in Nat : n = Start + k * Stride BY Zenon, <2>7
    <3>2. RowPlace(p) \in Int /\ RowAt(p) = Start + RowPlace(p) * Stride BY <2>2, <2>4
    <3>3. CASE Step < 0
      <4>1. Start + RowPlace(p) * Stride < Start + k * Stride
        BY Zenon, <1>2, <2>1, <2>10, <3>1, <3>2, <3>3 DEF Before
      <4>a. RowPlace(p) < k BY <2>6, <3>2, <4>1
      <4>2. LastPlace - p < k BY Zenon, <3>3, <4>a DEF RowPlace
      <4>3. ~(LastPlace < k)
        <5> SUFFICES ASSUME LastPlace < k PROVE FALSE BY Zenon, <2>3, <3>3
        <5>1. LastPlace * Stride + Stride <= k * Stride BY <2>3, <2>5, <3>3
        <5>2. LastPlace * Stride \in Int /\ k * Stride \in Int BY <2>1, <2>3, <3>3
        <5> QED BY <2>1, <2>3, <2>7, <3>1, <3>3, <5>1, <5>2
      <4> DEFINE i == (LastPlace - k) + 1
      <4>4. i \in DOMAIN rows /\ RowPlace(i - 1) = k
        <5>1. LastPlace \in Nat /\ Len(rows) \in Nat BY Zenon, <2>2, <2>3, <3>3
        <5>2. i \in 1 .. Len(rows) /\ LastPlace - (i - 1) = k BY <4>2, <4>3, <5>1
        <5> QED BY Zenon, <2>2, <3>3, <5>2 DEF RowPlace
      <4>5. RowAt(i - 1) = Start + k * Stride BY <2>2, <2>4, <4>4
      <4> HIDE DEF i
      <4> QED BY Zenon, <2>2, <3>1, <4>4, <4>5
    <3>4. CASE ~(Step < 0)
      <4>1. Start + k * Stride < Start + RowPlace(p) * Stride
        BY Zenon, <1>2, <2>1, <2>10, <3>1, <3>2, <3>4 DEF Before
      <4>a. k < RowPlace(p) BY <2>6, <3>2, <4>1
      <4>2. k < p BY Zenon, <3>4, <4>a DEF RowPlace
      <4> DEFINE i == k + 1
      <4>3. i \in DOMAIN rows /\ RowPlace(i - 1) = k BY <2>2, <3>4, <4>2 DEF RowPlace
      <4>4. RowAt(i - 1) = Start + k * Stride BY <2>2, <2>4, <4>3
      <4> HIDE DEF i
      <4> QED BY Zenon, <2>2, <3>1, <4>3, <4>4
    <3> QED BY Zenon, <3>3, <3>4
  <2>11. ASSUME NEW j \in DOMAIN rows, NEW n \in SeriesSet, Before(n, rows[j][2])
         PROVE  \E i \in DOMAIN rows : rows[i][2] = n
    <3>1. j - 1 \in 0 .. Len(rows) /\ rows[j][2] = RowAt(j - 1) BY <2>2
    <3> QED BY Zenon, <2>10, <2>11, <3>1
  <2>12. ASSUME EOF, NEW n \in SeriesSet
         PROVE  \E i \in DOMAIN rows : rows[i][2] = n
    <3>1. /\ Step < 0 => RowAt(Len(rows)) < Start
          /\ ~(Step < 0) => RowAt(Len(rows)) > Stop
      BY Zenon, <2>2, <2>12 DEF EOF
    <3>2. RowAt(Len(rows)) \in Int BY <2>1, <2>2, <2>4
    <3>3. Before(n, RowAt(Len(rows)))
      BY <1>2, <2>1, <2>7, <3>1, <3>2 DEF Before
    <3> QED BY <2>2, <2>10, <3>3
  <2> QED BY Zenon, <2>8, <2>9, <2>11, <2>12 DEF ReturnsTheSeries
<1> QED BY Zenon, <1>1, <1>2

\* The types of the scan are kept.
LEMMA SeriesTypeStep ==
    ASSUME SeriesInv, SeriesNext PROVE SeriesTypeOK'
<1> USE DEF SeriesInv, SeriesTypeOK
<1>1. CASE Query BY Zenon, <1>1 DEF Query
<1>2. CASE BestIndex BY Zenon, <1>2 DEF BestIndex
<1>3. CASE Filter
  <2>1. plan.bits \subseteq Columns /\ \A c \in plan.bits : where[c].v \in Ints \cup {Null}
    BY Zenon, <1>3 DEF Filter, IdxNum, IsEq, Constraint
  <2>2. \A n \in Ints : n \in Int BY SeriesAssumption DEF Ints
  <2>3. \A c, d : d \in Int => Arg(c, d) \in Int
    BY <2>1, <2>2 DEF Arg
  <2>4. \A n \in Int : Wrap(n) \in Int
    BY SeriesAssumption DEF Wrap
  <2>5. \A a \in Int, b \in Nat \ {0} : GoMod(a, b) \in Int
    BY DEF GoMod
  <2>6. DefaultStop \in Int BY Zenon, <2>2, SeriesAssumption
  <2> DEFINE given == Arg("step", 1)
             step == IF given = 0 THEN 1 ELSE IF given < 0 THEN Wrap(0 - given) ELSE given
             mn == IF AnyNull THEN 1 ELSE Arg("start", 0)
             mx == IF AnyNull THEN 0 ELSE Arg("stop", DefaultStop)
             last == IF step > 0 THEN Wrap(mx - GoMod(Wrap(mx - mn), step)) ELSE mx
  <2>7. cur' = [isDesc |-> given < 0, rowid |-> 1, mnValue |-> mn,
                mxValue |-> mx, step |-> step,
                value |-> IF given < 0 THEN last ELSE mn]
    BY Zenon, <1>3 DEF Filter
  <2>8. given \in Int /\ mn \in Int /\ mx \in Int BY <2>3, <2>6
  <2> HIDE DEF given, mn, mx
  <2>9. step \in Int BY <2>4, <2>8
  <2> HIDE DEF step
  <2>10. last \in Int
    <3>1. CASE step > 0
      <4>1. mx - mn \in Int /\ step \in Nat \ {0} BY <2>8, <2>9, <3>1
      <4>2. Wrap(mx - mn) \in Int BY Zenon, <2>4, <4>1
      <4>3. GoMod(Wrap(mx - mn), step) \in Int BY Zenon, <2>5, <4>1, <4>2
      <4>4. mx - GoMod(Wrap(mx - mn), step) \in Int BY <2>8, <4>3
      <4> QED BY Zenon, <2>4, <3>1, <4>4
    <3>2. CASE ~(step > 0) BY Zenon, <2>8, <3>2
    <3> QED BY Zenon, <3>1, <3>2
  <2> HIDE DEF last
  <2>11. cur' \in [isDesc : BOOLEAN, rowid : Nat, value : Int, mnValue : Int,
                    mxValue : Int, step : Int]
    BY <2>7, <2>8, <2>9, <2>10
  <2> QED BY Zenon, <1>3, <2>11 DEF Filter
<1>4. CASE NextRow
  <2>1. \A n \in Int : Wrap(n) \in Int
    BY SeriesAssumption DEF Wrap
  <2> DEFINE v == Wrap(IF cur.isDesc THEN cur.value - cur.step ELSE cur.value + cur.step)
  <2>a. cur.value - cur.step \in Int /\ cur.value + cur.step \in Int OBVIOUS
  <2>2. v \in Int
    <3>1. CASE cur.isDesc BY Zenon, <2>1, <2>a, <3>1
    <3>2. CASE ~cur.isDesc BY Zenon, <2>1, <2>a, <3>2
    <3> QED BY Zenon, <3>1, <3>2
  <2>3. cur' = [cur EXCEPT !.rowid = cur.rowid + 1, !.value = v]
    BY Zenon, <1>4 DEF NextRow
  <2> HIDE DEF v
  <2>4. cur' \in [isDesc : BOOLEAN, rowid : Nat, value : Int, mnValue : Int,
                   mxValue : Int, step : Int]
    <3>1. cur.rowid + 1 \in Nat OBVIOUS
    <3> QED BY Zenon, <2>2, <2>3, <3>1
  <2>5. <<cur.rowid, cur.value>> \in Nat \X Int BY Zenon
  <2>6. rows' \in Seq(Nat \X Int) BY <1>4, <2>5 DEF NextRow
  <2> QED BY Zenon, <1>4, <2>4, <2>6 DEF NextRow
<1>5. CASE ScanEnds BY Zenon, <1>5 DEF ScanEnds
<1> QED BY Zenon, <1>1, <1>2, <1>3, <1>4, <1>5 DEF SeriesNext

\* While a query runs what it asks for does not change.
LEMMA SameQuery ==
    ASSUME UNCHANGED <<where, plan>>
    PROVE  /\ IdxNum' = IdxNum /\ (Sane' <=> Sane)
           /\ Along(rows, cur)' <=> Along(rows', cur')
<1>1. /\ IdxNum' = IdxNum /\ (HasNull' <=> HasNull) /\ Start' = Start /\ Stop' = Stop
      /\ Step' = Step /\ Stride' = Stride
  BY Zenon DEF IdxNum, HasNull, Start, Stop, Step, Stride, IsEq
<1>2. SeriesSet' = SeriesSet BY Zenon, <1>1 DEF SeriesSet
<1>3. Sane' <=> Sane
  BY Zenon, <1>1, <1>2 DEF Sane, InRange, DescendsFromBelow, IsEq
<1> QED BY Zenon, <1>1, <1>3 DEF Along, RowAt, RowPlace, LastPlace

\* generate_series returns the series, for every width of an integer and every
\* start, stop and step that stay in range.
THEOREM SeriesReturned == SeriesSpec => []ReturnsTheSeries
<1>1. SeriesInit => SeriesInv
  <2> SUFFICES ASSUME SeriesInit PROVE SeriesInv BY Zenon
  <2>1. where \in [Columns -> Constraint]
    BY Zenon DEF SeriesInit, Constraint
  <2>2. cur \in [isDesc : BOOLEAN, rowid : Nat, value : Int, mnValue : Int,
                 mxValue : Int, step : Int]
    BY DEF SeriesInit, NewCursor
  <2> QED BY <2>1, <2>2 DEF SeriesInit, SeriesInv, SeriesTypeOK
<1>2. ASSUME SeriesInv, SeriesNext PROVE SeriesInv'
  <2>1. SeriesTypeOK' BY Zenon, <1>2, SeriesTypeStep
  <2>2. CASE Query BY Zenon, <1>2, <2>1, <2>2 DEF Query, SeriesInv
  <2>3. CASE BestIndex
    BY <1>2, <2>1, <2>3 DEF BestIndex, SeriesInv, IdxNum, IsEq
  <2>4. CASE Filter
    <3>1. UNCHANGED <<where, plan>> /\ rows = <<>> /\ rows' = <<>>
      BY Zenon, <1>2, <2>4 DEF Filter, SeriesInv
    <3>2. Sane => Along(rows', cur') BY Zenon, <1>2, <2>4, <3>1, FilterStarts
    <3> QED BY Zenon, <1>2, <2>1, <2>4, <3>1, <3>2, SameQuery DEF SeriesInv, Filter
  <2>5. CASE NextRow
    <3>1. UNCHANGED <<where, plan>> BY Zenon, <2>5 DEF NextRow
    <3>2. Sane => Along(rows', cur') BY Zenon, <1>2, <2>5, NextGoesOn
    <3> QED BY Zenon, <1>2, <2>1, <2>5, <3>1, <3>2, SameQuery DEF SeriesInv, NextRow
  <2>6. CASE ScanEnds
    <3>1. UNCHANGED <<where, plan, rows, cur>> BY Zenon, <2>6 DEF ScanEnds
    <3>2. EOF' BY Zenon, <2>6, <3>1 DEF ScanEnds, EOF
    <3> QED
      BY Zenon, <1>2, <2>1, <2>6, <3>1, <3>2, SameQuery DEF SeriesInv, ScanEnds
  <2> QED BY Zenon, <1>2, <2>2, <2>3, <2>4, <2>5, <2>6 DEF SeriesNext
<1>3. ASSUME SeriesInv, UNCHANGED seriesvars PROVE SeriesInv'
  <2>1. UNCHANGED <<where, plan, rows, cur, sphase>> BY Zenon, <1>3 DEF seriesvars
  <2>2. SeriesTypeOK' /\ (EOF' <=> EOF)
    BY Zenon, <1>3, <2>1 DEF SeriesInv, SeriesTypeOK, EOF
  <2> QED BY Zenon, <1>3, <2>1, <2>2, SameQuery DEF SeriesInv
<1>4. ASSUME SeriesInv PROVE ReturnsTheSeries
  <2>1. CASE ~Sane BY Zenon, <2>1 DEF Sane, ReturnsTheSeries
  <2>2. CASE Sane /\ sphase \in {"scanning", "done"}
    BY Zenon, <1>4, <2>2, AlongReturns DEF SeriesInv
  <2>3. CASE sphase \notin {"scanning", "done"}
    BY <1>4, <2>3 DEF SeriesInv, ReturnsTheSeries
  <2> QED BY Zenon, <2>1, <2>2, <2>3
<1> QED BY <1>1, <1>2, <1>3, <1>4, PTL DEF SeriesSpec
-----------------------------------------------------------------------------
(***************************************************************************)
(* The registries.                                                         *)
(***************************************************************************)

\* The word of an id and its place in it.
wordOf(id) == (id - 1) \div IdBits + 1
placeOf(id) == (id - 1) % IdBits

\* Of the ids of the first n words each has one of these words, and two ids
\* differ in the word or the place.
LEMMA Places ==
  ASSUME NEW n \in Nat
  PROVE  /\ \A id \in Nat \ {0} :
               /\ wordOf(id) \in Nat \ {0} /\ placeOf(id) \in Word
               /\ id <= n * IdBits <=> wordOf(id) <= n
         /\ \A i, j \in Nat \ {0} :
               wordOf(i) = wordOf(j) /\ placeOf(i) = placeOf(j) => i = j
         /\ wordOf(n * IdBits + 1) = n + 1 /\ placeOf(n * IdBits + 1) = 0
<1> USE RegistryAssumption
<1> DEFINE D(id) == (id - 1) \div IdBits
           R(id) == (id - 1) % IdBits
<1>1. ASSUME NEW id \in Nat \ {0}
      PROVE  /\ D(id) \in Nat /\ R(id) \in 0 .. IdBits - 1
             /\ id - 1 = D(id) * IdBits + R(id)
  <2>1. id - 1 \in Nat OBVIOUS
  <2> QED BY Zenon, <2>1, DivMod
<1>2. wordOf(n * IdBits + 1) = n + 1 /\ placeOf(n * IdBits + 1) = 0
  <2> DEFINE j == n * IdBits + 1
  <2>1. j \in Nat \ {0} /\ j - 1 = n * IdBits + 0 OBVIOUS
  <2>2. 0 \in 0 .. IdBits - 1 OBVIOUS
  <2>3. D(j) \in Nat /\ R(j) \in 0 .. IdBits - 1 /\ D(j) * IdBits + R(j) = n * IdBits + 0
    BY Zenon, <1>1, <2>1
  <2> HIDE DEF D, R, j
  <2>4. D(j) = n /\ R(j) = 0 BY Zenon, <2>2, <2>3, Unique
  <2> QED BY Zenon, <2>4 DEF wordOf, placeOf, D, R, j
<1>3. ASSUME NEW id \in Nat \ {0}
      PROVE  id <= n * IdBits <=> D(id) + 1 <= n
  <2>1. D(id) \in Nat /\ R(id) \in 0 .. IdBits - 1 /\ id - 1 = D(id) * IdBits + R(id)
    BY Zenon, <1>1
  <2> HIDE DEF D, R
  <2>2. CASE D(id) + 1 <= n
    <3>1. CASE n = D(id) + 1
      <4>1. n * IdBits = D(id) * IdBits + IdBits BY <2>1, <3>1
      <4> QED BY <2>1, <2>2, <4>1
    <3>2. CASE n > D(id) + 1
      <4>1. (n - (D(id) + 1)) * IdBits >= IdBits BY <2>1, <3>2, Mono
      <4>2. (n - (D(id) + 1)) * IdBits = n * IdBits - D(id) * IdBits - IdBits BY <2>1
      <4> QED BY <2>1, <2>2, <4>1, <4>2
    <3> QED BY <2>1, <2>2, <3>1, <3>2
  <2>3. CASE ~ (D(id) + 1 <= n)
    <3>1. CASE D(id) = n BY <2>1, <3>1
    <3>2. CASE D(id) > n
      <4>1. (D(id) - n) * IdBits >= IdBits BY <2>1, <3>2, Mono
      <4>2. (D(id) - n) * IdBits = D(id) * IdBits - n * IdBits BY <2>1
      <4> QED BY <2>1, <2>3, <4>1, <4>2
    <3> QED BY <2>1, <2>3, <3>1, <3>2
  <2> QED BY Zenon, <2>2, <2>3
<1> HIDE DEF D, R
<1>4. \A id \in Nat \ {0} : /\ wordOf(id) \in Nat \ {0} /\ placeOf(id) \in Word
                            /\ id <= n * IdBits <=> wordOf(id) <= n
  BY <1>1, <1>3 DEF wordOf, placeOf, Word, D, R
<1>5. ASSUME NEW i \in Nat \ {0}, NEW j \in Nat \ {0},
             wordOf(i) = wordOf(j), placeOf(i) = placeOf(j)
      PROVE  i = j
  <2>1. D(i) + 1 = D(j) + 1 /\ R(i) = R(j) BY Zenon, <1>5 DEF wordOf, placeOf, D, R
  <2>2. D(i) = D(j) BY <1>1, <2>1
  <2> QED BY <1>1, <2>1, <2>2
<1> QED BY Zenon, <1>2, <1>4, <1>5

\* Setting a word of the bitset.
LEMMA SetWord ==
  ASSUME NEW b \in Seq(SUBSET Word), NEW w \in 1 .. Len(b), NEW W \in SUBSET Word
  PROVE  LET c == [b EXCEPT ![w] = W]
         IN  /\ c \in Seq(SUBSET Word) /\ Len(c) = Len(b)
             /\ \A v \in 1 .. Len(b) : c[v] = IF v = w THEN W ELSE b[v]
OBVIOUS

\* An id is used when its bit is set in its word.
LEMMA Used ==
  ASSUME NEW b \in Seq(SUBSET Word), NEW id
  PROVE  id \in UsedIds(b) <=> /\ id \in Nat \ {0} /\ wordOf(id) \in 1 .. Len(b)
                               /\ placeOf(id) \in b[wordOf(id)]
<1>1. Len(b) \in Nat OBVIOUS
<1>2. \A i : i \in UsedIds(b) <=> i \in 1 .. Len(b) * IdBits /\ placeOf(i) \in b[wordOf(i)]
  BY Zenon DEF UsedIds, wordOf, placeOf
<1>3. Len(b) * IdBits \in Nat BY <1>1, RegistryAssumption
<1>4. id \in 1 .. Len(b) * IdBits <=> id \in Nat \ {0} /\ wordOf(id) \in 1 .. Len(b)
  <2>1. id \in 1 .. Len(b) * IdBits <=> id \in Nat \ {0} /\ id <= Len(b) * IdBits BY <1>3
  <2>2. id \in Nat \ {0} => wordOf(id) \in Nat \ {0} /\ (id <= Len(b) * IdBits <=> wordOf(id) <= Len(b))
    BY Zenon, <1>1, Places
  <2> QED BY <1>1, <2>1, <2>2
<1> QED BY Zenon, <1>2, <1>4

\* idGen.next: an id it returns is not in use, and then it is, and nothing else
\* has changed.
LEMMA NextIsFree ==
  ASSUME NEW b \in Seq(SUBSET Word), NEW id \in nextId(b)
  PROVE  /\ id \in Nat /\ id \notin UsedIds(b)
         /\ setId(b, id) \in Seq(SUBSET Word)
         /\ \A i : i \in UsedIds(setId(b, id)) <=> i \in UsedIds(b) \/ i = id
<1> DEFINE n == Len(b)
           c == setId(b, id)
<1>0. n \in Nat /\ IdBits \in Nat \ {0} BY RegistryAssumption
<1>1. id \in 1 .. n * IdBits + 1 /\ id \notin UsedIds(b) BY Zenon DEF nextId
<1>2. n * IdBits \in Nat BY <1>0
<1>3. id \in Nat \ {0} /\ id <= n * IdBits + 1 BY <1>1, <1>2
<1>4. wordOf(id) \in Nat \ {0} /\ placeOf(id) \in Word BY Zenon, <1>3, <1>0, Places
<1>5. 0 \in Word BY <1>0 DEF Word
<1>6. CASE id > n * IdBits
  <2>1. id = n * IdBits + 1 BY <1>2, <1>3, <1>6
  <2>2. wordOf(id) = n + 1 /\ placeOf(id) = 0 BY Zenon, <1>0, <2>1, Places
  <2>3. c = Append(b, {0}) BY Zenon, <1>6 DEF setId
  <2>4. /\ c \in Seq(SUBSET Word) /\ Len(c) = n + 1
        /\ \A w \in 1 .. n : c[w] = b[w]
        /\ c[n + 1] = {0}
    BY <1>5, <2>3
  <2>5. ASSUME NEW i PROVE i \in UsedIds(c) <=> i \in UsedIds(b) \/ i = id
    <3> HIDE DEF n, c
    <3>0. /\ i \in UsedIds(c) <=> /\ i \in Nat \ {0} /\ wordOf(i) \in 1 .. n + 1
                                  /\ placeOf(i) \in c[wordOf(i)]
          /\ i \in UsedIds(b) <=> /\ i \in Nat \ {0} /\ wordOf(i) \in 1 .. n
                                  /\ placeOf(i) \in b[wordOf(i)]
      BY Zenon, <2>4, Used DEF n
    <3>1. CASE i = id BY <3>0, <3>1, <2>2, <2>4, <1>0, <1>3
    <3>2. CASE i # id /\ i \in Nat \ {0}
      <4>0. wordOf(i) \in Nat BY Zenon, <3>2, <1>0, Places
      <4>1. CASE wordOf(i) = n + 1
        <5>1. placeOf(i) # 0 BY Zenon, <3>2, <4>1, <2>2, <1>0, <1>3, Places
        <5> QED BY Zenon, <5>1, <4>1, <3>0, <3>2, <2>4, <1>0
      <4>2. CASE wordOf(i) # n + 1 BY <4>0, <4>2, <3>0, <3>2, <2>4, <1>0
      <4> QED BY Zenon, <4>1, <4>2
    <3>3. CASE i \notin Nat \ {0} BY Zenon, <3>0, <3>3, <1>3
    <3> QED BY Zenon, <3>1, <3>2, <3>3
  <2> QED BY Zenon, <1>1, <1>3, <2>4, <2>5
<1>7. CASE ~ (id > n * IdBits)
  <2>1. id <= n * IdBits BY <1>2, <1>3, <1>7
  <2>2. wordOf(id) \in 1 .. n BY SMTT(20), <1>0, <1>3, <1>4, <2>1, Places
  <2>3. c = [b EXCEPT ![wordOf(id)] = @ \cup {placeOf(id)}]
    BY Zenon, <1>7 DEF setId, wordOf, placeOf
  <2>4. /\ c \in Seq(SUBSET Word) /\ Len(c) = n
        /\ \A w \in 1 .. n : c[w] = IF w = wordOf(id) THEN b[w] \cup {placeOf(id)} ELSE b[w]
    <3> DEFINE w == wordOf(id)
               W == b[w] \cup {placeOf(id)}
    <3>1. W \in SUBSET Word /\ w \in 1 .. Len(b) BY <1>4, <2>2
    <3>2. c = [b EXCEPT ![w] = W] BY Zenon, <2>3
    <3> HIDE DEF w, W, c
    <3>3. /\ c \in Seq(SUBSET Word) /\ Len(c) = n
          /\ \A v \in 1 .. n : c[v] = IF v = w THEN W ELSE b[v]
      BY <3>1, <3>2, SetWord
    <3> QED BY Zenon, <3>3 DEF w, W
  <2>5. ASSUME NEW i PROVE i \in UsedIds(c) <=> i \in UsedIds(b) \/ i = id
    <3> HIDE DEF n, c
    <3>0. /\ i \in UsedIds(c) <=> /\ i \in Nat \ {0} /\ wordOf(i) \in 1 .. n
                                  /\ placeOf(i) \in c[wordOf(i)]
          /\ i \in UsedIds(b) <=> /\ i \in Nat \ {0} /\ wordOf(i) \in 1 .. n
                                  /\ placeOf(i) \in b[wordOf(i)]
      BY Zenon, <2>4, Used DEF n
    <3>1. CASE i = id BY Zenon, <3>0, <3>1, <2>2, <2>4, <1>3
    <3>2. CASE i # id /\ i \in Nat \ {0}
      <4>1. wordOf(i) = wordOf(id) => placeOf(i) # placeOf(id)
        BY Zenon, <3>2, <1>0, <1>3, Places
      <4> QED BY Zenon, <4>1, <3>0, <3>2, <2>4
    <3>3. CASE i \notin Nat \ {0} BY Zenon, <3>0, <3>3, <1>3
    <3> QED BY Zenon, <3>1, <3>2, <3>3
  <2> QED BY Zenon, <1>1, <1>3, <2>4, <2>5
<1> QED BY Zenon, <1>6, <1>7

\* idGen.reclaim: the id is free, and the others are as they were.
LEMMA Reclaimed ==
  ASSUME NEW b \in Seq(SUBSET Word), NEW id \in UsedIds(b)
  PROVE  /\ reclaim(b, id) \in Seq(SUBSET Word)
         /\ \A i : i \in UsedIds(reclaim(b, id)) <=> i \in UsedIds(b) /\ i # id
<1> DEFINE n == Len(b)
           c == reclaim(b, id)
<1>1. n \in Nat OBVIOUS
<1>2. id \in Nat \ {0} /\ wordOf(id) \in 1 .. n BY Zenon, Used
<1>3. c = [b EXCEPT ![wordOf(id)] = @ \ {placeOf(id)}]
  BY Zenon DEF reclaim, wordOf, placeOf
<1>4. /\ c \in Seq(SUBSET Word) /\ Len(c) = n
      /\ \A w \in 1 .. n : c[w] = IF w = wordOf(id) THEN b[w] \ {placeOf(id)} ELSE b[w]
  <2> DEFINE w == wordOf(id)
             W == b[w] \ {placeOf(id)}
  <2>1. W \in SUBSET Word /\ w \in 1 .. Len(b) BY <1>2
  <2>2. c = [b EXCEPT ![w] = W] BY Zenon, <1>3
  <2> HIDE DEF w, W, c
  <2>3. /\ c \in Seq(SUBSET Word) /\ Len(c) = n
        /\ \A v \in 1 .. n : c[v] = IF v = w THEN W ELSE b[v]
    BY <2>1, <2>2, SetWord
  <2> QED BY Zenon, <2>3 DEF w, W
<1>5. ASSUME NEW i PROVE i \in UsedIds(c) <=> i \in UsedIds(b) /\ i # id
  <2> HIDE DEF n, c
  <2>0. /\ i \in UsedIds(c) <=> /\ i \in Nat \ {0} /\ wordOf(i) \in 1 .. n
                                /\ placeOf(i) \in c[wordOf(i)]
        /\ i \in UsedIds(b) <=> /\ i \in Nat \ {0} /\ wordOf(i) \in 1 .. n
                                /\ placeOf(i) \in b[wordOf(i)]
    BY Zenon, <1>4, Used DEF n
  <2>1. CASE i = id BY Zenon, <2>0, <2>1, <1>2, <1>4
  <2>2. CASE i # id /\ i \in Nat \ {0}
    <3>1. wordOf(i) = wordOf(id) => placeOf(i) # placeOf(id)
      BY Zenon, <2>2, <1>1, <1>2, Places
    <3> QED BY Zenon, <3>1, <2>0, <2>2, <1>4
  <2>3. CASE i \notin Nat \ {0} BY Zenon, <2>0, <2>3
  <2> QED BY Zenon, <2>1, <2>2, <2>3
<1> QED BY Zenon, <1>4, <1>5
-----------------------------------------------------------------------------
(***************************************************************************)
(* The inductive invariant.  Tables: ids, maps and holds agree; Owners:    *)
(* the objects and the holds do.                                           *)
(***************************************************************************)

Stored(h) == h.phase \notin {"id", "deleted"}

TablesOf(b, mm, H) ==
    /\ b \in [Kinds -> Seq(SUBSET Word)]
    /\ DOMAIN mm = Kinds /\ \A k \in Kinds : mm[k] \in [DOMAIN mm[k] -> Objs]
    /\ H \subseteq Hold
    /\ \A h \in H : Stored(h) \/ h.k \in Streams
    /\ \A h1, h2 \in H : h1.k = h2.k /\ h1.id = h2.id => h1 = h2
    /\ \A k \in Kinds \ {"module"} :
          \A i : i \in UsedIds(b[k]) <=> \E h \in H : h.k = k /\ h.id = i
    /\ \A k \in Kinds :
          \A i : i \in DOMAIN mm[k] <=> \E h \in H : h.k = k /\ h.id = i /\ Stored(h)
    /\ \A h \in H : Stored(h) => mm[h.k][h.id] = h.obj

Owners ==
    /\ nobj \in 0 .. MaxObjs /\ made \subseteq 1 .. nobj
    /\ released \in [Objs -> Nat]
    /\ \A h \in holds : h.obj \in 1 .. nobj /\ (h.obj \in made <=> h.k \in Made)
    /\ \A h1, h2 \in holds : h1.obj = h2.obj => h1 = h2
    /\ ReleasedOnce

RegistryInv ==
    /\ TablesOf(bits, m, holds)
    /\ Owners
    /\ called.got = called.want

\* The invariant has the type invariant and both properties in it.
LEMMA InvImplies ==
  RegistryInv => RegistryTypeOK /\ RegistryMirrorsSqlite /\ ReleasedOnce
<1> SUFFICES ASSUME RegistryInv
             PROVE  RegistryTypeOK /\ RegistryMirrorsSqlite /\ ReleasedOnce
  BY Zenon
<1> USE DEF RegistryInv, TablesOf
<1>1. RegistryTypeOK BY Zenon DEF RegistryTypeOK, Owners, Word
<1>2. ASSUME NEW k \in Kinds, k # "module"
      PROVE  UsedIds(bits[k]) = {h.id : h \in HoldsOf(k)}
  BY <1>2 DEF HoldsOf
<1>3. ASSUME NEW k \in Kinds
      PROVE  DOMAIN m[k] = {h.id : h \in {x \in HoldsOf(k) : x.phase \notin {"id", "deleted"}}}
  BY DEF HoldsOf, Stored
<1>4. \A h \in holds : h.phase \notin {"id", "deleted"} => Found(h) = h.obj
  <2> SUFFICES ASSUME NEW h \in holds, Stored(h) PROVE Found(h) = h.obj
    BY Zenon DEF Stored
  <2>1. h.k \in Kinds BY Zenon DEF Hold
  <2>2. h.id \in DOMAIN m[h.k] BY Zenon, <2>1
  <2> QED BY Zenon, <2>2 DEF Found
<1>5. \A h1, h2 \in holds : (h1.k = h2.k /\ h1.id = h2.id) => h1 = h2 BY Zenon
<1>6. ReleasedOnce BY Zenon DEF Owners
<1> QED BY Zenon, <1>1, <1>2, <1>3, <1>4, <1>5, <1>6 DEF RegistryMirrorsSqlite

\* At first there is nothing.
LEMMA InitInv == RegistryInit => RegistryInv
<1> SUFFICES ASSUME RegistryInit PROVE RegistryInv BY Zenon
<1> USE DEF RegistryInit
<1>1. ASSUME NEW k \in Kinds, NEW i PROVE i \notin UsedIds(bits[k])
  <2>1. bits[k] = <<>> /\ Len(bits[k]) * IdBits = 0 BY RegistryAssumption
  <2> QED BY <2>1 DEF UsedIds
<1>2. TablesOf(bits, m, holds)
  <2>1. bits \in [Kinds -> Seq(SUBSET Word)] OBVIOUS
  <2>2. DOMAIN m = Kinds /\ \A k \in Kinds : m[k] \in [DOMAIN m[k] -> Objs] BY Zenon
  <2>3. \A k \in Kinds : \A i : i \notin DOMAIN m[k] BY Zenon
  <2> QED BY Zenon, <1>1, <2>1, <2>2, <2>3 DEF TablesOf
<1>3. Owners BY RegistryAssumption DEF Owners, ReleasedOnce, Objs
<1> QED BY Zenon, <1>2, <1>3 DEF RegistryInv, NoCall
-----------------------------------------------------------------------------
(***************************************************************************)
(* What Store and Delete do to a map.                                      *)
(***************************************************************************)

\* Store adds one entry.
LEMMA StoreAdds ==
  ASSUME TablesOf(bits, m, holds), NEW k \in Kinds, NEW id, NEW o \in Objs
  PROVE  LET mm == Store(k, id, o)
         IN  /\ DOMAIN mm = Kinds /\ \A j \in Kinds : mm[j] \in [DOMAIN mm[j] -> Objs]
             /\ \A j \in Kinds : \A i : i \in DOMAIN mm[j] <=> i \in DOMAIN m[j] \/ (j = k /\ i = id)
             /\ \A j \in Kinds : \A i \in DOMAIN mm[j] :
                   mm[j][i] = IF j = k /\ i = id THEN o ELSE m[j][i]
<1> DEFINE f == [i \in DOMAIN m[k] \cup {id} |-> IF i = id THEN o ELSE m[k][i]]
<1>1. DOMAIN m = Kinds /\ \A j \in Kinds : m[j] \in [DOMAIN m[j] -> Objs]
  BY Zenon DEF TablesOf
<1>2. Store(k, id, o) = [m EXCEPT ![k] = f] BY Zenon DEF Store
<1>3. f \in [DOMAIN f -> Objs] /\ DOMAIN f = DOMAIN m[k] \cup {id} BY Zenon, <1>1
<1>4. \A i \in DOMAIN f : f[i] = IF i = id THEN o ELSE m[k][i] BY Zenon
<1> HIDE DEF f
<1> QED BY Zenon, <1>1, <1>2, <1>3, <1>4

\* Delete removes one.
LEMMA DeleteRemoves ==
  ASSUME TablesOf(bits, m, holds), NEW k \in Kinds, NEW id
  PROVE  LET mm == Delete(k, id)
         IN  /\ DOMAIN mm = Kinds /\ \A j \in Kinds : mm[j] \in [DOMAIN mm[j] -> Objs]
             /\ \A j \in Kinds : \A i : i \in DOMAIN mm[j] <=> i \in DOMAIN m[j] /\ ~ (j = k /\ i = id)
             /\ \A j \in Kinds : \A i \in DOMAIN mm[j] : mm[j][i] = m[j][i]
<1> DEFINE f == [i \in DOMAIN m[k] \ {id} |-> m[k][i]]
<1>1. DOMAIN m = Kinds /\ \A j \in Kinds : m[j] \in [DOMAIN m[j] -> Objs]
  BY Zenon DEF TablesOf
<1>2. Delete(k, id) = [m EXCEPT ![k] = f] BY Zenon DEF Delete
<1>3. f \in [DOMAIN f -> Objs] /\ DOMAIN f = DOMAIN m[k] \ {id} BY Zenon, <1>1
<1>4. \A i \in DOMAIN f : f[i] = m[k][i] BY Zenon
<1> HIDE DEF f
<1> QED BY Zenon, <1>1, <1>2, <1>3, <1>4
-----------------------------------------------------------------------------
(***************************************************************************)
(* What next and reclaim do to the bitsets.                                *)
(***************************************************************************)

\* next takes one free id.
LEMMA BitsetTakes ==
  ASSUME bits \in [Kinds -> Seq(SUBSET Word)], NEW k \in Kinds, NEW id \in nextId(bits[k])
  PROVE  LET b == [bits EXCEPT ![k] = setId(@, id)]
         IN  /\ id \in Nat /\ id \notin UsedIds(bits[k])
             /\ b \in [Kinds -> Seq(SUBSET Word)]
             /\ \A j \in Kinds : \A i :
                   i \in UsedIds(b[j]) <=> i \in UsedIds(bits[j]) \/ (j = k /\ i = id)
<1>1. bits[k] \in Seq(SUBSET Word) BY Zenon
<1> DEFINE c == setId(bits[k], id)
<1>2. /\ id \in Nat /\ id \notin UsedIds(bits[k])
      /\ c \in Seq(SUBSET Word)
      /\ \A i : i \in UsedIds(c) <=> i \in UsedIds(bits[k]) \/ i = id
  BY Zenon, <1>1, NextIsFree
<1> HIDE DEF c
<1>3. [bits EXCEPT ![k] = setId(@, id)] = [bits EXCEPT ![k] = c] BY Zenon DEF c
<1> QED BY Zenon, <1>2, <1>3

\* reclaim frees one id.
LEMMA BitsetReclaims ==
  ASSUME bits \in [Kinds -> Seq(SUBSET Word)], NEW k \in Kinds, NEW id \in UsedIds(bits[k])
  PROVE  LET b == [bits EXCEPT ![k] = reclaim(@, id)]
         IN  /\ b \in [Kinds -> Seq(SUBSET Word)]
             /\ \A j \in Kinds : \A i :
                   i \in UsedIds(b[j]) <=> i \in UsedIds(bits[j]) /\ ~ (j = k /\ i = id)
<1>1. bits[k] \in Seq(SUBSET Word) BY Zenon
<1> DEFINE c == reclaim(bits[k], id)
<1>2. /\ c \in Seq(SUBSET Word)
      /\ \A i : i \in UsedIds(c) <=> i \in UsedIds(bits[k]) /\ i # id
  BY Zenon, <1>1, Reclaimed
<1> HIDE DEF c
<1>3. [bits EXCEPT ![k] = reclaim(@, id)] = [bits EXCEPT ![k] = c] BY Zenon DEF c
<1> QED BY Zenon, <1>2, <1>3
-----------------------------------------------------------------------------
(***************************************************************************)
(* The five ways in which the tables change.                               *)
(***************************************************************************)

\* The fields of a new hold.
LEMMA NewHoldFields ==
  ASSUME NEW g \in Users, NEW k \in Kinds, NEW id \in Nat, NEW o \in Objs,
         NEW of \in Objs \cup {0}, NEW p \in {"id", "stored", "held"}
  PROVE  LET x == NewHold(g, k, id, o, of, p)
         IN  /\ x \in Hold /\ x.k = k /\ x.id = id /\ x.obj = o
             /\ x.phase = p
BY Zenon DEF NewHold, Hold

\* Taking an id and storing the object, in one step.
LEMMA AddTables ==
  ASSUME TablesOf(bits, m, holds), NEW g \in Users, NEW k \in Kinds, NEW id \in Keys(k),
         NEW o \in Objs, NEW of \in Objs \cup {0}, NEW p \in {"stored", "held"},
         Add(g, k, id, o, of, p)
  PROVE  TablesOf(bits', m', holds')
<1> DEFINE x == NewHold(g, k, id, o, of, p)
<1>1. /\ id \in Nat
      /\ \A h \in holds : ~ (h.k = k /\ h.id = id)
      /\ bits' \in [Kinds -> Seq(SUBSET Word)]
      /\ \A j \in Kinds \ {"module"} : \A i :
            i \in UsedIds(bits'[j]) <=> i \in UsedIds(bits[j]) \/ (j = k /\ i = id)
  <2>0. bits \in [Kinds -> Seq(SUBSET Word)] BY Zenon DEF TablesOf
  <2>1. CASE k = "module"
    <3>1. id \in Objs /\ id \notin DOMAIN m[k] BY Zenon, <2>1 DEF Keys
    <3>2. \A h \in holds : h.k = k => Stored(h) BY Zenon, <2>1 DEF TablesOf, Streams
    <3>3. \A h \in holds : ~ (h.k = k /\ h.id = id)
      BY Zenon, <3>1, <3>2 DEF TablesOf
    <3>4. bits' = bits BY Zenon, <2>1 DEF Add
    <3> QED BY <2>0, <2>1, <3>1, <3>3, <3>4 DEF Objs
  <2>2. CASE k # "module"
    <3>1. id \in nextId(bits[k]) BY Zenon, <2>2 DEF Keys
    <3>2. bits' = [bits EXCEPT ![k] = setId(@, id)] BY Zenon, <2>2 DEF Add
    <3>3. id \notin UsedIds(bits[k]) BY Zenon, <2>0, <3>1, BitsetTakes
    <3>4. \A h \in holds : ~ (h.k = k /\ h.id = id)
      BY Zenon, <2>2, <3>3 DEF TablesOf
    <3> QED BY Zenon, <2>0, <3>1, <3>2, <3>4, BitsetTakes
  <2> QED BY Zenon, <2>1, <2>2
<1>2. /\ DOMAIN m' = Kinds /\ \A j \in Kinds : m'[j] \in [DOMAIN m'[j] -> Objs]
      /\ \A j \in Kinds : \A i : i \in DOMAIN m'[j] <=> i \in DOMAIN m[j] \/ (j = k /\ i = id)
      /\ \A j \in Kinds : \A i \in DOMAIN m'[j] :
            m'[j][i] = IF j = k /\ i = id THEN o ELSE m[j][i]
  BY StoreAdds DEF Add
<1>3. x \in Hold /\ x.k = k /\ x.id = id /\ x.obj = o /\ x.phase = p BY <1>1, NewHoldFields
<1>4. holds' = holds \cup {x} BY Zenon DEF Add
<1> HIDE DEF x
<1>5. Stored(x) BY Zenon, <1>3 DEF Stored
<1>6. /\ holds' \subseteq Hold /\ \A h \in holds' : Stored(h) \/ h.k \in Streams
      /\ \A h1, h2 \in holds' : h1.k = h2.k /\ h1.id = h2.id => h1 = h2
  BY <1>1, <1>3, <1>4, <1>5 DEF TablesOf
<1>7. \A j \in Kinds \ {"module"} :
         \A i : i \in UsedIds(bits'[j]) <=> \E h \in holds' : h.k = j /\ h.id = i
  <2>1. \A j \in Kinds \ {"module"} : \A i :
           i \in UsedIds(bits[j]) <=> \E h \in holds : h.k = j /\ h.id = i
    BY Zenon DEF TablesOf
  <2> SUFFICES ASSUME NEW j \in Kinds \ {"module"}, NEW i
               PROVE  i \in UsedIds(bits'[j]) <=> \E h \in holds' : h.k = j /\ h.id = i
    BY Zenon
  <2>2. i \in UsedIds(bits'[j]) <=> i \in UsedIds(bits[j]) \/ (j = k /\ i = id)
    BY Zenon, <1>1
  <2>3. i \in UsedIds(bits[j]) <=> \E h \in holds : h.k = j /\ h.id = i
    BY Zenon, <2>1
  <2> QED BY Zenon, <2>2, <2>3, <1>3, <1>4
<1>8. \A j \in Kinds :
         \A i : i \in DOMAIN m'[j] <=> \E h \in holds' : h.k = j /\ h.id = i /\ Stored(h)
  <2>1. \A j \in Kinds : \A i :
           i \in DOMAIN m[j] <=> \E h \in holds : h.k = j /\ h.id = i /\ Stored(h)
    BY Zenon DEF TablesOf
  <2> SUFFICES ASSUME NEW j \in Kinds, NEW i
               PROVE  i \in DOMAIN m'[j] <=> \E h \in holds' : h.k = j /\ h.id = i /\ Stored(h)
    BY Zenon
  <2>2. i \in DOMAIN m'[j] <=> i \in DOMAIN m[j] \/ (j = k /\ i = id) BY Zenon, <1>2
  <2>3. i \in DOMAIN m[j] <=> \E h \in holds : h.k = j /\ h.id = i /\ Stored(h)
    BY Zenon, <2>1
  <2> QED BY Zenon, <2>2, <2>3, <1>3, <1>4, <1>5
<1>9. ASSUME NEW h \in holds', Stored(h) PROVE m'[h.k][h.id] = h.obj
  <2>1. h.k \in Kinds /\ h.id \in DOMAIN m'[h.k] BY Zenon, <1>6, <1>8, <1>9 DEF Hold
  <2>2. CASE h = x BY Zenon, <1>2, <1>3, <2>1, <2>2
  <2>3. CASE h # x
    <3>1. h \in holds /\ ~ (h.k = k /\ h.id = id) BY Zenon, <1>1, <1>4, <2>3
    <3>2. m[h.k][h.id] = h.obj BY Zenon, <3>1, <1>9 DEF TablesOf
    <3> QED BY Zenon, <1>2, <2>1, <3>1, <3>2
  <2> QED BY Zenon, <2>2, <2>3
<1> QED BY Zenon, <1>1, <1>2, <1>6, <1>7, <1>8, <1>9 DEF TablesOf

\* Deleting the entry and reclaiming the id, in one step.
LEMMA ForgetTables ==
  ASSUME TablesOf(bits, m, holds), NEW h \in holds, Stored(h), Forget(h)
  PROVE  TablesOf(bits', m', holds')
<1>0. h.k \in Kinds /\ bits \in [Kinds -> Seq(SUBSET Word)]
  BY Zenon DEF TablesOf, Hold
<1>1. /\ bits' \in [Kinds -> Seq(SUBSET Word)]
      /\ \A j \in Kinds \ {"module"} : \A i :
            i \in UsedIds(bits'[j]) <=> i \in UsedIds(bits[j]) /\ ~ (j = h.k /\ i = h.id)
  <2>1. CASE h.k = "module" BY Zenon, <1>0, <2>1 DEF Forget
  <2>2. CASE h.k # "module"
    <3>1. h.id \in UsedIds(bits[h.k]) BY Zenon, <1>0, <2>2 DEF TablesOf
    <3>2. bits' = [bits EXCEPT ![h.k] = reclaim(@, h.id)] BY Zenon, <2>2 DEF Forget
    <3> QED BY Zenon, <1>0, <3>1, <3>2, BitsetReclaims
  <2> QED BY Zenon, <2>1, <2>2
<1>2. /\ DOMAIN m' = Kinds /\ \A j \in Kinds : m'[j] \in [DOMAIN m'[j] -> Objs]
      /\ \A j \in Kinds : \A i : i \in DOMAIN m'[j] <=> i \in DOMAIN m[j] /\ ~ (j = h.k /\ i = h.id)
      /\ \A j \in Kinds : \A i \in DOMAIN m'[j] : m'[j][i] = m[j][i]
  BY <1>0, DeleteRemoves DEF Forget
<1>3. holds' = holds \ {h} BY Zenon DEF Forget
<1>4. /\ holds' \subseteq Hold /\ \A h1 \in holds' : Stored(h1) \/ h1.k \in Streams
      /\ \A h1, h2 \in holds' : h1.k = h2.k /\ h1.id = h2.id => h1 = h2
  BY Zenon, <1>3 DEF TablesOf
<1>5. \A j \in Kinds \ {"module"} :
         \A i : i \in UsedIds(bits'[j]) <=> \E h1 \in holds' : h1.k = j /\ h1.id = i
  <2>1. \A j \in Kinds \ {"module"} : \A i :
           i \in UsedIds(bits[j]) <=> \E h1 \in holds : h1.k = j /\ h1.id = i
    BY Zenon DEF TablesOf
  <2>2. \A h1, h2 \in holds : h1.k = h2.k /\ h1.id = h2.id => h1 = h2
    BY Zenon DEF TablesOf
  <2> SUFFICES ASSUME NEW j \in Kinds \ {"module"}, NEW i
               PROVE  i \in UsedIds(bits'[j]) <=> \E h1 \in holds' : h1.k = j /\ h1.id = i
    BY Zenon
  <2>3. i \in UsedIds(bits'[j]) <=> i \in UsedIds(bits[j]) /\ ~ (j = h.k /\ i = h.id)
    BY Zenon, <1>1
  <2>4. i \in UsedIds(bits[j]) <=> \E h1 \in holds : h1.k = j /\ h1.id = i
    BY Zenon, <2>1
  <2> QED BY Zenon, <2>2, <2>3, <2>4, <1>3
<1>6. \A j \in Kinds :
         \A i : i \in DOMAIN m'[j] <=> \E h1 \in holds' : h1.k = j /\ h1.id = i /\ Stored(h1)
  <2>1. \A j \in Kinds : \A i :
           i \in DOMAIN m[j] <=> \E h1 \in holds : h1.k = j /\ h1.id = i /\ Stored(h1)
    BY Zenon DEF TablesOf
  <2>2. \A h1, h2 \in holds : h1.k = h2.k /\ h1.id = h2.id => h1 = h2
    BY Zenon DEF TablesOf
  <2> SUFFICES ASSUME NEW j \in Kinds, NEW i
               PROVE  i \in DOMAIN m'[j] <=> \E h1 \in holds' : h1.k = j /\ h1.id = i /\ Stored(h1)
    BY Zenon
  <2>3. i \in DOMAIN m'[j] <=> i \in DOMAIN m[j] /\ ~ (j = h.k /\ i = h.id)
    BY Zenon, <1>2
  <2>4. i \in DOMAIN m[j] <=> \E h1 \in holds : h1.k = j /\ h1.id = i /\ Stored(h1)
    BY Zenon, <2>1
  <2> QED BY Zenon, <2>2, <2>3, <2>4, <1>3
<1>7. ASSUME NEW h1 \in holds', Stored(h1) PROVE m'[h1.k][h1.id] = h1.obj
  <2>1. h1.k \in Kinds /\ h1.id \in DOMAIN m'[h1.k]
    BY Zenon, <1>4, <1>6, <1>7 DEF Hold
  <2> QED BY <1>2, <1>3, <1>7, <2>1 DEF TablesOf
<1> QED BY Zenon, <1>1, <1>2, <1>4, <1>5, <1>6, <1>7 DEF TablesOf

\* Taking an id only.
LEMMA TakeTables ==
  ASSUME TablesOf(bits, m, holds), NEW g \in Users, NEW k \in Kinds \cap Streams,
         NEW id \in nextId(bits[k]), NEW o \in Objs,
         bits' = [bits EXCEPT ![k] = setId(@, id)], m' = m,
         holds' = holds \cup {NewHold(g, k, id, o, 0, "id")}
  PROVE  TablesOf(bits', m', holds')
<1> DEFINE x == NewHold(g, k, id, o, 0, "id")
<1>0. bits \in [Kinds -> Seq(SUBSET Word)] /\ k # "module" /\ k \in Kinds
  BY Zenon DEF TablesOf, Streams
<1>1. /\ id \in Nat /\ id \notin UsedIds(bits[k])
      /\ bits' \in [Kinds -> Seq(SUBSET Word)]
      /\ \A j \in Kinds : \A i :
            i \in UsedIds(bits'[j]) <=> i \in UsedIds(bits[j]) \/ (j = k /\ i = id)
  BY Zenon, <1>0, BitsetTakes
<1>2. \A h \in holds : ~ (h.k = k /\ h.id = id) BY Zenon, <1>0, <1>1 DEF TablesOf
<1>3. x \in Hold /\ x.k = k /\ x.id = id /\ x.obj = o /\ x.phase = "id"
  BY <1>0, <1>1, NewHoldFields
<1>4. holds' = holds \cup {x} BY Zenon
<1> HIDE DEF x
<1>5. ~ Stored(x) BY Zenon, <1>3 DEF Stored
<1>6. /\ holds' \subseteq Hold /\ \A h \in holds' : Stored(h) \/ h.k \in Streams
      /\ \A h1, h2 \in holds' : h1.k = h2.k /\ h1.id = h2.id => h1 = h2
  BY Zenon, <1>2, <1>3, <1>4 DEF TablesOf
<1>7. \A j \in Kinds \ {"module"} :
         \A i : i \in UsedIds(bits'[j]) <=> \E h \in holds' : h.k = j /\ h.id = i
  <2>1. \A j \in Kinds \ {"module"} : \A i :
           i \in UsedIds(bits[j]) <=> \E h \in holds : h.k = j /\ h.id = i
    BY Zenon DEF TablesOf
  <2> SUFFICES ASSUME NEW j \in Kinds \ {"module"}, NEW i
               PROVE  i \in UsedIds(bits'[j]) <=> \E h \in holds' : h.k = j /\ h.id = i
    BY Zenon
  <2>2. i \in UsedIds(bits'[j]) <=> i \in UsedIds(bits[j]) \/ (j = k /\ i = id)
    BY Zenon, <1>1
  <2>3. i \in UsedIds(bits[j]) <=> \E h \in holds : h.k = j /\ h.id = i
    BY Zenon, <2>1
  <2> QED BY Zenon, <2>2, <2>3, <1>3, <1>4
<1>8. \A j \in Kinds :
         \A i : i \in DOMAIN m'[j] <=> \E h \in holds' : h.k = j /\ h.id = i /\ Stored(h)
  BY <1>4, <1>5 DEF TablesOf
<1>9. \A h \in holds' : Stored(h) => m'[h.k][h.id] = h.obj
  BY Zenon, <1>4, <1>5 DEF TablesOf
<1> QED BY Zenon, <1>1, <1>6, <1>7, <1>8, <1>9 DEF TablesOf

\* The fields of a hold in its next phase.
LEMMA PhaseFields ==
  ASSUME NEW h \in Hold, NEW p \in {"id", "stored", "held", "failed", "deleted"}
  PROVE  LET y == [h EXCEPT !.phase = p]
         IN  /\ y \in Hold /\ y.phase = p /\ y.k = h.k /\ y.id = h.id /\ y.obj = h.obj
             /\ y.g = h.g /\ y.of = h.of
BY Zenon DEF Hold

\* A hold goes on to its next phase; the map has its object when it should.
LEMMA PhaseTables ==
  ASSUME TablesOf(bits, m, holds), NEW h \in holds,
         NEW p \in {"id", "stored", "held", "failed", "deleted"}, Phase(h, p),
         bits' = bits,
         \/ /\ Stored(h) /\ p \notin {"id", "deleted"} /\ m' = m
         \/ /\ p \notin {"id", "deleted"} /\ m' = Store(h.k, h.id, h.obj)
         \/ /\ h.k \in Streams /\ p \in {"id", "deleted"} /\ m' = Delete(h.k, h.id)
  PROVE  TablesOf(bits', m', holds')
<1> DEFINE y == [h EXCEPT !.phase = p]
<1>0. h \in Hold /\ h.k \in Kinds /\ h.obj \in Objs BY Zenon DEF TablesOf, Hold
<1>1. y \in Hold /\ y.phase = p /\ y.k = h.k /\ y.id = h.id /\ y.obj = h.obj
  BY Zenon, <1>0, SMTT(30) DEF Hold
<1>2. holds' = (holds \ {h}) \cup {y} BY Zenon DEF Phase
<1> HIDE DEF y
<1>3. Stored(y) <=> p \notin {"id", "deleted"} BY Zenon, <1>1 DEF Stored
<1>4. /\ DOMAIN m' = Kinds /\ \A j \in Kinds : m'[j] \in [DOMAIN m'[j] -> Objs]
      /\ \A j \in Kinds : \A i :
            i \in DOMAIN m'[j] <=> IF j = h.k /\ i = h.id THEN Stored(y) ELSE i \in DOMAIN m[j]
      /\ \A j \in Kinds : \A i \in DOMAIN m'[j] :
            m'[j][i] = IF j = h.k /\ i = h.id THEN h.obj ELSE m[j][i]
  <2>1. CASE Stored(h) /\ p \notin {"id", "deleted"} /\ m' = m
    <3>1. h.id \in DOMAIN m[h.k] /\ m[h.k][h.id] = h.obj
      BY Zenon, <1>0, <2>1 DEF TablesOf
    <3> QED BY Zenon, <1>0, <1>3, <2>1, <3>1 DEF TablesOf
  <2>2. CASE p \notin {"id", "deleted"} /\ m' = Store(h.k, h.id, h.obj)
    <3>1. Stored(y) /\ h.k \in Kinds /\ h.obj \in Objs BY Zenon, <1>0, <1>3, <2>2
    <3>2. /\ DOMAIN m' = Kinds /\ \A j \in Kinds : m'[j] \in [DOMAIN m'[j] -> Objs]
          /\ \A j \in Kinds : \A i :
                i \in DOMAIN m'[j] <=> i \in DOMAIN m[j] \/ (j = h.k /\ i = h.id)
          /\ \A j \in Kinds : \A i \in DOMAIN m'[j] :
                m'[j][i] = IF j = h.k /\ i = h.id THEN h.obj ELSE m[j][i]
      BY <2>2, <3>1, StoreAdds
    <3> QED BY Zenon, <3>1, <3>2
  <2>3. CASE p \in {"id", "deleted"} /\ m' = Delete(h.k, h.id)
    BY <1>0, <1>3, <2>3, DeleteRemoves
  <2> QED BY Zenon, <2>1, <2>2, <2>3
<1>5. /\ holds' \subseteq Hold
      /\ \A h1, h2 \in holds' : h1.k = h2.k /\ h1.id = h2.id => h1 = h2
  BY <1>1, <1>2 DEF TablesOf
<1>6. \A h1 \in holds' : Stored(h1) \/ h1.k \in Streams
  <2>1. Stored(y) \/ y.k \in Streams BY Zenon, <1>1, <1>3
  <2> QED BY Zenon, <1>2, <2>1 DEF TablesOf
<1>7. \A j \in Kinds \ {"module"} :
         \A i : i \in UsedIds(bits'[j]) <=> \E h1 \in holds' : h1.k = j /\ h1.id = i
  <2> SUFFICES ASSUME NEW j \in Kinds \ {"module"}, NEW i
               PROVE  i \in UsedIds(bits'[j]) <=> \E h1 \in holds' : h1.k = j /\ h1.id = i
    BY Zenon
  <2>1. i \in UsedIds(bits[j]) <=> \E h1 \in holds : h1.k = j /\ h1.id = i BY DEF TablesOf
  <2> QED BY Zenon, <1>1, <1>2, <2>1
<1>8. \A j \in Kinds :
         \A i : i \in DOMAIN m'[j] <=> \E h1 \in holds' : h1.k = j /\ h1.id = i /\ Stored(h1)
  <2> SUFFICES ASSUME NEW j \in Kinds, NEW i
               PROVE  i \in DOMAIN m'[j] <=> \E h1 \in holds' : h1.k = j /\ h1.id = i /\ Stored(h1)
    BY Zenon
  <2>1. i \in DOMAIN m[j] <=> \E h1 \in holds : h1.k = j /\ h1.id = i /\ Stored(h1)
    BY Zenon DEF TablesOf
  <2>2. \A h1 \in holds : h1.k = h.k /\ h1.id = h.id => h1 = h BY Zenon DEF TablesOf
  <2>3. CASE j = h.k /\ i = h.id BY Zenon, <1>1, <1>2, <1>4, <2>2, <2>3
  <2>4. CASE ~ (j = h.k /\ i = h.id)
    <3>1. i \in DOMAIN m'[j] <=> i \in DOMAIN m[j] BY Zenon, <1>4, <2>4
    <3> QED BY Zenon, <1>1, <1>2, <2>1, <2>4, <3>1
  <2> QED BY Zenon, <2>3, <2>4
<1>9. ASSUME NEW h1 \in holds', Stored(h1) PROVE m'[h1.k][h1.id] = h1.obj
  <2>1. h1.k \in Kinds /\ h1.id \in DOMAIN m'[h1.k]
    BY Zenon, <1>5, <1>8, <1>9 DEF Hold
  <2>2. CASE h1 = y BY Zenon, <1>1, <1>4, <2>1, <2>2
  <2>3. CASE h1 # y
    <3>1. h1 \in holds /\ h1 # h BY Zenon, <1>2, <2>3
    <3>2. ~ (h1.k = h.k /\ h1.id = h.id) BY Zenon, <3>1 DEF TablesOf
    <3>3. m[h1.k][h1.id] = h1.obj BY Zenon, <3>1, <1>9 DEF TablesOf
    <3> QED BY Zenon, <1>4, <2>1, <3>2, <3>3
  <2> QED BY Zenon, <2>2, <2>3
<1> QED BY Zenon, <1>4, <1>5, <1>6, <1>7, <1>8, <1>9 DEF TablesOf

\* Reclaiming the id of a stream whose entry is gone.
LEMMA ReclaimTables ==
  ASSUME TablesOf(bits, m, holds), NEW h \in holds, ~ Stored(h),
         bits' = [bits EXCEPT ![h.k] = reclaim(@, h.id)], m' = m,
         holds' = holds \ {h}
  PROVE  TablesOf(bits', m', holds')
<1>0. h.k \in Kinds /\ h.k # "module" /\ bits \in [Kinds -> Seq(SUBSET Word)]
  BY Zenon DEF TablesOf, Hold, Streams
<1>1. h.id \in UsedIds(bits[h.k]) BY Zenon, <1>0 DEF TablesOf
<1>2. /\ bits' \in [Kinds -> Seq(SUBSET Word)]
      /\ \A j \in Kinds : \A i :
            i \in UsedIds(bits'[j]) <=> i \in UsedIds(bits[j]) /\ ~ (j = h.k /\ i = h.id)
  BY Zenon, <1>0, <1>1, BitsetReclaims
<1>3. \A j \in Kinds \ {"module"} :
         \A i : i \in UsedIds(bits'[j]) <=> \E h1 \in holds' : h1.k = j /\ h1.id = i
  <2> SUFFICES ASSUME NEW j \in Kinds \ {"module"}, NEW i
               PROVE  i \in UsedIds(bits'[j]) <=> \E h1 \in holds' : h1.k = j /\ h1.id = i
    BY Zenon
  <2>1. i \in UsedIds(bits[j]) <=> \E h1 \in holds : h1.k = j /\ h1.id = i BY DEF TablesOf
  <2>2. \A h1, h2 \in holds : h1.k = h2.k /\ h1.id = h2.id => h1 = h2
    BY Zenon DEF TablesOf
  <2>3. i \in UsedIds(bits'[j]) <=> i \in UsedIds(bits[j]) /\ ~ (j = h.k /\ i = h.id)
    BY Zenon, <1>2
  <2> QED BY Zenon, <2>1, <2>2, <2>3
<1>4. \A j \in Kinds :
         \A i : i \in DOMAIN m'[j] <=> \E h1 \in holds' : h1.k = j /\ h1.id = i /\ Stored(h1)
  BY DEF TablesOf
<1>5. /\ holds' \subseteq Hold /\ \A h1 \in holds' : Stored(h1) \/ h1.k \in Streams
      /\ \A h1, h2 \in holds' : h1.k = h2.k /\ h1.id = h2.id => h1 = h2
      /\ \A h1 \in holds' : Stored(h1) => m'[h1.k][h1.id] = h1.obj
  BY Zenon DEF TablesOf
<1>6. DOMAIN m' = Kinds /\ \A k \in Kinds : m'[k] \in [DOMAIN m'[k] -> Objs]
  BY Zenon DEF TablesOf
<1> QED BY Zenon, <1>2, <1>3, <1>4, <1>5, <1>6 DEF TablesOf
-----------------------------------------------------------------------------
(***************************************************************************)
(* Objects, holds and releases.                                            *)
(***************************************************************************)

\* There is a number for one object more.
LEMMA FreshObj ==
  ASSUME Owners, Fresh
  PROVE  nobj \in Nat /\ nobj + 1 \in Objs /\ MaxObjs \in Nat
<1>1. nobj \in 0 .. MaxObjs /\ MaxObjs \in Nat
  BY Zenon, RegistryAssumption DEF Owners
<1> QED BY <1>1 DEF Fresh, Objs

\* A new object gets its first hold.
LEMMA OwnersAdd ==
  ASSUME Owners, holds \subseteq Hold, Fresh, NEW x, x.obj = nobj + 1,
         holds' = holds \cup {x}, nobj' = nobj + 1, UNCHANGED released,
         made' = IF x.k \in Made THEN made \cup {nobj + 1} ELSE made
  PROVE  Owners'
<1> USE DEF Owners
<1>0. nobj \in Nat /\ nobj + 1 \in Objs /\ MaxObjs \in Nat BY Zenon, FreshObj
<1>1. nobj' \in 0 .. MaxObjs /\ made' \subseteq 1 .. nobj' /\ released' \in [Objs -> Nat]
  BY <1>0 DEF Objs
<1>2. \A h \in holds' : h.obj \in 1 .. nobj' /\ (h.obj \in made' <=> h.k \in Made)
  <2>1. ASSUME NEW h \in holds PROVE h.obj \in 1 .. nobj' /\ (h.obj \in made' <=> h.k \in Made)
    <3>1. h.obj \in 1 .. nobj /\ (h.obj \in made <=> h.k \in Made) BY Zenon
    <3> QED BY <1>0, <3>1
  <2>2. x.obj \in 1 .. nobj' /\ (x.obj \in made' <=> x.k \in Made)
    <3>1. nobj + 1 \notin made BY <1>0
    <3> QED BY <1>0, <3>1
  <2> QED BY Zenon, <2>1, <2>2
<1>3. \A h \in holds : h.obj # nobj + 1 BY <1>0
<1>4. \A h1, h2 \in holds' : h1.obj = h2.obj => h1 = h2 BY Zenon, <1>3
<1>5. ASSUME NEW o \in Objs
      PROVE  released'[o] = IF o \in made' /\ \A h \in holds' : h.obj # o THEN 1 ELSE 0
  <2>1. released[o] = IF o \in made /\ \A h \in holds : h.obj # o THEN 1 ELSE 0
    BY Zenon DEF ReleasedOnce
  <2>2. CASE o = nobj + 1
    <3>1. o \notin made BY <1>0, <2>2
    <3> QED BY Zenon, <2>1, <2>2, <3>1
  <2>3. CASE o # nobj + 1 BY Zenon, <2>1, <2>3
  <2> QED BY Zenon, <2>2, <2>3
<1> QED BY Zenon, <1>1, <1>2, <1>4, <1>5 DEF ReleasedOnce

\* A new object is released at once.
LEMMA OwnersFail ==
  ASSUME Owners, Fresh, UNCHANGED holds, nobj' = nobj + 1, made' = made \cup {nobj + 1},
         released' = [released EXCEPT ![nobj + 1] = @ + 1]
  PROVE  Owners'
<1> USE DEF Owners
<1>0. nobj \in Nat /\ nobj + 1 \in Objs /\ MaxObjs \in Nat BY Zenon, FreshObj
<1>1. nobj' \in 0 .. MaxObjs /\ made' \subseteq 1 .. nobj' /\ released' \in [Objs -> Nat]
  BY <1>0 DEF Objs
<1>2. \A h \in holds : h.obj # nobj + 1 /\ nobj + 1 \notin made BY <1>0
<1>3. ASSUME NEW h \in holds'
      PROVE  h.obj \in 1 .. nobj' /\ (h.obj \in made' <=> h.k \in Made)
  <2>1. h.obj \in 1 .. nobj /\ (h.obj \in made <=> h.k \in Made) BY Zenon
  <2> QED BY <1>0, <1>2, <2>1
<1>4. ASSUME NEW o \in Objs
      PROVE  released'[o] = IF o \in made' /\ \A h \in holds' : h.obj # o THEN 1 ELSE 0
  <2>1. released[o] = IF o \in made /\ \A h \in holds : h.obj # o THEN 1 ELSE 0
    BY Zenon DEF ReleasedOnce
  <2>2. CASE o = nobj + 1
    <3>1. o \notin made BY <1>0, <2>2
    <3> QED BY <1>2, <2>1, <2>2, <3>1
  <2>3. CASE o # nobj + 1 BY Zenon, <2>1, <2>3
  <2> QED BY Zenon, <2>2, <2>3
<1> QED BY Zenon, <1>1, <1>3, <1>4 DEF ReleasedOnce

\* An object that needs no release is dropped, or a hold changes its phase.
LEMMA OwnersSame ==
  ASSUME Owners, NEW h \in holds, UNCHANGED <<nobj, made, released>>,
         \/ holds' = holds \ {h} /\ h.k \notin Made
         \/ \E y : holds' = (holds \ {h}) \cup {y} /\ y.obj = h.obj /\ y.k = h.k
  PROVE  Owners'
<1> USE DEF Owners
<1>1. CASE holds' = holds \ {h} /\ h.k \notin Made
  <2>1. h.obj \notin made BY Zenon, <1>1
  <2>2. ReleasedOnce' BY <1>1, <2>1 DEF ReleasedOnce
  <2> QED BY Zenon, <1>1, <2>2
<1>2. CASE \E y : holds' = (holds \ {h}) \cup {y} /\ y.obj = h.obj /\ y.k = h.k
  <2>1. PICK y : holds' = (holds \ {h}) \cup {y} /\ y.obj = h.obj /\ y.k = h.k
    BY Zenon, <1>2
  <2>2. \A o : (\A g \in holds' : g.obj # o) <=> (\A g \in holds : g.obj # o)
    BY Zenon, <2>1
  <2>3. ReleasedOnce' BY Zenon, <2>2 DEF ReleasedOnce
  <2>4. \A g \in holds' : g.obj \in 1 .. nobj' /\ (g.obj \in made' <=> g.k \in Made)
    BY Zenon, <2>1
  <2>5. \A h1, h2 \in holds' : h1.obj = h2.obj => h1 = h2 BY <2>1
  <2> QED BY Zenon, <2>3, <2>4, <2>5
<1> QED BY Zenon, <1>1, <1>2

\* An object is released when its hold goes.
LEMMA OwnersRelease ==
  ASSUME Owners, NEW h \in holds, h.k \in Made, UNCHANGED <<nobj, made>>,
         holds' = holds \ {h}, released' = [released EXCEPT ![h.obj] = @ + 1]
  PROVE  Owners'
<1> USE DEF Owners
<1>1. h.obj \in made /\ h.obj \in 1 .. nobj BY Zenon
<1>2. h.obj \in Objs BY <1>1, RegistryAssumption DEF Objs
<1>3. released' \in [Objs -> Nat] BY <1>2
<1>4. ASSUME NEW o \in Objs
      PROVE  released'[o] = IF o \in made' /\ \A g \in holds' : g.obj # o THEN 1 ELSE 0
  <2>1. released[o] = IF o \in made /\ \A g \in holds : g.obj # o THEN 1 ELSE 0
    BY Zenon DEF ReleasedOnce
  <2>2. CASE o = h.obj
    <3>1. released[o] = 0 BY Zenon, <2>1, <2>2
    <3>2. \A g \in holds' : g.obj # o BY Zenon, <2>2
    <3> QED BY <1>1, <1>2, <2>2, <3>1, <3>2
  <2>3. CASE o # h.obj BY Zenon, <2>1, <2>3
  <2> QED BY Zenon, <2>2, <2>3
<1> QED BY Zenon, <1>3, <1>4 DEF ReleasedOnce
-----------------------------------------------------------------------------
(***************************************************************************)
(* The steps.                                                              *)
(***************************************************************************)

\* CreateFunction and the other calls that register an object.
LEMMA RegisterInv ==
  ASSUME RegistryInv, NEW g \in Users, NEW k \in Kinds, k \notin Made, RegisterObject(g, k)
  PROVE  RegistryInv'
<1> USE DEF RegistryInv
<1>1. PICK id \in Keys(k) : Add(g, k, id, nobj + 1, 0, "stored")
  BY Zenon DEF RegisterObject
<1>2. nobj + 1 \in Objs BY Zenon, FreshObj DEF RegisterObject
<1>3. TablesOf(bits', m', holds') BY Zenon, <1>1, <1>2, AddTables
<1>4. Owners'
  <2> DEFINE x == NewHold(g, k, id, nobj + 1, 0, "stored")
  <2>1. x.obj = nobj + 1 /\ x.k = k /\ holds' = holds \cup {x}
    BY Zenon, <1>1 DEF NewHold, Add
  <2> HIDE DEF x
  <2>2. /\ Fresh /\ nobj' = nobj + 1 /\ UNCHANGED released
        /\ made' = IF x.k \in Made THEN made \cup {nobj + 1} ELSE made
    BY Zenon, <2>1 DEF RegisterObject
  <2> QED BY Zenon, <2>1, <2>2, OwnersAdd DEF TablesOf
<1> QED BY Zenon, <1>3, <1>4 DEF RegisterObject, NoCall

\* Connect, OpenCursor and NewAggregate make an object.
LEMMA MakeInv ==
  ASSUME RegistryInv, NEW g \in Users, NEW k \in Kinds \cap Made, NEW of \in Objs \cup {0},
         Fresh, Make(g, k, of)
  PROVE  RegistryInv'
<1> USE DEF RegistryInv
<1>1. nobj + 1 \in Objs BY Zenon, FreshObj
<1>2. nobj' = nobj + 1 /\ made' = made \cup {nobj + 1} /\ called' = NoCall
  BY Zenon DEF Make
<1>3. ASSUME NEW id \in Keys(k), Add(g, k, id, nobj + 1, of, "held"), UNCHANGED released
      PROVE  TablesOf(bits', m', holds') /\ Owners'
  <2>1. TablesOf(bits', m', holds') BY Zenon, <1>1, <1>3, AddTables
  <2> DEFINE x == NewHold(g, k, id, nobj + 1, of, "held")
  <2>2. x.obj = nobj + 1 /\ x.k = k /\ holds' = holds \cup {x}
    BY Zenon, <1>3 DEF NewHold, Add
  <2> HIDE DEF x
  <2>3. made' = IF x.k \in Made THEN made \cup {nobj + 1} ELSE made
    BY Zenon, <1>2, <2>2
  <2> QED BY Zenon, <1>2, <1>3, <2>1, <2>2, <2>3, OwnersAdd DEF TablesOf
<1>4. CASE /\ released' = [released EXCEPT ![nobj + 1] = @ + 1]
           /\ UNCHANGED <<bits, m, holds>>
  <2>1. Owners' BY Zenon, <1>2, <1>4, OwnersFail
  <2> QED BY Zenon, <1>2, <1>4, <2>1 DEF NoCall
<1> QED BY <1>2, <1>3, <1>4 DEF Make, NoCall

\* The destroy functions of what needs no release.
LEMMA ForgetInv ==
  ASSUME RegistryInv, NEW h \in holds, Stored(h), h.k \notin Made, Forget(h),
         called' = NoCall, UNCHANGED <<nobj, made, released>>
  PROVE  RegistryInv'
<1> USE DEF RegistryInv
<1>1. TablesOf(bits', m', holds') BY Zenon, ForgetTables
<1>2. Owners' BY Zenon, OwnersSame DEF Forget
<1> QED BY Zenon, <1>1, <1>2 DEF NoCall

\* A change of phase.
LEMMA PhaseInv ==
  ASSUME RegistryInv, NEW h \in holds,
         NEW p \in {"id", "stored", "held", "failed", "deleted"}, Phase(h, p),
         TablesOf(bits', m', holds'), called' = NoCall, UNCHANGED <<nobj, made, released>>
  PROVE  RegistryInv'
<1> USE DEF RegistryInv
<1> DEFINE y == [h EXCEPT !.phase = p]
<1>1. h \in Hold BY Zenon DEF TablesOf
<1>2. y.obj = h.obj /\ y.k = h.k BY Zenon, <1>1, PhaseFields
<1>3. holds' = (holds \ {h}) \cup {y} BY Zenon DEF Phase
<1> HIDE DEF y
<1>4. Owners' BY Zenon, <1>2, <1>3, OwnersSame
<1> QED BY Zenon, <1>4 DEF NoCall

\* DisconnectTable, CloseCursor and FinalizeAggregate.
LEMMA ReleaseInv ==
  ASSUME RegistryInv, NEW h \in holds, h.k \in Made, Release(h)
  PROVE  RegistryInv'
<1> USE DEF RegistryInv
<1>1. Stored(h) BY Zenon DEF TablesOf, Made, Streams
<1>2. m[h.k][h.id] = h.obj BY Zenon, <1>1 DEF TablesOf
<1>3. TablesOf(bits', m', holds') BY Zenon, <1>1, ForgetTables DEF Release
<1>4. Owners' BY Zenon, <1>2, OwnersRelease DEF Release, Forget
<1> QED BY Zenon, <1>3, <1>4 DEF Release, NoCall

\* The first step of a call with a stream or a conflict handler.
LEMMA TakeInv ==
  ASSUME RegistryInv, NEW g \in Users, NEW k \in Streams, TakeId(g, k)
  PROVE  RegistryInv'
<1> USE DEF RegistryInv
<1>1. k \in Kinds /\ k \notin Made BY Zenon DEF TakeId, Streams, Made
<1>2. PICK id \in nextId(bits[k]) :
            /\ bits' = [bits EXCEPT ![k] = setId(@, id)]
            /\ holds' = holds \cup {NewHold(g, k, id, nobj + 1, 0, "id")}
  BY Zenon DEF TakeId
<1>3. nobj + 1 \in Objs BY Zenon, FreshObj DEF TakeId
<1>4. TablesOf(bits', m', holds') BY Zenon, <1>1, <1>2, <1>3, TakeTables DEF TakeId
<1>5. Owners'
  <2> DEFINE x == NewHold(g, k, id, nobj + 1, 0, "id")
  <2>1. x.obj = nobj + 1 /\ x.k = k /\ holds' = holds \cup {x}
    BY Zenon, <1>2 DEF NewHold
  <2> HIDE DEF x
  <2>2. /\ Fresh /\ nobj' = nobj + 1 /\ UNCHANGED released
        /\ made' = IF x.k \in Made THEN made \cup {nobj + 1} ELSE made
    BY Zenon, <1>1, <2>1 DEF TakeId
  <2> QED BY Zenon, <2>1, <2>2, OwnersAdd DEF TablesOf
<1> QED BY Zenon, <1>4, <1>5 DEF TakeId, NoCall

\* A callback changes no table, and finds the object it is for.
LEMMA CallbackInv ==
  ASSUME RegistryInv, NEW h \in holds, NEW results, Callback(h, results)
  PROVE  RegistryInv'
<1> USE DEF RegistryInv
<1>1. Stored(h) BY Zenon DEF Callback, Stored
<1>2. h.k \in Kinds /\ h.id \in DOMAIN m[h.k] BY Zenon, <1>1 DEF TablesOf, Hold
<1>3. Found(h) = h.obj BY Zenon, <1>1, <1>2 DEF TablesOf, Found
<1>4. called'.got = called'.want BY <1>3 DEF Callback
<1>5. TablesOf(bits', m', holds') BY Zenon DEF Callback
<1>6. Owners' BY Zenon DEF Callback, Owners, ReleasedOnce
<1> QED BY Zenon, <1>4, <1>5, <1>6

\* Every step keeps the invariant: one case for each action.
LEMMA StepInv ==
  ASSUME RegistryInv, RegistryNext
  PROVE  RegistryInv'
<1>0. /\ \A h \in holds : h \in Hold /\ h.g \in Users /\ h.k \in Kinds /\ h.obj \in Objs
      /\ \A h \in holds : Stored(h) \/ h.k \in Streams
      /\ TablesOf(bits, m, holds)
  BY Zenon DEF RegistryInv, TablesOf, Hold
<1>1. ASSUME NEW g \in Users, CreateFunction(g) PROVE RegistryInv'
  <2>1. ASSUME NEW k \in {"func", "factory"}, RegisterObject(g, k) PROVE RegistryInv'
    BY Zenon, <2>1, RegisterInv DEF RegisterObject, Made
  <2> QED BY Zenon, <1>1, <2>1 DEF CreateFunction
<1>2. ASSUME NEW g \in Users, SetCollation(g) PROVE RegistryInv'
  BY Zenon, <1>2, RegisterInv DEF SetCollation, RegisterObject, Made
<1>3. ASSUME NEW g \in Users, SetModule(g) PROVE RegistryInv'
  BY Zenon, <1>3, RegisterInv DEF SetModule, RegisterObject, Made
<1>4. ASSUME NEW g \in Users, SetAuxData(g) PROVE RegistryInv'
  BY Zenon, <1>4, RegisterInv DEF SetAuxData, RegisterObject, Made
<1>5. ASSUME NEW g \in Users, Connect(g) PROVE RegistryInv'
  BY Zenon, <1>5, MakeInv DEF Connect, Made
<1>6. ASSUME NEW g \in Users, NewAggregate(g) PROVE RegistryInv'
  BY Zenon, <1>6, MakeInv DEF NewAggregate, Made
<1>7. ASSUME NEW g \in Users, registerStreamReader(g) PROVE RegistryInv'
  BY Zenon, <1>7, TakeInv DEF registerStreamReader, Streams
<1>8. ASSUME NEW g \in Users, registerStreamWriter(g) PROVE RegistryInv'
  BY Zenon, <1>8, TakeInv DEF registerStreamWriter, Streams
<1>9. ASSUME NEW g \in Users, ApplyChangeset(g) PROVE RegistryInv'
  BY Zenon, <1>9, TakeInv DEF ApplyChangeset, Streams
<1>10. ASSUME NEW h \in holds, SqliteTakes(h) PROVE RegistryInv'
  <2>1. Stored(h) /\ Phase(h, "held") /\ m' = m /\ bits' = bits
    BY Zenon, <1>10 DEF SqliteTakes, Stored
  <2>2. TablesOf(bits', m', holds') BY Zenon, <1>0, <2>1, PhaseTables
  <2> QED BY Zenon, <1>10, <2>1, <2>2, PhaseInv DEF SqliteTakes
<1>11. ASSUME NEW h \in holds, SqliteRefuses(h) PROVE RegistryInv'
  <2>1. Stored(h) /\ h.k \notin Made
    BY Zenon, <1>11 DEF SqliteRefuses, Stored, Passed, Made
  <2>2. CASE h.k = "coll"
    <3>1. Phase(h, "failed") /\ m' = m /\ bits' = bits
      BY Zenon, <1>11, <2>2 DEF SqliteRefuses
    <3>2. TablesOf(bits', m', holds') BY Zenon, <1>0, <2>1, <3>1, PhaseTables
    <3> QED BY Zenon, <1>11, <3>1, <3>2, PhaseInv DEF SqliteRefuses
  <2>3. CASE h.k # "coll" BY Zenon, <1>11, <2>1, <2>3, ForgetInv DEF SqliteRefuses
  <2> QED BY Zenon, <2>2, <2>3
<1>12. ASSUME NEW h \in holds, CleanUp(h) PROVE RegistryInv'
  <2>1. Stored(h) BY Zenon, <1>12 DEF CleanUp, Stored
  <2>2. h.k \notin Made BY Zenon, <1>12 DEF CleanUp, Made
  <2> QED BY Zenon, <1>12, <2>1, <2>2, ForgetInv DEF CleanUp
<1>13. ASSUME NEW h \in holds, Drop(h) PROVE RegistryInv'
  BY Zenon, <1>13, ForgetInv DEF Drop, Stored, Passed, Made
<1>14. ASSUME NEW h \in holds, OpenCursor(h) PROVE RegistryInv'
  BY Zenon, <1>0, <1>14, MakeInv DEF OpenCursor, Made
<1>15. ASSUME NEW h \in holds, CloseCursor(h) PROVE RegistryInv'
  BY Zenon, <1>15, ReleaseInv DEF CloseCursor, Made
<1>16. ASSUME NEW h \in holds, DisconnectTable(h) PROVE RegistryInv'
  BY Zenon, <1>16, ReleaseInv DEF DisconnectTable, Made
<1>17. ASSUME NEW h \in holds, FinalizeAggregate(h) PROVE RegistryInv'
  BY Zenon, <1>17, ReleaseInv DEF FinalizeAggregate, Made
<1>18. ASSUME NEW h \in holds, StoreStream(h) PROVE RegistryInv'
  <2>1. Phase(h, "held") /\ m' = Store(h.k, h.id, h.obj) /\ bits' = bits
    BY Zenon, <1>18 DEF StoreStream
  <2>2. TablesOf(bits', m', holds') BY Zenon, <1>0, <2>1, PhaseTables
  <2> QED BY Zenon, <1>18, <2>1, <2>2, PhaseInv DEF StoreStream
<1>19. ASSUME NEW h \in holds, DeleteStream(h) PROVE RegistryInv'
  <2>1. h.k \in Streams /\ Phase(h, "deleted") /\ m' = Delete(h.k, h.id) /\ bits' = bits
    BY Zenon, <1>19 DEF DeleteStream
  <2>2. TablesOf(bits', m', holds') BY Zenon, <1>0, <2>1, PhaseTables
  <2> QED BY Zenon, <1>19, <2>1, <2>2, PhaseInv DEF DeleteStream
<1>20. ASSUME NEW h \in holds, ReclaimStream(h) PROVE RegistryInv'
  <2>1. ~ Stored(h) BY Zenon, <1>20 DEF ReclaimStream, Stored
  <2>2. TablesOf(bits', m', holds')
    BY Zenon, <1>0, <1>20, <2>1, ReclaimTables DEF ReclaimStream
  <2>3. h.k \notin Made BY Zenon, <1>0, <2>1 DEF Streams, Made
  <2>4. Owners' BY Zenon, <1>20, <2>3, OwnersSame DEF ReclaimStream, RegistryInv
  <2> QED BY Zenon, <1>20, <2>2, <2>4 DEF ReclaimStream, RegistryInv, NoCall
<1>21. ASSUME NEW h \in holds,
              \/ CallFunction(h) \/ CallAggregate(h) \/ CallCollation(h)
              \/ CallCursor(h) \/ CallBestIndex(h) \/ CallUpdate(h)
              \/ CallRename(h) \/ CallTransaction(h) \/ CallSavepoint(h)
              \/ CallReader(h) \/ CallWriter(h) \/ CallApply(h)
       PROVE  RegistryInv'
  <2>1. PICK results : Callback(h, results)
    BY Zenon, <1>21 DEF CallFunction, CallAggregate, CallCollation, CallCursor, CallBestIndex,
                 CallUpdate, CallRename, CallTransaction, CallSavepoint, CallReader,
                 CallWriter, CallApply
  <2> QED BY Zenon, <2>1, CallbackInv
<1> QED
  BY Zenon, <1>1, <1>2, <1>3, <1>4, <1>5, <1>6, <1>7, <1>8, <1>9, <1>10, <1>11, <1>12, <1>13,
     <1>14, <1>15, <1>16, <1>17, <1>18, <1>19, <1>20, <1>21
  DEF RegistryNext

\* The stuttering steps.
LEMMA StutterInv ==
  ASSUME RegistryInv, UNCHANGED regvars
  PROVE  RegistryInv'
BY Zenon DEF RegistryInv, Owners, ReleasedOnce, regvars

\* For any number of connections, objects and bits of a word, whatever the order
\* of calls, callbacks and failures: the invariant holds.
THEOREM RegistryInvHolds == RegistrySpec => []RegistryInv
<1>1. RegistryInv /\ [RegistryNext]_regvars => RegistryInv'
  BY Zenon, StepInv, StutterInv
<1> QED BY InitInv, <1>1, PTL DEF RegistrySpec

\* The bitsets, the maps and the ids that SQLite holds agree at all times: no id
\* is shared, leaks or is handed out again too early, and every callback finds
\* its object.
THEOREM RegistryMirrors == RegistrySpec => []RegistryMirrorsSqlite
<1>1. RegistryInv => RegistryMirrorsSqlite BY Zenon, InvImplies
<1> QED BY <1>1, RegistryInvHolds, PTL

\* Every table, cursor and aggregate is released once, when SQLite has done with
\* it and not before.
THEOREM RegistryReleasesOnce == RegistrySpec => []ReleasedOnce
<1>1. RegistryInv => ReleasedOnce BY Zenon, InvImplies
<1> QED BY <1>1, RegistryInvHolds, PTL

\* The variables keep their types.
THEOREM RegistryTypes == RegistrySpec => []RegistryTypeOK
<1>1. RegistryInv => RegistryTypeOK BY Zenon, InvImplies
<1> QED BY <1>1, RegistryInvHolds, PTL
=============================================================================
