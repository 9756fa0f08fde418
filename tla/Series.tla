------------------------------- MODULE Series -------------------------------
(***************************************************************************)
(* The generate_series virtual table (ext/generateseries): a query gives   *)
(* constraints and an ORDER BY term to BestIndex, SQLite passes the values *)
(* that the plan asks for to Filter, and reads rows until EOF.             *)
(* Integers wrap around as Go's int64 does.                                *)
(***************************************************************************)
EXTENDS Integers, Sequences

CONSTANTS
    Half,          \* half of the number of integers (2^63)
    DefaultStop,   \* stop when the query gives none (0xffffffff)
    Null           \* SQL's NULL

Ints == (0 - Half) .. (Half - 1)

ASSUME SeriesAssumption ==
    Half \in Nat \ {0} /\ DefaultStop \in Ints /\ Null \notin Int

Wrap(n) == ((n + Half) % (2 * Half)) - Half

\* Go's %, which has the sign of the dividend.
GoMod(a, b) == IF a >= 0 THEN a % b ELSE 0 - ((0 - a) % b)

Columns == {"start", "stop", "step"}

VARIABLES
    sphase,   \* where the query is
    where,    \* constraint of each column
    order,    \* the ORDER BY term on value
    plan,     \* outputs of BestIndex
    cur,      \* the cursor
    rows      \* what the query has returned

seriesvars == <<sphase, where, order, plan, cur, rows>>

\* What the WHERE clause says of a hidden column: nothing, "= v", "= v" that
\* cannot be used, or another comparison.
Constraint == [op : {"none", "unusable", "other"}, v : {Null}]
              \cup [op : {"eq"}, v : Ints \cup {Null}]
IsEq(c) == where[c].op = "eq"

NoPlan == [bits |-> {}, consumed |-> FALSE]
NewCursor == [isDesc |-> FALSE, rowid |-> 0, value |-> 0, mnValue |-> 0,
              mxValue |-> 0, step |-> 0]

SeriesInit ==
    /\ sphase = "idle"
    /\ where = [c \in Columns |-> [op |-> "none", v |-> Null]]
    /\ order = "none"
    /\ plan = NoPlan
    /\ cur = NewCursor
    /\ rows = <<>>

Query ==
    /\ sphase = "idle"
    /\ where' \in [Columns -> Constraint]
    /\ order' \in {"none", "asc", "desc"}
    /\ sphase' = "asked"
    /\ UNCHANGED <<plan, cur, rows>>

\* The bits of idxNum are the columns that have a usable "=".  8 and 16 (the
\* order) are added to the variable after outputs.ID has been set from it.
IdxNum == {c \in Columns : IsEq(c)}

BestIndex ==
    /\ sphase = "asked"
    /\ IF where["start"].op = "none" \/ \E c \in Columns : where[c].op = "unusable"
       THEN sphase' = "refused" /\ UNCHANGED plan
       ELSE /\ plan' = [bits |-> IdxNum,
                        consumed |-> {"start", "stop"} \subseteq IdxNum /\ order # "none"]
            /\ sphase' = "planned"
    /\ UNCHANGED <<where, order, cur, rows>>

\* BestIndex numbers the columns with an "=" from start to step (ArgvIndex), and
\* Filter takes the values in the same order: each column gets its own.  A NULL
\* reads as 0 (Value.Int64).
Arg(c, default) ==
    IF c \notin plan.bits THEN default
    ELSE IF where[c].v = Null THEN 0 ELSE where[c].v
AnyNull == \E c \in plan.bits : where[c].v = Null

\* Mutant: the descending scan starts at stop itself.
FilterFromStop ==
    /\ sphase = "planned"
    /\ LET given == Arg("step", 1)
           step == IF given = 0 THEN 1 ELSE IF given < 0 THEN Wrap(0 - given) ELSE given
           mn == IF AnyNull THEN 1 ELSE Arg("start", 0)
           mx == IF AnyNull THEN 0 ELSE Arg("stop", DefaultStop)
       IN  cur' = [isDesc |-> given < 0, rowid |-> 1, mnValue |-> mn,
                   mxValue |-> mx, step |-> step,
                   value |-> IF given < 0 THEN mx ELSE mn]
    /\ sphase' = "scanning"
    /\ UNCHANGED <<where, order, plan, rows>>

\* cursor.Filter.  Bits 8 and 16 are never set in id.Num, so only a negative
\* step makes the scan descend.
Filter ==
    /\ sphase = "planned"
    /\ LET given == Arg("step", 1)
           step == IF given = 0 THEN 1 ELSE IF given < 0 THEN Wrap(0 - given) ELSE given
           mn == IF AnyNull THEN 1 ELSE Arg("start", 0)
           mx == IF AnyNull THEN 0 ELSE Arg("stop", DefaultStop)
           last == IF step > 0 THEN Wrap(mx - GoMod(Wrap(mx - mn), step)) ELSE mx
       IN  cur' = [isDesc |-> given < 0, rowid |-> 1, mnValue |-> mn,
                   mxValue |-> mx, step |-> step,
                   value |-> IF given < 0 THEN last ELSE mn]
    /\ sphase' = "scanning"
    /\ UNCHANGED <<where, order, plan, rows>>

EOF == IF cur.isDesc THEN cur.value < cur.mnValue ELSE cur.value > cur.mxValue

\* SQLite reads a row (Column, RowID) and calls Next.  The bound on the rows
\* stops the scans that wrap around and never end.
NextRow ==
    /\ sphase = "scanning"
    /\ ~EOF
    /\ Len(rows) <= 2 * Half
    /\ rows' = Append(rows, <<cur.rowid, cur.value>>)
    /\ cur' = [cur EXCEPT !.rowid = @ + 1,
                          !.value = Wrap(IF cur.isDesc THEN @ - cur.step ELSE @ + cur.step)]
    /\ UNCHANGED <<sphase, where, order, plan>>

ScanEnds ==
    /\ sphase = "scanning"
    /\ EOF
    /\ sphase' = "done"
    /\ UNCHANGED <<where, order, plan, cur, rows>>

SeriesNext == Query \/ BestIndex \/ Filter \/ NextRow \/ ScanEnds

SeriesSpec == SeriesInit /\ [][SeriesNext]_seriesvars
-----------------------------------------------------------------------------
\* What start, stop and step are as numbers, by SQL's rules.
Start == IF IsEq("start") THEN where["start"].v ELSE 0
Stop == IF IsEq("stop") THEN where["stop"].v ELSE DefaultStop
Step == IF IsEq("step") THEN where["step"].v ELSE 1
HasNull == Null \in {Start, Stop, Step}
Stride == IF Step = 0 THEN 1 ELSE IF Step < 0 THEN 0 - Step ELSE Step

\* The numbers of the series.
SeriesSet ==
    IF HasNull THEN {} ELSE {n \in Ints : n >= Start /\ n <= Stop /\ (n - Start) % Stride = 0}

\* Nothing that Filter or Next computes is out of range: the series ends one
\* step before the last integer, or begins one step after the first.
InRange ==
    ~HasNull =>
       /\ Stop - Start \in Ints
       /\ Stride \in Ints
       /\ Stop + Stride \in Ints
       /\ Start - Stride \in Ints

\* A descending scan of a series that is empty or has a NULL (mnValue 1, mxValue
\* 0): the remainder that Filter takes off mxValue is negative, and when the
\* stride is larger than mnValue - mxValue the scan begins with mnValue.
DescendsFromBelow == IsEq("step") /\ Step # Null /\ Step < 0 /\ SeriesSet = {}

\* The order of the scan.
Before(a, b) == IF ~HasNull /\ Step < 0 THEN a > b ELSE a < b

\* A query returns each number of the series once, numbered from 1, ascending
\* for a positive step and descending for a negative one, without a gap; NULL
\* gives no rows; and the scan ends with the last number (Filter, Next and EOF
\* agree on it), wherever no sum overflows and the scan does not descend through
\* an empty series.
ReturnsTheSeries ==
    (InRange /\ ~DescendsFromBelow) =>
       /\ \A i \in DOMAIN rows : rows[i][1] = i /\ rows[i][2] \in SeriesSet
       /\ \A i, j \in DOMAIN rows : i < j => Before(rows[i][2], rows[j][2])
       /\ \A j \in DOMAIN rows : \A n \in SeriesSet :
             Before(n, rows[j][2]) => \E i \in DOMAIN rows : rows[i][2] = n
       /\ sphase = "done" =>
             \A n \in SeriesSet : \E i \in DOMAIN rows : rows[i][2] = n

\* OrderByConsumed tells SQLite not to sort: the rows come in the order of the
\* ORDER BY clause ("output in descending order", generateseries.go:66; "If bit
\* 16 is set, then output must appear in ascending order", line 173).
OrderedAsAsked ==
    (plan.consumed /\ InRange) =>
       \A i \in 1 .. Len(rows) - 1 :
          IF order = "desc" THEN rows[i][2] > rows[i + 1][2]
                            ELSE rows[i][2] < rows[i + 1][2]
=============================================================================
