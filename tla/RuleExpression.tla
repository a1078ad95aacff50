---------------------------- MODULE RuleExpression ----------------------------
(***************************************************************************)
(* What a rule's expression says of a list of forecast points              *)
(* (domain/rule_expression).  An expression is one comparison of a function *)
(* of one metric with a limit: the CEL operators that combine comparisons  *)
(* are the library's.                                                      *)
(*                                                                         *)
(* A tick is even on the hour and odd somewhere between two hours, seconds *)
(* included.  Local time is UTC plus Offset: a day on which the clocks     *)
(* change is left out.                                                     *)
(***************************************************************************)
EXTENDS Integers, SequencesExt

CONSTANTS
  Metrics,     \* the metrics of a forecast point
  TextMetrics, \* those a point keeps as text: weather_code
  DayHours,    \* hours of a day
  Week,        \* days of a week; the last two are Saturday and Sunday
  Offset       \* local time minus UTC, in ticks

Hour == 2
Day == DayHours * Hour

ASSUME ExpressionAssumption ==
  /\ TextMetrics \subseteq Metrics
  /\ DayHours \in Nat \ {0}
  /\ Week \in Nat \ {0, 1}
  /\ Offset \in 0 .. Day - 1
  /\ Offset % Hour = 0

-----------------------------------------------------------------------------
(* Time ranges.                                                            *)

LocalDay(t) == (t + Offset) \div Day
Midnight(d) == d * Day - Offset
DaysOf(from, to) == [start |-> Midnight(from), end |-> Midnight(to + 1) - 1]

\* Mutant: on a Sunday the weekend is the one to come.
SaturdayAhead(d) == LET weekday == d % Week IN
  IF weekday = Week - 1 THEN d + (Week - 1) ELSE d + (Week - 2 - weekday)

Saturday(d) == LET weekday == d % Week IN
  IF weekday = Week - 1 THEN d - 1 ELSE d + (Week - 2 - weekday)

BaseKinds == {"now", "today", "tomorrow", "weekend", "next_hours", "date_range"}

BaseRange(r, now) ==
  CASE r.kind = "now"        -> [start |-> now, end |-> now]
    [] r.kind = "today"      -> DaysOf(LocalDay(now), LocalDay(now))
    [] r.kind = "tomorrow"   -> DaysOf(LocalDay(now) + 1, LocalDay(now) + 1)
    [] r.kind = "weekend"    -> LET sat == Saturday(LocalDay(now))
                                IN  DaysOf(sat, sat + 1)
    [] r.kind = "next_hours" -> [start |-> now, end |-> now + r.n * Hour]
    [] r.kind = "date_range" -> [start |-> r.start, end |-> r.end]

\* Mutant: the limits are times of UTC.
BetweenUtc(range, from, to) ==
  LET midnight == (range.start \div Day) * Day
  IN  [start |-> midnight + from * Hour, end |-> midnight + to * Hour]

\* between: both limits are on the day its argument starts, and keep the seconds
\* of that start; where its argument ends makes no difference.
Between(range, from, to) ==
  LET seconds == range.start % Hour
      At(hour) == Midnight(LocalDay(range.start)) + hour * Hour + seconds
  IN  [start |-> At(from), end |-> At(to)]

\* The argument of a between is one of the other ranges.
IsTimeRange(r) == IF r.kind = "between" THEN r.of.kind \in BaseKinds ELSE r.kind \in BaseKinds

RangeAt(r, now) ==
  IF r.kind = "between" THEN Between(BaseRange(r.of, now), r.from, r.to)
                        ELSE BaseRange(r, now)

\* datetime.replace takes the hours of a day only.
RangeReadable(r) == r.kind = "between" => {r.from, r.to} \subseteq 0 .. DayHours - 1

-----------------------------------------------------------------------------
(* Lists, taken apart and put in order by the positions of their elements. *)

\* The elements of s at these positions, sorted by the keys the positions have; equal
\* keys stay in the order of the list.  (SubSeq changes nothing, but TLC then keeps
\* the list as it is.)
Arranged(s, positions, key) ==
  LET n == Cardinality(positions)
      Before(i) == {j \in positions : key[j] < key[i] \/ (key[j] = key[i] /\ j < i)}
      Place(k) == CHOOSE i \in positions : Cardinality(Before(i)) = k - 1
  IN  SubSeq([k \in 1 .. n |-> s[Place(k)]], 1, n)

Chosen(s, positions) == Arranged(s, positions, [i \in positions |-> i])

-----------------------------------------------------------------------------
(* Points: [time, values], each value a set of one number, or empty.       *)

\* Mutant: the end of a range is not part of it.
InRangeOpen(t, range) == range.start <= t /\ t < range.end

InRange(t, range) == range.start <= t /\ t <= range.end

PointsInRange(points, range) ==
  Chosen(points, {i \in DOMAIN points : InRange(points[i].time, range)})

Has(p, m) == p.values[m] # {}
ValueOf(p, m) == CHOOSE v \in p.values[m] : TRUE

MetricValues(points, m, range) ==
  LET inside == PointsInRange(points, range)
      present == Chosen(inside, {i \in DOMAIN inside : Has(inside[i], m)})
  IN  [i \in DOMAIN present |-> ValueOf(present[i], m)]

-----------------------------------------------------------------------------
(* Functions of a list of values, as fractions.                            *)

Whole(n) == [num |-> n, den |-> 1]
Total(vals) == FoldLeft(+, 0, vals)
Mean(vals) == [num |-> Total(vals), den |-> Len(vals)]
Minus(x, y) == [num |-> x.num * y.den - y.num * x.den, den |-> x.den * y.den]
Sorted(vals) == Arranged(vals, DOMAIN vals, vals)
Change(vals) == vals[Len(vals)] - vals[1]
Magnitude(n) == IF n < 0 THEN -n ELSE n

Median(vals) ==
  LET s == Sorted(vals)  mid == Len(vals) \div 2 IN
  IF Len(vals) % 2 = 0 THEN [num |-> s[mid] + s[mid + 1], den |-> 2]
                       ELSE Whole(s[mid + 1])

\* The square of stddev_metric.
Variance(vals) ==
  LET n == Len(vals)
      off == [i \in DOMAIN vals |-> n * vals[i] - Total(vals)]
  IN  [num |-> Total([i \in DOMAIN vals |-> off[i] * off[i]]), den |-> n * n * n]

\* The two positions a percentile lies between: indices of Python, so that -1 is
\* the last one.
Rank(p, n) == p * (n - 1)
Lower(p, n) == Rank(p, n) \div 100
Upper(p, n) == -((-Rank(p, n)) \div 100)
Indexes(i, n) == -n <= i /\ i < n
At(s, i) == IF i < 0 THEN s[Len(s) + i + 1] ELSE s[i + 1]

Percentile(p, vals) ==
  LET s == Sorted(vals)  n == Len(vals)
      low == At(s, Lower(p, n))  high == At(s, Upper(p, n))
  IN  [num |-> 100 * low + (Rank(p, n) - 100 * Lower(p, n)) * (high - low),
       den |-> 100]

-----------------------------------------------------------------------------
(* The value of an expression e == [fn, metric, range, arg, op, limit].    *)

\* points_between(range).filter(p, p.metric > arg)
Filtered(e, points, now) ==
  LET inside == PointsInRange(points, RangeAt(e.range, now))
  IN  Chosen(inside, {i \in DOMAIN inside : ValueOf(inside[i], e.metric) > e.arg})

\* The values a function is applied to; a metric that is named without one is
\* that of the first point.
Values(e, points, now) ==
  IF e.fn = "bare"
  THEN IF Has(points[1], e.metric) THEN <<ValueOf(points[1], e.metric)>> ELSE <<>>
  ELSE MetricValues(points, e.metric, RangeAt(e.range, now))

\* The errors of the functions of the registry, given their values.
Fails(e, vals, previous) ==
  \/ vals = <<>>
  \/ e.fn \in {"delta", "abs_delta", "rate_of_change"} /\ Len(vals) < 2
  \/ e.fn = "rate_of_change" /\ vals[1] = 0
  \/ /\ e.fn = "pctl"
     /\ \E i \in {Lower(e.arg, Len(vals)), Upper(e.arg, Len(vals))} :
          ~Indexes(i, Len(vals))
  \/ e.fn = "forecast_delta" /\ previous = <<>>

Raises(e, points, previous, now) ==
  CASE e.fn = "duration" ->
         \E p \in Range(PointsInRange(points, RangeAt(e.range, now))) : ~Has(p, e.metric)
    [] e.fn = "bare" /\ e.metric \in TextMetrics -> TRUE
    [] OTHER -> Fails(e, Values(e, points, now), Values(e, previous, now))

\* forecast_delta looks into both lists, everything else into the first.
Value(e, points, previous, now) ==
  LET vals == Values(e, points, now) IN
  CASE e.fn = "duration"       -> Whole(60 * Len(Filtered(e, points, now)))
    [] e.fn = "bare"           -> Whole(vals[1])
    [] e.fn = "min"            -> Whole(Min(Range(vals)))
    [] e.fn = "max"            -> Whole(Max(Range(vals)))
    [] e.fn = "avg"            -> Mean(vals)
    [] e.fn = "sum"            -> Whole(Total(vals))
    [] e.fn = "median"         -> Median(vals)
    [] e.fn = "stddev"         -> Variance(vals)
    [] e.fn = "pctl"           -> Percentile(e.arg, vals)
    [] e.fn = "delta"          -> Whole(Change(vals))
    [] e.fn = "abs_delta"      -> Whole(Magnitude(Change(vals)))
    [] e.fn = "rate_of_change" -> [num |-> Change(vals), den |-> Magnitude(vals[1])]
    [] e.fn = "forecast_delta" -> Minus(Mean(vals), Mean(Values(e, previous, now)))

\* The standard deviation is compared by its square (no limit is negative).
Limit(e) == IF e.fn = "stddev" THEN e.limit * e.limit ELSE e.limit

Compare(x, op, limit) ==
  LET d == x.num - limit * x.den IN
  CASE op = ">"  -> d > 0
    [] op = ">=" -> d >= 0
    [] op = "<"  -> d < 0
    [] op = "<=" -> d <= 0

-----------------------------------------------------------------------------

Registry == {"bare", "duration", "min", "max", "avg", "sum", "median", "stddev",
             "pctl", "delta", "abs_delta", "rate_of_change", "forecast_delta"}

\* A trial in which every function finds the values 1.0 and 2.0, every point is
\* complete, and forecast_delta returns at once.
Trial(e) == e.fn \in {"bare", "duration", "forecast_delta"} \/ ~Fails(e, <<1, 2>>, <<>>)

\* validate: the names of the allowlist, then the trial.
Accepts(e) ==
  /\ e.fn \in Registry
  /\ e.metric \in Metrics
  /\ RangeReadable(e.range)
  /\ Trial(e)

\* Mutant: a result that is no boolean is a verdict.
EvaluateAny(e, points, previous, now) ==
  IF ~Accepts(e) \/ Raises(e, points, previous, now) THEN "error"
  ELSE IF e.op = "none" THEN "number"
  ELSE IF Compare(Value(e, points, previous, now), e.op, Limit(e)) THEN "true" ELSE "false"

\* evaluate: "error" is every exception, and a result that is no boolean.
Evaluate(e, points, previous, now) ==
  IF ~Accepts(e) \/ Raises(e, points, previous, now) \/ e.op = "none" THEN "error"
  ELSE IF Compare(Value(e, points, previous, now), e.op, Limit(e)) THEN "true" ELSE "false"
=============================================================================
