------------------------------ MODULE RuleMeaning ------------------------------
(***************************************************************************)
(* The meaning of a rule's expression, said without lists and limits: a    *)
(* set of hours, and a number for each of them.  RuleExpression computes   *)
(* the same from the points an answer has been turned into.                *)
(***************************************************************************)
EXTENDS RuleExpression

-----------------------------------------------------------------------------
(* The hours a time range is about, as the registry describes it.          *)

TimeOfDay(t) == (t + Offset) % Day
IsWeekend(d) == d % Week \in {Week - 2, Week - 1}

CoversBase(r, now, t) ==
  \/ r.kind = "now" /\ t = now
  \/ r.kind = "today" /\ LocalDay(t) = LocalDay(now)
  \/ r.kind = "tomorrow" /\ LocalDay(t) = LocalDay(now) + 1
  \/ /\ r.kind = "weekend" /\ IsWeekend(LocalDay(t))
     /\ LocalDay(t) \div Week = LocalDay(now) \div Week
  \/ r.kind = "next_hours" /\ now <= t /\ t <= now + r.n * Hour
  \/ r.kind = "date_range" /\ r.start <= t /\ t <= r.end

\* "Constrain a time range to a local HHMM-HHMM interval": what of it is between the two
\* times of a day.
Covers(r, now, t) ==
  IF r.kind = "between"
  THEN /\ CoversBase(r.of, now, t)
       /\ r.from * Hour <= TimeOfDay(t) /\ TimeOfDay(t) <= r.to * Hour
  ELSE CoversBase(r, now, t)

\* A between the registry's words are true of: its argument is a day.  Of any other
\* argument the code keeps neither the end nor the minutes of the start, but the seconds.
Constrains(r) == r.kind = "between" => r.of.kind \in {"today", "tomorrow"}

-----------------------------------------------------------------------------
(* What a function says of them.                                           *)

\* The k-th smallest of the numbers of the hours H.
Kth(k, H, v) ==
  CHOOSE x \in {v[h] : h \in H} :
    /\ Cardinality({h \in H : v[h] < x}) < k
    /\ k <= Cardinality({h \in H : v[h] <= x})

MeanOf(H, v) == [num |-> SumFunctionOnSet(v, H), den |-> Cardinality(H)]
ChangeOf(H, v) == v[Max(H)] - v[Min(H)]

\* A percentile between 0 and 100 lies between two neighbours in the order of the
\* numbers, as far from the lower one as the rank is past it.
PercentileOf(p, H, v) ==
  LET last == Cardinality(H) - 1
      k == (p * last) \div 100
      low == Kth(k + 1, H, v)
      high == Kth(IF k = last THEN k + 1 ELSE k + 2, H, v)
  IN  [num |-> 100 * low + (p * last - 100 * k) * (high - low), den |-> 100]

SpreadOf(H, v) ==
  LET n == Cardinality(H)  square == [h \in H |-> v[h] * v[h]] IN
  [num |-> n * SumFunctionOnSet(square, H) - SumFunctionOnSet(v, H) * SumFunctionOnSet(v, H), den |-> n * n]

\* H: the hours of the range with a number; times: all hours of the answer; old,
\* u: the hours of the range stored with the snapshot before, and their numbers.
Meaningless(e, H, inRange, times, v, old) ==
  \/ e.op = "none"
  \/ CASE e.fn = "bare"     -> e.metric \in TextMetrics \/ Min(times) \notin H
       [] e.fn = "duration" -> inRange # H
       [] OTHER ->
            \/ H = {}
            \/ e.fn \in {"delta", "abs_delta", "rate_of_change"} /\ Cardinality(H) = 1
            \/ e.fn = "rate_of_change" /\ v[Min(H)] = 0
            \/ e.fn = "forecast_delta" /\ old = {}

Means(e, H, times, v, old, u) ==
  LET Is(x) == Compare(x, e.op, e.limit)
      upward == e.op \in {">", ">="}
  IN
  CASE e.fn = "min" -> IF upward THEN \A h \in H : Is(Whole(v[h]))
                                 ELSE \E h \in H : Is(Whole(v[h]))
    [] e.fn = "max" -> IF upward THEN \E h \in H : Is(Whole(v[h]))
                                 ELSE \A h \in H : Is(Whole(v[h]))
    [] e.fn = "avg"            -> Is(MeanOf(H, v))
    [] e.fn = "sum"            -> Is(Whole(SumFunctionOnSet(v, H)))
    [] e.fn = "median"         -> Is(PercentileOf(50, H, v))
    [] e.fn = "pctl"           -> Is(PercentileOf(e.arg, H, v))
    [] e.fn = "stddev"         -> Compare(SpreadOf(H, v), e.op, e.limit * e.limit)
    [] e.fn = "delta"          -> Is(Whole(ChangeOf(H, v)))
    [] e.fn = "abs_delta"      -> Is(Whole(Max({ChangeOf(H, v), -ChangeOf(H, v)})))
    [] e.fn = "rate_of_change" ->
         Is([num |-> ChangeOf(H, v), den |-> Max({v[Min(H)], -v[Min(H)]})])
    [] e.fn = "duration"       -> Is(Whole(60 * Cardinality({h \in H : v[h] > e.arg})))
    [] e.fn = "bare"           -> Is(Whole(v[Min(times)]))
    [] e.fn = "forecast_delta" -> Is(Minus(MeanOf(H, v), MeanOf(old, u)))
=============================================================================
