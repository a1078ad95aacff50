--------------------------- MODULE WeatherRequestsMC ---------------------------
(* Small instances of WeatherRequests. *)
EXTENDS WeatherRequests

\* Five numbers that rise and fall, another run of them for each metric.
MCWeather == [m \in Metrics |-> [h \in 0 .. 40 |->
                IF m = "code" THEN (h * h) % 4 ELSE ((h * 7 + h \div 5) % 6) - 2]]
MCOldWeather == [m \in Metrics |-> [h \in 0 .. 40 |-> ((h * 5) % 7) - 2]]

MCDistance == [s \in Stations |-> CASE s = 1 -> 5 [] s = 2 -> 1 [] s = 3 -> 9 [] OTHER -> Unlisted]

Simple(kind) == [kind |-> kind]
Rule(fn, range, arg, op, limit) ==
  [fn |-> fn, metric |-> "gusts", range |-> range, arg |-> arg, op |-> op, limit |-> limit]

Next3 == [kind |-> "next_hours", n |-> 3]
SomeHours == [kind |-> "between", of |-> Simple("tomorrow"), from |-> 1, to |-> 2]
Evening == [kind |-> "between", of |-> Simple("today"), from |-> 2, to |-> 3]

MCExpressions ==
  {Rule("min", Simple("today"), 0, "<", 0), Rule("min", Next3, 0, ">=", 0),
   Rule("max", Simple("weekend"), 0, ">=", 3), Rule("max", SomeHours, 0, "<=", 1),
   Rule("avg", Simple("tomorrow"), 0, ">", 0), Rule("sum", Next3, 0, "<=", 2),
   Rule("median", Simple("weekend"), 0, ">", 0), Rule("median", Next3, 0, "<", 1),
   Rule("pctl", Simple("tomorrow"), 75, ">=", 1), Rule("pctl", Next3, 150, ">=", 1),
   Rule("stddev", Simple("tomorrow"), 0, ">", 2), Rule("delta", Simple("tomorrow"), 0, ">=", 0),
   Rule("abs_delta", Next3, 0, ">", 2), Rule("rate_of_change", Simple("tomorrow"), 0, "<", 0),
   Rule("forecast_delta", Simple("tomorrow"), 0, "<=", 0),
   Rule("duration", Next3, 0, ">=", 120), Rule("bare", Simple("now"), 0, ">=", 0),
   Rule("max", Evening, 0, ">=", 3), Rule("sum", SomeHours, 0, "<", 0),
   Rule("max", [kind |-> "date_range", start |-> 15, end |-> 24], 0, ">", 2),
   Rule("max", Simple("now"), 0, "none", 0),
   [Rule("max", Simple("today"), 0, ">", 2) EXCEPT !.metric = "code"],
   [Rule("bare", Simple("today"), 0, ">", 2) EXCEPT !.metric = "code"]}

MCComparison == {Rule("forecast_delta", Simple("tomorrow"), 0, "<=", 0)}

MCLost ==
  {Clean, [Clean EXCEPT !.kind = "empty"]}
  \union [kind : {"time"}, at : {1, 3, 5}, metric : {"none"}]
  \union [kind : {"null"}, at : {1, 4}, metric : {"gusts"}]
  \union [kind : {"short"}, at : {1, 6}, metric : {"gusts"}]
  \union [kind : {"garbled"}, at : {2}, metric : {"gusts"}]
MCClean == {Clean}

Item(number, degree, from, to) ==
  [number |-> number, event |-> 1, degree |-> degree, from |-> from, to |-> to]
MCWarnings ==
  {Item(0, 1, 10, 12), Item(0, 2, 10, 12), Item(7, 1, 10, 14), Item(7, 1, 10, 12),
   Item(7, 2, 11, 12), Item(8, 1, 10, Unreadable)}

Place(text, name, importance) ==
  [polish |-> TRUE, located |-> TRUE, place |-> TRUE, importance |-> importance,
   text |-> text, name |-> name]
MCCandidates ==
  {Place({"a", "b"}, {"a"}, 3), Place({"a"}, {"a"}, 9),
   [Place({"a", "b"}, {"a", "b"}, 0) EXCEPT !.place = FALSE],
   [Place({"a", "b"}, {"a", "b"}, 5) EXCEPT !.polish = FALSE],
   [Place({"b"}, {"b"}, 5) EXCEPT !.located = FALSE]}

\* The system comes to rest when the last job is done: any other state without a
\* next one is a deadlock.
Rest == Idle /\ jobs = MaxJobs /\ UNCHANGED vars

MCNext == Next \/ Rest
MCSpec == Init /\ [][MCNext]_vars
=============================================================================
