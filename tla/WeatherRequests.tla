---------------------------- MODULE WeatherRequests ----------------------------
(***************************************************************************)
(* One question to the outside world after the other: the forecast a rule  *)
(* is judged by (infrastructure/worker), the forecast, the chart and the   *)
(* observations a user asks for (llm/tools/weather_tools.py), the official *)
(* warnings (adapters/imgw/warnings_provider.py), and the place a name     *)
(* means (infrastructure/geocoder.py), with the attempts the adapters make, *)
(* what is left of an answer that has gaps, and what is kept of it.        *)
(*                                                                         *)
(* Time is in ticks of UTC (RuleExpression).  The forecast service answers *)
(* for whole days of UTC.                                                  *)
(***************************************************************************)
EXTENDS RuleMeaning, PlaceSearch

CONSTANTS
  Expressions, \* [fn, metric, range, arg, op, limit]
  Weather,     \* what the service answers: a number per metric and hour
  OldWeather,  \* what it answered when points were still stored
  Lost,        \* what may be wrong with an answer: [kind, at, metric]
  Horizon,     \* days the worker asks for, from now on
  Stations,    \* of the observation service
  Distance,    \* from the location asked about, or Unlisted
  Unlisted,
  Radius,
  Warnings,    \* of the warning services: [number, event, degree, from, to]
  Places,      \* locations that observations and warnings are asked for
  Candidates,  \* places the search service knows
  Starts,      \* bound: when the first job may start
  MaxItems,    \* bound: items of a list that is returned
  MaxDelay,    \* bound: how far the clock goes beyond the last request
  MaxJobs      \* bound: jobs

ASSUME RequestAssumption ==
  /\ Horizon \in Nat
  /\ Radius \in Nat
  /\ Candidates \subseteq Candidate
  /\ Starts \subseteq Nat
  /\ MaxItems \in Nat
  /\ MaxDelay \in Nat
  /\ MaxJobs \in Nat
  /\ "blank" \notin Words

VARIABLES
  now,
  enabled,   \* the location's flag
  snapshots, \* rows of forecast_snapshots: the points stored with each
  records,   \* rows of official_warnings and of observations, by id
  job,       \* the job at hand, or the one that ended last
  jobs       \* how many have started

vars == <<now, enabled, snapshots, records, job, jobs>>

-----------------------------------------------------------------------------
(* Answers of the forecast service.                                        *)

Clean == [kind |-> "clean", at |-> 0, metric |-> "none"]

DayOf(t) == t \div Day
HoursOf(days) ==
  [i \in 1 .. (days.last - days.first + 1) * DayHours |-> days.first * Day + (i - 1) * Hour]

\* The last hour a rule can be judged by.
LastHour == (DayOf(Max(Starts) + MaxJobs * MaxDelay) + Horizon + 1) * DayHours - 1

\* The weather is a number at every hour.  The epoch is past.  A percentile below 0 is
\* accepted and counts from the end of the list: no rule is meant to have one.
ASSUME WeatherAssumption ==
  /\ Starts # {} /\ IsFiniteSet(Starts)
  /\ \A t \in Starts : Hour <= t
  /\ \A m \in Metrics : \A h \in 0 .. LastHour : Weather[m][h] \in Int /\ OldWeather[m][h] \in Int
  /\ Lost \subseteq [kind : {"clean", "empty", "time", "null", "short", "garbled"}, at : Int,
                      metric : Metrics \union {"none"}]
  /\ \A e \in Expressions :
       /\ IsTimeRange(e.range)
       /\ e.op \in {">", ">=", "<", "<=", "none"}
       /\ e.limit \in Int
       /\ e.fn = "pctl" => e.arg \in Nat

\* Stations are somewhere or nowhere; times are numbers.
ASSUME RecordAssumption ==
  /\ \A s \in Stations : Distance[s] \in Int
  /\ \A w \in Warnings : w.from \in Int /\ w.to \in Int

\* Stands for a time that is none.
Unreadable == -1

\* One list of times and one list of values per metric; a missing list is one of
\* length zero.  A value is a set: of one number, of none for a null, or of two for
\* what is no number.
Garbled == {0, 1}

Response(days, lost) ==
  LET hours == HoursOf(days)
      Short(m) == lost.kind = "short" /\ lost.metric = m
      Length(m) == IF Short(m) THEN Min({lost.at - 1, Len(hours)}) ELSE Len(hours)
      Cell(m, i) == CASE lost = [kind |-> "null", at |-> i, metric |-> m] -> {}
                      [] lost = [kind |-> "garbled", at |-> i, metric |-> m] -> Garbled
                      [] OTHER -> {Weather[m][hours[i] \div Hour]}
  IN  [time |-> IF lost.kind = "empty" THEN <<>>
                ELSE [i \in DOMAIN hours |->
                        IF lost.kind = "time" /\ lost.at = i THEN Unreadable ELSE hours[i]],
       values |-> [m \in Metrics |-> [i \in 1 .. Length(m) |-> Cell(m, i)]]]

\* A time that cannot be read is skipped with its values.
Positions(response) ==
  Chosen([i \in DOMAIN response.time |-> i],
         {i \in DOMAIN response.time : response.time[i] # Unreadable})

\* Mutant: the values are counted from the first readable time on.
ParseDense(response) ==
  LET at == Positions(response) IN
  [k \in DOMAIN at |->
     [time |-> response.time[at[k]],
      values |-> [m \in Metrics |->
                    IF k <= Len(response.values[m]) THEN response.values[m][k] ELSE {}]]]

\* _parse_response: values belong to times by their index.
Parse(response) ==
  LET at == Positions(response) IN
  [k \in DOMAIN at |->
     [time |-> response.time[at[k]],
      values |-> [m \in Metrics |->
                    IF at[k] <= Len(response.values[m]) THEN response.values[m][at[k]]
                                                        ELSE {}]]]

\* float() raises, at a time that was read.
ParseRaises(response) ==
  \E m \in Metrics : \E i \in DOMAIN response.values[m] \intersect DOMAIN response.time :
    response.time[i] # Unreadable /\ response.values[m][i] = Garbled

-----------------------------------------------------------------------------
(* Jobs.                                                                   *)

NoDays == [first |-> 0, last |-> -1]

\* want: the expression, range, query or nothing; points, previous: what is judged,
\* drawn or shown; asked, at: when the request was made up and when the job ended.
\* History: trail, the endpoints that had nothing usable, or the rows on record before
\* those of the job; reply and lost, the last answer; missed, a fitting place was
\* returned and passed over.
Job(kind, pc, want) ==
  [kind |-> kind, pc |-> pc, want |-> want, failures |-> <<>>, days |-> NoDays,
   points |-> <<>>, previous |-> <<>>, outcome |-> "none", asked |-> now, at |-> now,
   trail |-> <<>>, reply |-> <<>>, lost |-> Clean, missed |-> FALSE]

Idle == job.pc = "done"
Is(kinds, pc) == job.kind \in kinds /\ job.pc = pc

Start(kind, pc, want) ==
  /\ Idle
  /\ jobs < MaxJobs
  /\ jobs' = jobs + 1
  /\ job' = Job(kind, pc, want)
  /\ UNCHANGED <<now, enabled, snapshots, records>>

EndWith(j, outcome) ==
  job' = [j EXCEPT !.pc = "done", !.outcome = outcome, !.at = now]

End(outcome) == EndWith(job, outcome)

\* A job that is refused before anything is asked.
Refuse(kind, want) ==
  /\ Idle
  /\ jobs < MaxJobs
  /\ jobs' = jobs + 1
  /\ EndWith(Job(kind, "done", want), "refused")
  /\ UNCHANGED <<now, enabled, snapshots, records>>

-----------------------------------------------------------------------------
(* The request for a forecast and its attempts.                            *)

Forecasts == {"rule", "forecast", "chart"}
Retried == Forecasts \union {"warnings"}
MaxRetries == 3

\* Mutant: the days of the local calendar.
RequestLocalDays(from, to) == [first |-> LocalDay(from), last |-> LocalDay(to)]

\* _build_params writes the dates of the two instants as they come: the worker's
\* are in UTC.
RequestDays(from, to) == [first |-> DayOf(from), last |-> DayOf(to)]

\* A rule that validate_expression and the trial have accepted.
StartRule(e) ==
  /\ Accepts(e)
  /\ Start("rule", "locate", e)

\* fetch_fresh_forecast: the location is on, one hour back to the horizon is
\* asked for; or the rule is not judged.
Locate ==
  /\ Is({"rule"}, "locate")
  /\ \/ /\ enabled
        /\ job' = [job EXCEPT !.pc = "send", !.asked = now,
                              !.days = RequestDays(now - Hour, now + Horizon * Day)]
     \/ /\ ~enabled
        /\ End("refresh_failed")
  /\ UNCHANGED <<now, enabled, snapshots, jobs, records>>

\* Another turn of the user removes the location.  Only Locate looks at it, so that
\* it may as well happen right before.
Disable ==
  /\ enabled
  /\ Is({"rule"}, "locate")
  /\ enabled' = FALSE
  /\ UNCHANGED <<now, snapshots, job, jobs, records>>

\* The tools name days of the local calendar, which the service takes for days of
\* UTC.
Ask(kind, range) ==
  /\ Idle
  /\ jobs < MaxJobs
  /\ jobs' = jobs + 1
  /\ job' = [Job(kind, "send", range) EXCEPT
               !.days = [first |-> LocalDay(range.start), last |-> LocalDay(range.end)]]
  /\ UNCHANGED <<now, enabled, snapshots, records>>

\* _execute_get_forecast: the end is 23:59 of the last day.
AskForecast(first, last) ==
  IF first <= last THEN Ask("forecast", DaysOf(first, last))
                   ELSE Refuse("forecast", DaysOf(first, last))

\* _execute_render_forecast_chart: hours of the first and of the last day; usable:
\* there is a reply to attach the chart to, and every variable can be drawn.
AskChart(range, usable) ==
  IF range.start <= range.end /\ usable THEN Ask("chart", range)
                                        ELSE Refuse("chart", range)

\* Timeouts and connections that fail; error statuses and responses that are not
\* the JSON expected (_make_request).
Failures == {"transport", "bad"}

\* Mutant: a response that is no forecast is asked for again.
RetriesAlso(failure) == TRUE

\* The latter are not tried again.
Retries(failure) == failure # "bad"

\* Mutant: the attempts are counted from nothing after each wait.
ForgetFailures(failures) == <<>>

KeepFailures(failures) == failures

Gone(kind) == IF kind = "rule" THEN "refresh_failed" ELSE "error"

\* The warnings are asked for by the same loop.
Fail(failure) ==
  /\ Is(Retried, "send")
  /\ LET failed == [job EXCEPT !.failures = Append(@, failure)] IN
     \/ /\ Retries(failure) /\ Len(failed.failures) < MaxRetries
        /\ job' = [failed EXCEPT !.pc = "backoff"]
     \/ /\ ~(Retries(failure) /\ Len(failed.failures) < MaxRetries)
        /\ EndWith(failed, Gone(job.kind))
  /\ UNCHANGED <<now, enabled, snapshots, jobs, records>>

Backoff ==
  /\ Is(Retried, "backoff")
  /\ job' = [job EXCEPT !.pc = "send", !.failures = KeepFailures(@)]
  /\ UNCHANGED <<now, enabled, snapshots, jobs, records>>

\* An answer that cannot be parsed ends the job.
Garble(lost) ==
  /\ Is(Forecasts, "send")
  /\ ParseRaises(Response(job.days, lost))
  /\ EndWith([job EXCEPT !.lost = lost], Gone(job.kind))
  /\ UNCHANGED <<now, enabled, snapshots, jobs, records>>

Read(lost) == [job EXCEPT !.lost = lost, !.points = Parse(Response(job.days, lost))]

\* The worker: save_snapshot stores the header and no points, the points stay in
\* memory.
FetchRule(lost) ==
  /\ Is({"rule"}, "send")
  /\ ~ParseRaises(Response(job.days, lost))
  /\ job' = [Read(lost) EXCEPT !.pc = "judge"]
  /\ snapshots' = Append(snapshots, <<>>)
  /\ UNCHANGED <<now, enabled, jobs, records>>

\* get_forecast hands over every point of the answer.
FetchForecast(lost) ==
  /\ Is({"forecast"}, "send")
  /\ ~ParseRaises(Response(job.days, lost))
  /\ EndWith(Read(lost), "shown")
  /\ UNCHANGED <<now, enabled, snapshots, jobs, records>>

\* The chart is drawn from the points of the range, if there are any.
FetchChart(lost) ==
  /\ Is({"chart"}, "send")
  /\ ~ParseRaises(Response(job.days, lost))
  /\ LET shown == PointsInRange(Read(lost).points, job.want) IN
     \/ shown # <<>> /\ EndWith([Read(lost) EXCEPT !.points = shown], "shown")
     \/ shown = <<>> /\ EndWith([Read(lost) EXCEPT !.points = shown], "error")
  /\ UNCHANGED <<now, enabled, snapshots, jobs, records>>

PreviousSnapshot ==
  IF Len(snapshots) > 1 THEN snapshots[Len(snapshots) - 1] ELSE <<>>

PointsAhead(points) == PointsInRange(points, [start |-> now - Hour, end |-> now + 7 * Day])

\* _build_evaluation_data: what is stored of the forecast before, as far as it is
\* not over.
PreviousPoints == PointsAhead(PreviousSnapshot)

\* _finish_evaluation.
Judge ==
  /\ Is({"rule"}, "judge")
  /\ LET seen == [job EXCEPT !.previous = PreviousPoints] IN
     \/ /\ job.points = <<>>
        /\ EndWith(seen, "no_forecast_data")
     \/ /\ job.points # <<>>
        /\ EndWith(seen, Evaluate(job.want, job.points, PreviousPoints, now))
  /\ UNCHANGED <<now, enabled, snapshots, jobs, records>>

-----------------------------------------------------------------------------
(* Observations: one attempt.                                              *)

StartObservations(place) == Start("observations", "send", [location |-> place])

FailObservations ==
  /\ Is({"observations"}, "send")
  /\ End("error")
  /\ UNCHANGED <<now, enabled, snapshots, jobs, records>>

\* Mutant: the radius itself is out of it.
NearOpen(s) == Distance[s] # Unlisted /\ Distance[s] < Radius

Near(s) == Distance[s] # Unlisted /\ Distance[s] <= Radius

\* An observation whose time cannot be read is of the time it was fetched.
ObservationOf(o) ==
  [location |-> job.want.location, station |-> o.station,
   at |-> IF o.at = Unreadable THEN job.asked ELSE o.at]

\* The stations within the radius, the nearest first; one whose place is not
\* known is left out.
Observe(reply) ==
  /\ Is({"observations"}, "send")
  /\ LET near == {i \in DOMAIN reply : Near(reply[i].station)}
         points == [i \in DOMAIN reply |-> ObservationOf(reply[i])]
     IN  EndWith([job EXCEPT !.reply = reply,
                             !.points = Arranged(points, near,
                                          [i \in near |-> Distance[reply[i].station]])],
                 "shown")
  /\ UNCHANGED <<now, enabled, snapshots, jobs, records>>

\* save_observations, for a caller that keeps what it was given: rows are added.
SaveObservations ==
  /\ Is({"observations"}, "done") /\ job.outcome = "shown"
  /\ records' = [records EXCEPT !.observations = @ \o job.points]
  /\ EndWith([job EXCEPT !.previous = [i \in DOMAIN job.points |->
                                        Len(records.observations) + i],
                      !.trail = records.observations], "stored")
  /\ UNCHANGED <<now, enabled, snapshots, jobs>>

\* get_observations_by_time_range.
ObservationsOf(place, start, end) ==
  LET rows == records.observations
      Of(o) == o.location = place /\ start <= o.at /\ o.at <= end
  IN  Arranged(rows, {k \in DOMAIN rows : Of(rows[k])}, [k \in DOMAIN rows |-> rows[k].at])

-----------------------------------------------------------------------------
(* Official warnings.                                                      *)

StartWarnings(provider, place) ==
  Start("warnings", "send", [provider |-> provider, location |-> place])

\* An item without a number is known by what it says: the degree is part of that
\* in meteorological warnings, not in hydrological ones.
ExternalId(provider, item) ==
  IF item.number # 0 THEN <<item.number>>
  ELSE IF provider = "meteo" THEN <<item.event, item.degree, item.from>>
  ELSE <<item.event, item.from>>

WarningOf(want, item) ==
  [provider |-> want.provider, id |-> ExternalId(want.provider, item),
   location |-> want.location, from |-> item.from, to |-> item.to]

Dated(item) == item.from # Unreadable /\ item.to # Unreadable

\* Every item whose dates can be read, whatever place and time it is about.
FetchWarnings(reply) ==
  /\ Is({"warnings"}, "send")
  /\ LET dated == Chosen(reply, {i \in DOMAIN reply : Dated(reply[i])}) IN
     EndWith([job EXCEPT !.reply = reply,
                         !.points = [i \in DOMAIN dated |-> WarningOf(job.want, dated[i])]],
             "shown")
  /\ UNCHANGED <<now, enabled, snapshots, jobs, records>>

KeyOf(w) == <<w.provider, w.id, w.from>>

\* Mutant: the row of another place is another warning.
RowsOfPlace(rows, w) == {k \in DOMAIN rows : KeyOf(rows[k]) = KeyOf(w) /\ rows[k].location = w.location}

RowsOf(rows, w) == {k \in DOMAIN rows : KeyOf(rows[k]) = KeyOf(w)}

\* save_warnings: a row with the key of the warning stands for it and stays as it is.
SaveWarning(saved, w) ==
  LET same == RowsOf(saved.rows, w) IN
  IF same # {} THEN [saved EXCEPT !.ids = Append(@, Min(same))]
  ELSE [rows |-> Append(saved.rows, w), ids |-> Append(saved.ids, Len(saved.rows) + 1)]

SaveWarnings ==
  /\ Is({"warnings"}, "done") /\ job.outcome = "shown"
  /\ LET saved == FoldLeft(SaveWarning, [rows |-> records.warnings, ids |-> <<>>], job.points) IN
     /\ records' = [records EXCEPT !.warnings = saved.rows]
     /\ EndWith([job EXCEPT !.previous = saved.ids, !.trail = records.warnings], "stored")
  /\ UNCHANGED <<now, enabled, snapshots, jobs>>

\* get_warnings of the repository.
WarningsOf(place, start, end) ==
  LET rows == records.warnings
      Of(w) == w.location = place /\ start <= w.from /\ w.to <= end
  IN  Arranged(rows, {k \in DOMAIN rows : Of(rows[k])}, [k \in DOMAIN rows |-> rows[k].from])

-----------------------------------------------------------------------------
(* The place a name means: the words of the query, and what is configured.  *)

Options == {"key", "autocomplete", "model"}
Blank == {"blank"}

\* Where geocode goes when an endpoint has had nothing usable, or cannot be asked.
AskModel(j) == IF "model" \in j.want.options /\ ~j.want.guessed
               THEN job' = [j EXCEPT !.pc = "guess"]
               ELSE EndWith(j, "nothing")

\* _try_geocode: nothing is asked without a key, nor about a blank.
TryGeocode(j) == IF "key" \in j.want.options /\ j.want.query # Blank
                 THEN job' = [j EXCEPT !.pc = "search"]
                 ELSE AskModel(j)

StartPlace(query, options) ==
  /\ Idle
  /\ jobs < MaxJobs
  /\ jobs' = jobs + 1
  /\ TryGeocode(Job("place", "send", [query |-> query, options |-> options,
                                      guessed |-> FALSE]))
  /\ UNCHANGED <<now, enabled, snapshots, records>>

\* History: a Polish settlement with a word of the query was returned.
Fits(c, query) == c.polish /\ c.located /\ c.place /\ c.text \intersect query # {}

\* Mutant: a search that found nothing is the end of it.
AfterSearchNothing(j) == AskModel(j)

AfterSearch(j) == IF "autocomplete" \in j.want.options
                  THEN job' = [j EXCEPT !.pc = "autocomplete"]
                  ELSE AskModel(j)

\* _try_query: an endpoint replies with candidates; a timeout, an error status
\* and malformed JSON count as none.
Reply(endpoint, candidates) ==
  /\ Is({"place"}, endpoint)
  /\ LET query == job.want.query
         best == Best(candidates, query)
         found == [job EXCEPT !.reply = candidates, !.points = SetToSeq(best)]
         nothing == [job EXCEPT !.trail = Append(@, endpoint),
                                !.missed = @ \/ \E c \in Range(candidates) : Fits(c, query)]
     IN  IF best # {} THEN EndWith(found, "found")
         ELSE IF endpoint = "search" THEN AfterSearch(nothing)
         ELSE AskModel(nothing)
  /\ UNCHANGED <<now, enabled, snapshots, jobs, records>>

\* A connection that fails is no timeout: geocode catches it, and that is all.
Unreachable ==
  /\ job.kind = "place" /\ job.pc \in {"search", "autocomplete"}
  /\ End("nothing")
  /\ UNCHANGED <<now, enabled, snapshots, jobs, records>>

\* _ask_llm: a name to search for, or nothing.
Guess(query) ==
  /\ Is({"place"}, "guess")
  /\ TryGeocode([job EXCEPT !.want.query = query, !.want.guessed = TRUE,
                            !.trail = Append(@, "guess")])
  /\ UNCHANGED <<now, enabled, snapshots, jobs, records>>

NoGuess ==
  /\ Is({"place"}, "guess")
  /\ End("nothing")
  /\ UNCHANGED <<now, enabled, snapshots, jobs, records>>

-----------------------------------------------------------------------------

\* The time the request and its attempts have taken.  Only Judge looks at the clock
\* again, so that it may as well pass right before.
Tick ==
  /\ Is({"rule"}, "judge")
  /\ now < job.asked + MaxDelay
  /\ now' = now + 1
  /\ UNCHANGED <<enabled, snapshots, job, jobs, records>>

\* What the last forecast of the time before points were kept out of the database
\* has left there.
StoredPoint(h) ==
  [time |-> h, values |-> [m \in Metrics |-> {OldWeather[m][h \div Hour]}]]

StoredPoints ==
  LET hours == HoursOf([first |-> DayOf(Min(Starts)), last |-> DayOf(Max(Starts)) + Horizon])
  IN  [i \in DOMAIN hours |-> StoredPoint(hours[i])]

\* A database in use has a warning on record.
PastWarnings ==
  LET known == {w \in Warnings : Dated(w) /\ w.number = 0} IN
  IF known = {} THEN <<>>
  ELSE <<WarningOf([provider |-> "hydro", location |-> Max(Places)], CHOOSE w \in known : TRUE)>>

\* And an observation.
PastObservations ==
  IF Stations = {} \/ Places = {} THEN <<>>
  ELSE <<[location |-> CHOOSE p \in Places : TRUE, station |-> CHOOSE s \in Stations : TRUE,
          at |-> Min(Starts)]>>

Init ==
  /\ now \in Starts
  /\ enabled = TRUE
  /\ snapshots \in {<<>>, <<(<<>>)>>, <<StoredPoints>>}
  /\ records = [warnings |-> IF snapshots = <<>> THEN <<>> ELSE PastWarnings,
                observations |-> IF snapshots = <<>> THEN <<>> ELSE PastObservations]
  /\ job = Job("none", "done", "nothing")
  /\ jobs = 0

\* What is asked for: local days about the present one, whole or from an hour on.
AskedDays == {LocalDay(now) + k : k \in 0 .. 1}
AskedRanges == {[start |-> Midnight(d) + h * Hour, end |-> Midnight(d2 + 1) - 1 - k] :
                  d \in AskedDays, d2 \in AskedDays, h \in 0 .. 1, k \in 0 .. 1}

Replies(S, n) == UNION {[1 .. k -> S] : k \in 0 .. n}
StationReplies ==
  {r \in Replies([station : Stations, at : {Unreadable, Min(Starts)}], MaxItems) :
     \A i, j \in DOMAIN r : i # j => r[i].station # r[j].station}

Ongoing ==
  \/ Locate
  \/ \E failure \in Failures : Fail(failure)
  \/ Backoff
  \/ \E lost \in Lost : Garble(lost) \/ FetchRule(lost) \/ FetchForecast(lost) \/ FetchChart(lost)
  \/ Judge
  \/ FailObservations
  \/ \E reply \in StationReplies : Observe(reply)
  \/ \E reply \in Replies(Warnings, MaxItems) : FetchWarnings(reply)
  \/ \E endpoint \in {"search", "autocomplete"}, reply \in Replies(Candidates, MaxItems) :
       Reply(endpoint, reply)
  \/ Unreachable
  \/ \E query \in {Blank} \union SUBSET Words : Guess(query)
  \/ NoGuess

Begin ==
  \/ \E e \in Expressions : StartRule(e)
  \/ \E first \in AskedDays, last \in AskedDays : AskForecast(first, last)
  \/ \E range \in AskedRanges, usable \in BOOLEAN : AskChart(range, usable)
  \/ \E place \in Places : StartObservations(place)
  \/ \E provider \in {"meteo", "hydro"}, place \in Places : StartWarnings(provider, place)
  \/ \E query \in SUBSET Words, options \in SUBSET Options : StartPlace(query, options)

Next == Begin \/ Ongoing \/ Disable \/ Tick \/ SaveObservations \/ SaveWarnings

Spec == Init /\ [][Next]_vars

-----------------------------------------------------------------------------
(* Properties.                                                             *)

\* The counters keep to their bounds, and a job ends with an outcome of its kind.
TypeOK ==
  /\ now \in Nat /\ now <= job.asked + MaxDelay
  /\ enabled \in BOOLEAN
  /\ jobs \in 0 .. MaxJobs
  /\ Len(snapshots) <= MaxJobs + 1
  /\ job.pc \in {"done", "locate", "send", "backoff", "judge", "search",
                 "autocomplete", "guess"}
  /\ Idle => job.outcome \in
       CASE job.kind = "none"  -> {"none"}
         [] job.kind = "rule"  -> {"refresh_failed", "no_forecast_data", "error", "true", "false"}
         [] job.kind = "place" -> {"found", "nothing"}
         [] job.kind \in {"observations", "warnings"} -> {"error", "shown", "stored"}
         [] OTHER              -> {"refused", "error", "shown"}

\* The hours of the days asked for, those whose time arrived, and those that came
\* with a number of metric m: what the flaw of the answer has left of them.
HoursAsked ==
  {h \in job.days.first * Day .. (job.days.last + 1) * Day - 1 : h % Hour = 0}
PositionOf(h) == (h - job.days.first * Day) \div Hour + 1

HoursKnown ==
  {h \in HoursAsked : job.lost.kind # "empty"
                     /\ ~(job.lost.kind = "time" /\ job.lost.at = PositionOf(h))}

NumberLost(m, h) ==
  /\ job.lost.metric = m
  /\ \/ job.lost.kind = "null" /\ job.lost.at = PositionOf(h)
     \/ job.lost.kind = "short" /\ job.lost.at <= PositionOf(h)

Within(H, range) == {h \in H : range.start <= h /\ h <= range.end}

\* The verdict of a rule is what its expression means of the weather the service has
\* answered at the hours its range is about, as the registry describes range and function,
\* whatever times, numbers or lists were missing in the answer; and it fails to have one
\* only if too few of those hours are known (RuleExpressionEvaluator, _parse_response,
\* _build_evaluation_data).
VerdictJustified ==
  /\ Idle /\ job.kind = "rule" /\ Constrains(job.want.range)
  /\ job.outcome \in {"true", "false", "error", "no_forecast_data"}
  =>
    LET e == job.want
        Covered(A) == {h \in A : Covers(e.range, job.at, h)}
        H == {h \in Covered(HoursKnown) : ~NumberLost(e.metric, h)}
        all == {h \in HoursKnown : ~NumberLost(e.metric, h)}
        old == Covered({p.time : p \in ToSet(job.previous)})
        number == [h \in HoursKnown |-> Weather[e.metric][h \div Hour]]
        oldNumber == [h \in old |-> OldWeather[e.metric][h \div Hour]]
        used == IF e.fn = "bare" THEN all ELSE H
    IN
    /\ job.outcome = "no_forecast_data" <=> HoursKnown = {}
    /\ HoursKnown # {} =>
         /\ job.outcome = "error" <=>
              Meaningless(e, used, Covered(HoursKnown), HoursKnown, number, old)
         /\ job.outcome # "error" =>
              (job.outcome = "true" <=> Means(e, used, HoursKnown, number, old, oldNumber))

\* Nothing is missing that was to be had.  A rule is judged with every hour from
\* the one before the request to the horizon; a chart shows the hours of
\* its range and no others, but for those before midnight UTC of its first day
\* (fetch_fresh_forecast, _build_params, _filter_points_to_time_range).
ForecastsComplete ==
  LET shown == {p.time : p \in ToSet(job.points)}
      from == Midnight(LocalDay(job.want.start)) + Offset
      OnHour(t) == t % Hour = 0
  IN
  Idle =>
    /\ job.kind = "rule" /\ job.outcome \in {"true", "false", "error"} /\ job.lost = Clean =>
         {t \in job.asked - Hour .. job.asked + Horizon * Day : OnHour(t)} \subseteq shown
    /\ job.kind = "chart" /\ job.outcome = "shown" =>
         /\ shown = Within(HoursKnown, job.want)
         /\ job.lost = Clean =>
              {t \in job.want.start .. job.want.end : OnHour(t) /\ t >= from} \subseteq shown

\* Observations come from every listed station within the radius, nearest first, and those
\* that are kept are found again by their time, with what was on record for the location
\* (ImgwSynopProvider.get_observations, ObservationRepository).
ObservationsComplete ==
  job.kind = "observations" /\ Idle /\ job.outcome \in {"shown", "stored"} =>
    /\ {o.station : o \in ToSet(job.points)} =
         {s \in {o.station : o \in ToSet(job.reply)} : Distance[s] # Unlisted /\ Distance[s] <= Radius}
    /\ \A i, j \in DOMAIN job.points :
         i < j => Distance[job.points[i].station] <= Distance[job.points[j].station]
    /\ job.outcome = "stored" =>
         LET found == ObservationsOf(job.want.location, Min(Starts), job.at)
             before == {o \in ToSet(job.trail) : o.location = job.want.location}
         IN
         /\ ToSet(found) = before \union ToSet(job.points)
         /\ \A i, j \in DOMAIN found : i < j => found[i].at <= found[j].at

\* No warning with dates is left out of an answer.  Of those that are kept each has
\* the one row with its key, and get_warnings of its place and time finds that row,
\* unless the key was on record before: the row stays as it was, even if it is
\* another place's (_parse_meteo_warnings, _parse_hydro_warnings, WarningRepository).
WarningsComplete ==
  job.kind = "warnings" /\ Idle /\ job.outcome \in {"shown", "stored"} =>
    LET rows == records.warnings
        Row(i) == rows[job.previous[i]]
        First(i) == \A k \in 1 .. i - 1 : KeyOf(job.points[k]) # KeyOf(job.points[i])
        New(i) == First(i) /\ \A w \in ToSet(job.trail) : KeyOf(w) # KeyOf(job.points[i])
        dated == {i \in DOMAIN job.reply : Unreadable \notin {job.reply[i].from, job.reply[i].to}}
    IN
    /\ Len(job.points) = Cardinality(dated)
    /\ \A i \in dated :
         LET w == job.points[Cardinality({k \in dated : k <= i})] IN
         w.from = job.reply[i].from /\ w.to = job.reply[i].to
    /\ \A k, l \in DOMAIN rows : KeyOf(rows[k]) = KeyOf(rows[l]) => k = l
    /\ job.outcome = "stored" =>
         \A i \in DOMAIN job.points :
           LET w == job.points[i] IN
           /\ KeyOf(Row(i)) = KeyOf(w)
           /\ New(i) => w \in ToSet(WarningsOf(job.want.location, w.from, w.to))

\* What is answered, and what is kept of it.
AnswersComplete == ForecastsComplete /\ ObservationsComplete /\ WarningsComplete

\* A forecast or a list of warnings is given up for a reason: three attempts without
\* a response, or one response that is no forecast, which is the last thing asked
\* for (_request_with_retry).
GivenUpForReason ==
  job.kind \in Retried =>
    /\ Len(job.failures) <= 3
    /\ \A i \in DOMAIN job.failures :
         job.failures[i] = "bad" => Idle /\ i = Len(job.failures)
    /\ Idle /\ job.outcome = "refresh_failed" =>
         \/ ~enabled
         \/ Len(job.failures) = 3
         \/ "bad" \in ToSet(job.failures)
         \/ job.lost.kind = "garbled"

\* The model is asked for another name once, after every endpoint has had nothing
\* usable (geocode, _try_query).
ModelAskedLast ==
  LET endpoints == IF "autocomplete" \in job.want.options THEN <<"search", "autocomplete">>
                                                           ELSE <<"search">>
      round == IF "key" \in job.want.options THEN endpoints ELSE <<>>
  IN
  job.kind = "place" =>
    /\ job.pc = "guess" => job.trail = round
    /\ IsPrefix(job.trail, round \o <<"guess">> \o round)

\* No fitting place is passed over, and the place that is chosen is one in Poland
\* with coordinates, and no other of the reply is better in one respect and as
\* good in the rest, nor as good in all and earlier (select_best_candidate).
PlaceChosenWell ==
  job.kind = "place" =>
    /\ ~job.missed
    /\ Idle /\ job.outcome = "found" =>
         LET q == job.want.query
             chosen == job.reply[job.points[1]]
             AsGood(c) == /\ Cardinality(c.text \intersect q) >= Cardinality(chosen.text \intersect q)
                          /\ Cardinality(c.name \intersect q) >= Cardinality(chosen.name \intersect q)
                          /\ chosen.place => c.place
                          /\ c.importance >= chosen.importance
                          /\ c.polish /\ c.located /\ (c.place \/ q \subseteq c.text)
             AsBad(c) == /\ c.importance = chosen.importance
                         /\ c.place = chosen.place
                         /\ Cardinality(c.text \intersect q) = Cardinality(chosen.text \intersect q)
                         /\ Cardinality(c.name \intersect q) = Cardinality(chosen.name \intersect q)
         IN  /\ chosen.polish /\ chosen.located
             /\ \A i \in DOMAIN job.reply :
                  AsGood(job.reply[i]) => AsBad(job.reply[i]) /\ i >= job.points[1]

\* What is asked for and how often, and what an answer is chosen for.
RequestsExplained == GivenUpForReason /\ ModelAskedLast /\ PlaceChosenWell

\* How many steps a job is from its end at most: every attempt but the last is a
\* request and a wait, and the second name of a place is searched for as the first.
StepsLeft(j) ==
  CASE j.pc = "done"         -> 0
    [] j.pc = "locate"       -> 2 * MaxRetries + 2
    [] j.pc = "backoff"      -> 2 * (MaxRetries - Len(j.failures)) + 2
    [] j.pc = "send"         -> 2 * (MaxRetries - Len(j.failures)) + 1
    [] j.pc = "judge"        -> 1
    [] j.pc = "search"       -> IF j.want.guessed THEN 2 ELSE 5
    [] j.pc = "autocomplete" -> IF j.want.guessed THEN 1 ELSE 4
    [] j.pc = "guess"        -> 3

\* Every step of a job brings it nearer to its end, whatever the services answer and
\* however often they fail: no chain of retries and fallbacks goes round in a circle
\* (_request_with_retry, geocode).  Meanwhile only time passes, or the location is
\* removed once.
JobAdvances ==
  [][~Idle => \/ StepsLeft(job') \in 0 .. StepsLeft(job) - 1
              \/ UNCHANGED job /\ (now < now' \/ (enabled /\ ~enabled'))]_vars

\* README: a rule may compare a forecast with the one before it.  Once there is
\* one before it, such a rule has a verdict.
ComparisonEvaluates ==
  Idle /\ job.kind = "rule" /\ job.want.fn = "forecast_delta" /\ Len(snapshots) > 1 =>
    job.outcome # "error"
=============================================================================
