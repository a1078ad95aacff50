------------------------ MODULE WeatherRequestsProofs ------------------------
(***************************************************************************)
(* Proofs about WeatherRequests, for any expressions, weather, candidates, *)
(* stations and warnings, and lists of any length: how often the outside   *)
(* world is asked, why it is given up, which place is chosen, what a rule  *)
(* is judged by, what a chart shows, and what is on record.                *)
(*                                                                         *)
(* IInv is inductive.  What the later theorems add to it is inductive      *)
(* together with it: how far the clock can be (Timely), where a verdict    *)
(* comes from (RuleWell), what is drawn (ChartWell), and what the rows and *)
(* the last job's answer have to do with each other (ObservationsWell,     *)
(* WarningsWell).                                                          *)
(***************************************************************************)
EXTENDS WeatherRequests, RuleMeaningProofs

-----------------------------------------------------------------------------
(* Jobs as records.                                                        *)

Fields ==
  {"kind", "pc", "want", "failures", "days", "points", "previous", "outcome", "asked",
   "at", "trail", "reply", "lost", "missed"}

Kinds == {"none", "rule", "forecast", "chart", "observations", "warnings", "place"}

\* Where a job of each kind can be.
PcsOf(kind) ==
  {"done"} \union
  (IF kind = "rule" THEN {"locate", "send", "backoff", "judge"} ELSE {}) \union
  (IF kind \in Retried THEN {"send", "backoff"} ELSE {}) \union
  (IF kind = "observations" THEN {"send"} ELSE {}) \union
  (IF kind = "place" THEN {"search", "autocomplete", "guess"} ELSE {})

OutcomesOf(kind) ==
  CASE kind = "none"  -> {"none"}
    [] kind = "rule"  -> {"refresh_failed", "no_forecast_data", "error", "true", "false"}
    [] kind = "place" -> {"found", "nothing"}
    [] kind \in {"observations", "warnings"} -> {"error", "shown", "stored"}
    [] OTHER          -> {"refused", "error", "shown"}

Shaped(j) ==
  /\ DOMAIN j = Fields
  /\ j.kind \in Kinds
  /\ j.pc \in PcsOf(j.kind)
  /\ j.pc = "done" => j.outcome \in OutcomesOf(j.kind)

LEMMA JobShape ==
  ASSUME NEW kind, NEW pc, NEW want
  PROVE  LET j == Job(kind, pc, want) IN
         /\ DOMAIN j = Fields
         /\ j.kind = kind /\ j.pc = pc /\ j.want = want
         /\ j.failures = <<>> /\ j.outcome = "none" /\ j.asked = now
         /\ j.trail = <<>> /\ ~j.missed /\ j.lost = Clean
         /\ j.points = <<>> /\ j.previous = <<>> /\ j.reply = <<>> /\ j.at = now
BY DEF Job, Fields

\* What the end of a job changes.
LEMMA EndShape ==
  ASSUME NEW j, DOMAIN j = Fields, NEW outcome, EndWith(j, outcome)
  PROVE  /\ DOMAIN job' = Fields
         /\ job'.pc = "done" /\ job'.outcome = outcome
         /\ job'.kind = j.kind /\ job'.want = j.want /\ job'.failures = j.failures
         /\ job'.asked = j.asked /\ job'.trail = j.trail /\ job'.missed = j.missed
         /\ job'.lost = j.lost /\ job'.points = j.points /\ job'.reply = j.reply
         /\ job'.days = j.days /\ job'.previous = j.previous /\ job'.at = now
BY DEF EndWith, Fields

LEMMA EvaluateVerdict ==
  ASSUME NEW e, NEW points, NEW previous, NEW t
  PROVE  Evaluate(e, points, previous, t) \in {"true", "false", "error"}
<1> DEFINE bad == ~Accepts(e) \/ Raises(e, points, previous, t) \/ e.op = "none"
           good == Compare(Value(e, points, previous, t), e.op, Limit(e))
<1>1. Evaluate(e, points, previous, t) =
        IF bad THEN "error" ELSE IF good THEN "true" ELSE "false"
  BY DEF Evaluate
<1> HIDE DEF bad, good
<1> QED
  BY <1>1

-----------------------------------------------------------------------------
(* The invariant.                                                          *)

Clock ==
  /\ now \in Nat /\ job.asked \in Nat
  /\ job.asked <= now /\ now <= job.asked + MaxDelay
  /\ enabled \in BOOLEAN

\* A rule that has not had its forecast yet has not stored one.
Counters ==
  /\ jobs \in 0 .. MaxJobs
  /\ snapshots \in Seq({<<>>, StoredPoints})
  /\ Len(snapshots) <= jobs + 1
  /\ job.kind = "rule" /\ job.pc \in {"locate", "send", "backoff"} =>
       Len(snapshots) <= jobs

\* The attempts so far, none of which was answered while the job goes on.
Tries ==
  /\ job.failures \in Seq(Failures)
  /\ Len(job.failures) <= MaxRetries
  /\ \A i \in DOMAIN job.failures : job.failures[i] = "bad" => Idle /\ i = Len(job.failures)
  /\ ~Idle => Len(job.failures) < MaxRetries

\* What the end of a rule without a forecast is due to.
Reasons ==
  job.kind = "rule" /\ Idle /\ job.outcome = "refresh_failed" =>
    \/ ~enabled
    \/ Len(job.failures) = MaxRetries
    \/ "bad" \in ToSet(job.failures)
    \/ job.lost.kind = "garbled"

Queries == {Blank} \union SUBSET Words
Want == [query : Queries, options : SUBSET Options, guessed : BOOLEAN]

Round(options) ==
  IF "key" \in options
  THEN IF "autocomplete" \in options THEN <<"search", "autocomplete">> ELSE <<"search">>
  ELSE <<>>

\* Where the second name starts.
Before(want) == IF want.guessed THEN Append(Round(want.options), "guess") ELSE <<>>

Full(options) == Round(options) \o <<"guess">> \o Round(options)

\* What has been asked is known by where the job is.
Trailed(j) ==
  /\ j.want \in Want
  /\ j.pc = "search" => /\ "key" \in j.want.options
                        /\ j.want.query # Blank
                        /\ j.trail = Before(j.want)
  /\ j.pc = "autocomplete" => /\ {"key", "autocomplete"} \subseteq j.want.options
                              /\ j.want.query # Blank
                              /\ j.trail = Append(Before(j.want), "search")
  /\ j.pc = "guess" => ~j.want.guessed /\ j.trail = Round(j.want.options)
  /\ IsPrefix(j.trail, Full(j.want.options))

\* How many words of the query are in the text of a candidate, and in its name.
InText(c, query) == Cardinality(c.text \intersect query)
InName(c, query) == Cardinality(c.name \intersect query)

\* In no respect worse than the chosen one, and as good as it in all.
AsGood(c, chosen, query) ==
  /\ InText(c, query) >= InText(chosen, query)
  /\ InName(c, query) >= InName(chosen, query)
  /\ chosen.place => c.place
  /\ c.importance >= chosen.importance
  /\ c.polish /\ c.located /\ (c.place \/ query \subseteq c.text)

AsBad(c, chosen, query) ==
  /\ c.importance = chosen.importance
  /\ c.place = chosen.place
  /\ InText(c, query) = InText(chosen, query)
  /\ InName(c, query) = InName(chosen, query)

\* The place that was chosen has no better or earlier rival, and none was passed over.
Well(j) ==
  /\ ~j.missed
  /\ j.pc = "done" /\ j.outcome = "found" =>
       LET chosen == j.reply[j.points[1]] IN
       /\ chosen.polish /\ chosen.located
       /\ \A i \in DOMAIN j.reply :
            AsGood(j.reply[i], chosen, j.want.query) =>
              AsBad(j.reply[i], chosen, j.want.query) /\ i >= j.points[1]

IInv ==
  /\ Shaped(job)
  /\ Clock
  /\ Counters
  /\ Tries
  /\ Reasons
  /\ job.kind = "place" => Trailed(job) /\ Well(job)

-----------------------------------------------------------------------------
(* What the steps do to the job.                                           *)

\* A job that has just begun.
Fresh ==
  /\ Idle
  /\ jobs < MaxJobs
  /\ jobs' = jobs + 1
  /\ UNCHANGED <<now, enabled, snapshots, records>>
  /\ Shaped(job')
  /\ job'.failures = <<>> /\ job'.asked = now /\ ~job'.missed
  /\ Idle' => job'.outcome \in {"refused", "nothing"}

\* A step of a job that is about no place.
Moves ==
  /\ job.kind # "place" /\ job'.kind = job.kind
  /\ Shaped(job')
  /\ UNCHANGED <<now, enabled, jobs>>

LEMMA StartFresh ==
  ASSUME NEW kind \in Kinds, NEW pc \in PcsOf(kind) \ {"done"}, NEW want,
         Start(kind, pc, want)
  PROVE  Fresh /\ job'.kind = kind
BY JobShape DEF Start, Fresh, Shaped, Idle

LEMMA AskFresh ==
  ASSUME NEW kind \in {"forecast", "chart"}, NEW range, Ask(kind, range)
  PROVE  Fresh /\ job'.kind = kind
<1>1. kind \in Kinds /\ "send" \in PcsOf(kind)
  BY DEF Kinds, PcsOf, Retried, Forecasts
<1>2. PICK days : job' = [Job(kind, "send", range) EXCEPT !.days = days]
  BY DEF Ask
<1> QED
  BY <1>1, <1>2, JobShape DEF Ask, Fresh, Shaped, Idle, Fields

LEMMA RefuseFresh ==
  ASSUME NEW kind \in {"forecast", "chart"}, NEW want, Refuse(kind, want)
  PROVE  Fresh /\ job'.kind = kind
<1>1. kind \in Kinds /\ "done" \in PcsOf(kind) /\ "refused" \in OutcomesOf(kind)
  BY DEF Kinds, PcsOf, OutcomesOf
<1>2. DOMAIN Job(kind, "done", want) = Fields
  BY JobShape
<1> QED
  BY <1>1, <1>2, JobShape, EndShape DEF Refuse, Fresh, Shaped, Idle

\* A job about anything but a place begins.
LEMMA BeginFresh ==
  ASSUME \/ \E e \in Expressions : StartRule(e)
         \/ \E first \in AskedDays, last \in AskedDays : AskForecast(first, last)
         \/ \E range \in AskedRanges, usable \in BOOLEAN : AskChart(range, usable)
         \/ \E place \in Places : StartObservations(place)
         \/ \E provider \in {"meteo", "hydro"}, place \in Places :
              StartWarnings(provider, place)
  PROVE  Fresh /\ job'.kind # "place"
<1>1. /\ "rule" \in Kinds /\ "locate" \in PcsOf("rule") \ {"done"}
      /\ \A kind \in {"observations", "warnings"} :
           kind \in Kinds /\ "send" \in PcsOf(kind) \ {"done"}
  BY DEF Kinds, PcsOf, Retried, Forecasts
<1>2. ASSUME NEW e \in Expressions, StartRule(e) PROVE Fresh /\ job'.kind # "place"
  BY <1>1, <1>2, StartFresh DEF StartRule
<1>3. ASSUME NEW first \in AskedDays, NEW last \in AskedDays, AskForecast(first, last)
      PROVE  Fresh /\ job'.kind # "place"
  BY <1>3, AskFresh, RefuseFresh DEF AskForecast
<1>4. ASSUME NEW range \in AskedRanges, NEW usable \in BOOLEAN, AskChart(range, usable)
      PROVE  Fresh /\ job'.kind # "place"
  BY <1>4, AskFresh, RefuseFresh DEF AskChart
<1>5. ASSUME NEW place \in Places, StartObservations(place)
      PROVE  Fresh /\ job'.kind # "place"
  BY <1>1, <1>5, StartFresh DEF StartObservations
<1>6. ASSUME NEW provider, NEW place, StartWarnings(provider, place)
      PROVE  Fresh /\ job'.kind # "place"
  BY <1>1, <1>6, StartFresh DEF StartWarnings
<1> QED
  BY <1>2, <1>3, <1>4, <1>5, <1>6

\* The end of a job about no place.
LEMMA EndMoves ==
  ASSUME Shaped(job), job.kind # "place", NEW j, DOMAIN j = Fields, j.kind = job.kind,
         NEW outcome \in OutcomesOf(job.kind), EndWith(j, outcome),
         UNCHANGED <<now, enabled, jobs>>
  PROVE  Moves /\ Idle' /\ job'.outcome = outcome /\ job'.asked = j.asked
         /\ job'.failures = j.failures /\ job'.lost = j.lost
<1>1. "done" \in PcsOf(job.kind)
  BY DEF PcsOf
<1> QED
  BY <1>1, EndShape DEF Moves, Shaped, Idle

\* One more attempt failed.
LEMMA FailMoves ==
  ASSUME Shaped(job), NEW failure \in Failures, Fail(failure)
  PROVE  /\ Moves
         /\ job.pc = "send" /\ job.kind \in Retried
         /\ job'.failures = Append(job.failures, failure)
         /\ job'.asked = job.asked
         /\ \/ job'.pc = "backoff" /\ failure # "bad" /\ Len(job'.failures) < MaxRetries
            \/ /\ Idle'
               /\ failure = "bad" \/ ~(Len(job'.failures) < MaxRetries)
               /\ job'.outcome = Gone(job.kind)
         /\ UNCHANGED snapshots
<1> DEFINE failed == [job EXCEPT !.failures = Append(@, failure)]
<1>1. /\ DOMAIN failed = Fields /\ failed.kind = job.kind /\ failed.asked = job.asked
      /\ failed.failures = Append(job.failures, failure)
  BY DEF Shaped, Fields
<1>2. job.pc = "send" /\ job.kind \in Retried /\ job.kind # "place"
  BY DEF Fail, Is, Retried, Forecasts
<1>3. Gone(job.kind) \in OutcomesOf(job.kind) /\ "backoff" \in PcsOf(job.kind)
  BY <1>2 DEF Gone, OutcomesOf, PcsOf, Retried, Forecasts
<1>4. CASE job' = [failed EXCEPT !.pc = "backoff"] /\ Retries(failure)
           /\ Len(failed.failures) < MaxRetries
  <2>1. /\ DOMAIN job' = Fields /\ job'.kind = job.kind /\ job'.pc = "backoff"
        /\ job'.asked = job.asked /\ job'.failures = failed.failures
    BY <1>1, <1>4 DEF Fields
  <2> QED
    BY <1>1, <1>2, <1>3, <1>4, <2>1 DEF Moves, Shaped, Fail, Retries
<1>5. CASE EndWith(failed, Gone(job.kind))
           /\ ~(Retries(failure) /\ Len(failed.failures) < MaxRetries)
  BY <1>1, <1>2, <1>3, <1>5, EndMoves DEF Fail, Retries
<1> QED
  BY <1>4, <1>5 DEF Fail

\* A step of a job about no place that was neither a failure nor about a forecast.
Harmless ==
  /\ Moves
  /\ job'.failures = job.failures
  /\ job'.asked \in {job.asked, now}
  /\ Idle => Idle' /\ job.outcome = "shown"
  /\ Idle \/ job.pc = "judge" => Idle' /\ job'.asked = job.asked
  /\ Idle' /\ job'.kind = "rule" /\ job'.outcome = "refresh_failed" =>
       ~enabled \/ job'.lost.kind = "garbled"
  /\ job'.kind = "rule" /\ job'.pc \in {"locate", "send", "backoff"} =>
       job.pc \in {"locate", "send", "backoff"}

LEMMA LocateHarmless ==
  ASSUME Shaped(job), Locate
  PROVE  Harmless /\ UNCHANGED snapshots
<1>1. job.kind = "rule" /\ job.pc = "locate"
  BY DEF Locate, Is
<1>2. "refresh_failed" \in OutcomesOf("rule") /\ "send" \in PcsOf("rule")
  BY DEF OutcomesOf, PcsOf
<1>3. CASE enabled /\ \E days : job' = [job EXCEPT !.pc = "send", !.asked = now, !.days = days]
  <2>1. /\ DOMAIN job' = Fields /\ job'.kind = job.kind /\ job'.pc = "send"
        /\ job'.failures = job.failures /\ job'.asked = now
    BY <1>3 DEF Shaped, Fields
  <2> QED
    BY <1>1, <1>2, <2>1 DEF Harmless, Moves, Shaped, Locate, Idle
<1>4. CASE ~enabled /\ EndWith(job, "refresh_failed")
  BY <1>1, <1>2, <1>4, EndMoves DEF Harmless, Shaped, Locate, Idle
<1> QED
  BY <1>3, <1>4 DEF Locate, End

LEMMA BackoffHarmless ==
  ASSUME Shaped(job), Backoff
  PROVE  Harmless /\ ~Idle' /\ UNCHANGED snapshots
<1>1. job.kind \in Retried /\ job.pc = "backoff"
  BY DEF Backoff, Is
<1>2. job.kind # "place" /\ "send" \in PcsOf(job.kind)
  BY <1>1 DEF PcsOf, Retried, Forecasts
<1>3. /\ DOMAIN job' = Fields /\ job'.kind = job.kind /\ job'.pc = "send"
      /\ job'.failures = job.failures /\ job'.asked = job.asked
  BY DEF Backoff, Shaped, Fields, KeepFailures
<1> QED
  BY <1>1, <1>2, <1>3 DEF Harmless, Moves, Shaped, Backoff, Idle

\* Only a value that is no number makes an answer unreadable.
LEMMA RaisesGarbled ==
  ASSUME NEW days, NEW lost, ParseRaises(Response(days, lost))
  PROVE  lost.kind = "garbled"
<1> DEFINE Cell(m, i) == CASE lost = [kind |-> "null", at |-> i, metric |-> m] -> {}
                           [] lost = [kind |-> "garbled", at |-> i, metric |-> m] -> Garbled
                           [] OTHER -> {Weather[m][HoursOf(days)[i] \div Hour]}
<1>1. PICK m \in Metrics : \E i \in DOMAIN Response(days, lost).values[m] :
        Response(days, lost).values[m][i] = Garbled
  BY DEF ParseRaises
<1>2. PICK i : Cell(m, i) = Garbled
  <2>1. PICK length : Response(days, lost).values[m] = [k \in 1 .. length |-> Cell(m, k)]
    BY DEF Response
  <2> HIDE DEF Cell
  <2> QED
    BY <1>1, <2>1
<1>3. \A v : {v} # Garbled /\ {} # Garbled
  <2>1. 0 \in Garbled /\ 1 \in Garbled
    BY DEF Garbled
  <2>2. \A v : 0 \in {v} /\ 1 \in {v} => FALSE
    OBVIOUS
  <2> QED
    BY <2>1, <2>2, Zenon
<1>4. lost = [kind |-> "garbled", at |-> i, metric |-> m]
  BY <1>2, <1>3
<1> QED
  BY <1>4

LEMMA GarbleHarmless ==
  ASSUME Shaped(job), NEW lost, Garble(lost)
  PROVE  Harmless /\ Idle' /\ UNCHANGED snapshots
<1> DEFINE j == [job EXCEPT !.lost = lost]
<1>1. /\ DOMAIN j = Fields /\ j.kind = job.kind /\ j.failures = job.failures
      /\ j.asked = job.asked /\ j.lost = lost
  BY DEF Shaped, Fields
<1>2. job.kind \in Forecasts /\ job.pc = "send" /\ Gone(job.kind) \in OutcomesOf(job.kind)
  BY DEF Garble, Is, Forecasts, Gone, OutcomesOf
<1>3. Moves /\ Idle' /\ job'.failures = job.failures /\ job'.asked = job.asked
      /\ job'.lost.kind = "garbled"
  BY <1>1, <1>2, EndMoves, RaisesGarbled DEF Garble, Forecasts
<1> QED
  BY <1>2, <1>3 DEF Harmless, Idle, Garble

\* An answer that is read changes neither the job's place nor its attempts.
LEMMA ReadShape ==
  ASSUME Shaped(job), NEW lost
  PROVE  /\ DOMAIN Read(lost) = Fields
         /\ Read(lost).kind = job.kind /\ Read(lost).failures = job.failures
         /\ Read(lost).asked = job.asked
BY DEF Read, Shaped, Fields

LEMMA FetchRuleHarmless ==
  ASSUME Shaped(job), NEW lost, FetchRule(lost)
  PROVE  /\ Harmless /\ ~Idle' /\ job.kind = "rule" /\ job.pc = "send"
         /\ job'.pc = "judge" /\ snapshots' = Append(snapshots, <<>>)
<1>1. job.kind = "rule" /\ job.pc = "send" /\ "judge" \in PcsOf("rule")
  BY DEF FetchRule, Is, PcsOf
<1>2. /\ DOMAIN job' = Fields /\ job'.kind = job.kind /\ job'.pc = "judge"
      /\ job'.failures = job.failures /\ job'.asked = job.asked
  BY ReadShape DEF FetchRule, Fields
<1> QED
  BY <1>1, <1>2 DEF Harmless, Moves, Shaped, FetchRule, Idle

LEMMA FetchHarmless ==
  ASSUME Shaped(job), NEW lost, FetchForecast(lost) \/ FetchChart(lost)
  PROVE  Harmless /\ Idle' /\ UNCHANGED snapshots
<1>1. job.kind \in {"forecast", "chart"} /\ job.pc = "send"
      /\ {"shown", "error"} \subseteq OutcomesOf(job.kind)
  BY DEF FetchForecast, FetchChart, Is, OutcomesOf
<1>2. PICK outcome \in {"shown", "error"} : \E points :
        \/ EndWith(Read(lost), outcome)
        \/ EndWith([Read(lost) EXCEPT !.points = points], outcome)
  BY DEF FetchForecast, FetchChart
<1>3. PICK j : /\ DOMAIN j = Fields /\ j.kind = job.kind
               /\ j.failures = job.failures /\ j.asked = job.asked
               /\ EndWith(j, outcome)
  BY <1>2, ReadShape DEF Fields
<1>4. Moves /\ Idle' /\ job'.failures = job.failures /\ job'.asked = job.asked
  BY <1>1, <1>3, EndMoves DEF FetchForecast, FetchChart
<1> QED
  BY <1>1, <1>4 DEF Harmless, Moves, Idle, FetchForecast, FetchChart

LEMMA JudgeHarmless ==
  ASSUME Shaped(job), Judge
  PROVE  Harmless /\ Idle' /\ UNCHANGED snapshots
<1> DEFINE seen == [job EXCEPT !.previous = PreviousPoints]
<1>1. /\ DOMAIN seen = Fields /\ seen.kind = job.kind /\ seen.failures = job.failures
      /\ seen.asked = job.asked
  BY DEF Shaped, Fields
<1>2. job.kind = "rule" /\ job.pc = "judge"
  BY DEF Judge, Is
<1>3. PICK outcome \in {"no_forecast_data", "true", "false", "error"} :
        EndWith(seen, outcome)
  BY EvaluateVerdict DEF Judge
<1>4. outcome \in OutcomesOf(job.kind) /\ outcome # "refresh_failed"
  BY <1>2 DEF OutcomesOf
<1> HIDE DEF seen
<1>5. /\ Moves /\ Idle' /\ job'.outcome = outcome
      /\ job'.failures = job.failures /\ job'.asked = job.asked
  BY <1>1, <1>2, <1>3, <1>4, EndMoves DEF Judge
<1> QED
  BY <1>2, <1>4, <1>5 DEF Harmless, Idle, Judge

\* Observations and warnings, asked for, read or kept.
LEMMA OfficialHarmless ==
  ASSUME Shaped(job),
         \/ FailObservations \/ SaveObservations \/ SaveWarnings
         \/ \E reply : Observe(reply) \/ FetchWarnings(reply)
  PROVE  Harmless /\ Idle' /\ UNCHANGED snapshots
<1>1. /\ job.kind \in {"observations", "warnings"}
      /\ job.pc = "send" \/ (job.pc = "done" /\ job.outcome = "shown")
      /\ UNCHANGED <<now, enabled, jobs, snapshots>>
  <2>1. CASE FailObservations \/ SaveObservations \/ SaveWarnings
    BY <2>1 DEF FailObservations, SaveObservations, SaveWarnings, Is
  <2>2. ASSUME NEW reply, Observe(reply) \/ FetchWarnings(reply)
        PROVE  /\ job.kind \in {"observations", "warnings"} /\ job.pc = "send"
               /\ UNCHANGED <<now, enabled, jobs, snapshots>>
    BY <2>2 DEF Observe, FetchWarnings, Is
  <2> QED
    BY <2>1, <2>2
<1>4. {"error", "shown", "stored"} \subseteq OutcomesOf(job.kind)
  BY <1>1 DEF OutcomesOf
<1>2. PICK outcome \in {"error", "shown", "stored"} : \E j :
        /\ DOMAIN j = Fields /\ j.kind = job.kind
        /\ j.failures = job.failures /\ j.asked = job.asked
        /\ EndWith(j, outcome)
  <2>1. \A x, y : /\ DOMAIN [job EXCEPT !.reply = x, !.points = y] = Fields
                  /\ [job EXCEPT !.reply = x, !.points = y].kind = job.kind
                  /\ [job EXCEPT !.reply = x, !.points = y].failures = job.failures
                  /\ [job EXCEPT !.reply = x, !.points = y].asked = job.asked
                  /\ DOMAIN [job EXCEPT !.previous = x, !.trail = y] = Fields
                  /\ [job EXCEPT !.previous = x, !.trail = y].kind = job.kind
                  /\ [job EXCEPT !.previous = x, !.trail = y].failures = job.failures
                  /\ [job EXCEPT !.previous = x, !.trail = y].asked = job.asked
    BY DEF Shaped, Fields
  <2>2. CASE FailObservations
    BY <2>2 DEF FailObservations, End, Shaped
  <2>3. ASSUME SaveObservations \/ SaveWarnings
        PROVE  \E x, y : EndWith([job EXCEPT !.previous = x, !.trail = y], "stored")
    BY <2>3 DEF SaveObservations, SaveWarnings
  <2>5. ASSUME NEW reply, Observe(reply)
        PROVE  \E x, y : EndWith([job EXCEPT !.reply = x, !.points = y], "shown")
    BY <2>5 DEF Observe
  <2>6. ASSUME NEW reply, FetchWarnings(reply)
        PROVE  \E x, y : EndWith([job EXCEPT !.reply = x, !.points = y], "shown")
    BY <2>6 DEF FetchWarnings
  <2> QED
    BY <2>1, <2>2, <2>3, <2>5, <2>6
<1>3. Moves /\ Idle' /\ job'.failures = job.failures /\ job'.asked = job.asked
  BY <1>1, <1>2, <1>4, EndMoves
<1> QED
  BY <1>1, <1>3 DEF Harmless, Moves, Idle

-----------------------------------------------------------------------------
(* The places: what has been asked so far.                                 *)

Asked == {"search", "autocomplete", "guess"}

LEMMA PrefixPointwise ==
  ASSUME NEW s \in Seq(Asked), NEW t \in Seq(Asked), Len(s) <= Len(t),
         \A i \in 1 .. Len(s) : s[i] = t[i]
  PROVE  IsPrefix(s, t)
<1>1. Len(s) \in Nat /\ Len(t) \in Nat
  OBVIOUS
<1>2. SubSeq(s, 1, Len(s)) = [i \in 1 .. Len(s) |-> s[i]]
      /\ SubSeq(t, 1, Len(s)) = [i \in 1 .. Len(s) |-> t[i]]
  BY <1>1
<1> QED
  BY <1>2 DEF IsPrefix

LEMMA PrefixValues ==
  ASSUME NEW s \in Seq(Asked), NEW t \in Seq(Asked), IsPrefix(s, t)
  PROVE  Len(s) <= Len(t) /\ \A i \in 1 .. Len(s) : s[i] = t[i]
<1>1. Len(s) \in Nat /\ Len(t) \in Nat /\ Len(s) <= Len(t)
  BY DEF IsPrefix
<1>2. SubSeq(s, 1, Len(s)) = SubSeq(t, 1, Len(s))
  BY DEF IsPrefix
<1>3. SubSeq(s, 1, Len(s)) = [i \in 1 .. Len(s) |-> s[i]]
      /\ SubSeq(t, 1, Len(s)) = [i \in 1 .. Len(s) |-> t[i]]
  BY <1>1
<1> QED
  BY <1>1, <1>2, <1>3

LEMMA PrefixLonger ==
  ASSUME NEW s \in Seq(Asked), NEW t \in Seq(Asked), NEW z \in Seq(Asked), IsPrefix(s, t)
  PROVE  IsPrefix(s, t \o z)
<1>1. Len(s) <= Len(t) /\ \A i \in 1 .. Len(s) : s[i] = t[i]
  BY PrefixValues
<1>2. /\ Len(s) \in Nat /\ Len(t) \in Nat /\ Len(z) \in Nat
      /\ t \o z \in Seq(Asked) /\ Len(t \o z) = Len(t) + Len(z)
      /\ \A i \in 1 .. Len(t) : (t \o z)[i] = t[i]
  OBVIOUS
<1>3. PICK u : u = t \o z
  OBVIOUS
<1>4. u \in Seq(Asked) /\ Len(s) <= Len(u) /\ \A i \in 1 .. Len(s) : s[i] = u[i]
  BY <1>1, <1>2, <1>3
<1>5. IsPrefix(s, u)
  BY <1>4, PrefixPointwise
<1> QED
  BY <1>3, <1>5

LEMMA PrefixAfter ==
  ASSUME NEW s \in Seq(Asked), NEW t \in Seq(Asked), NEW z \in Seq(Asked), IsPrefix(s, t)
  PROVE  IsPrefix(z \o s, z \o t)
<1>1. Len(s) <= Len(t) /\ \A i \in 1 .. Len(s) : s[i] = t[i]
  BY PrefixValues
<1>2. /\ Len(s) \in Nat /\ Len(t) \in Nat /\ Len(z) \in Nat
      /\ z \o s \in Seq(Asked) /\ z \o t \in Seq(Asked)
      /\ Len(z \o s) = Len(z) + Len(s) /\ Len(z \o t) = Len(z) + Len(t)
  OBVIOUS
<1>3. PICK u, v : u = z \o s /\ v = z \o t
  OBVIOUS
<1>4. ASSUME NEW i \in 1 .. Len(u) PROVE u[i] = v[i]
  <2>1. i \in Int /\ 1 <= i /\ i <= Len(z) + Len(s)
    BY <1>2, <1>3
  <2>2. CASE i <= Len(z)
    BY <1>2, <1>3, <2>1, <2>2
  <2>3. CASE ~(i <= Len(z))
    <3>1. i - Len(z) \in 1 .. Len(s) /\ i - Len(z) \in 1 .. Len(t)
      BY <1>1, <1>2, <2>1, <2>3
    <3>2. s[i - Len(z)] = t[i - Len(z)]
      BY <1>1, <3>1
    <3>3. u[i] = s[i - Len(z)] /\ v[i] = t[i - Len(z)]
      BY <1>2, <1>3, <2>1, <2>3, <3>1, ConcatProperties
    <3> QED
      BY <3>2, <3>3
  <2> QED
    BY <2>2, <2>3
<1>5. u \in Seq(Asked) /\ v \in Seq(Asked) /\ Len(u) <= Len(v)
  BY <1>1, <1>2, <1>3
<1>6. IsPrefix(u, v)
  BY <1>4, <1>5, PrefixPointwise
<1> QED
  BY <1>3, <1>6

\* How a round begins.
LEMMA RoundStarts ==
  ASSUME NEW options
  PROVE  LET r == Round(options) IN
         /\ r \in Seq(Asked)
         /\ IsPrefix(<<>>, r)
         /\ "key" \in options => IsPrefix(<<"search">>, r)
         /\ {"key", "autocomplete"} \subseteq options =>
              IsPrefix(<<"search", "autocomplete">>, r)
<1>2. <<>> \in Seq(Asked) /\ <<"search">> \in Seq(Asked)
      /\ <<"search", "autocomplete">> \in Seq(Asked)
  BY DEF Asked
<1>1. Round(options) \in Seq(Asked)
  BY <1>2 DEF Round
<1>3. IsPrefix(<<>>, Round(options))
  <2>1. Len(<<>>) = 0 /\ Len(Round(options)) \in Nat
    BY <1>1
  <2>2. Len(<<>>) <= Len(Round(options))
    BY <2>1
  <2>3. \A i \in 1 .. Len(<<>>) : <<>>[i] = Round(options)[i]
    BY <2>1
  <2> QED
    BY <1>1, <1>2, <2>2, <2>3, PrefixPointwise
<1>4. ASSUME "key" \in options PROVE IsPrefix(<<"search">>, Round(options))
  <2>1. Len(<<"search">>) = 1 /\ Len(Round(options)) \in {1, 2}
        /\ Round(options)[1] = "search"
    BY <1>4 DEF Round
  <2> QED
    BY <1>1, <1>2, <2>1, PrefixPointwise
<1>5. ASSUME {"key", "autocomplete"} \subseteq options
      PROVE  IsPrefix(<<"search", "autocomplete">>, Round(options))
  <2>1. Round(options) = <<"search", "autocomplete">>
    BY <1>5 DEF Round
  <2>2. ASSUME NEW t \in Seq(Asked) PROVE IsPrefix(t, t)
    BY PrefixPointwise
  <2> QED
    BY <1>2, <2>1, <2>2
<1> QED
  BY <1>1, <1>3, <1>4, <1>5

\* What begins a round begins everything, and so does what it is after the guess.
LEMMA FullStarts ==
  ASSUME NEW options, NEW u \in Seq(Asked), IsPrefix(u, Round(options))
  PROVE  /\ IsPrefix(u, Full(options))
         /\ IsPrefix(Append(Round(options), "guess") \o u, Full(options))
<1> DEFINE r == Round(options)
           h == r \o <<"guess">>
<1>1. r \in Seq(Asked) /\ <<"guess">> \in Seq(Asked) /\ h \in Seq(Asked)
  BY RoundStarts DEF Asked
<1>2. h = Append(r, "guess")
  BY <1>1 DEF Asked
<1>3. Full(options) = h \o r
  BY DEF Full
<1> HIDE DEF r
<1>4. IsPrefix(u, h)
  BY <1>1, PrefixLonger DEF r
<1> HIDE DEF h
<1>5. IsPrefix(u, h \o r) /\ IsPrefix(h \o u, h \o r)
  BY <1>1, <1>4, PrefixLonger, PrefixAfter DEF r
<1> QED
  BY <1>2, <1>3, <1>5 DEF r

\* The trails a job can have, all on the way to both rounds and a guess.
LEMMA Trails ==
  ASSUME NEW want \in Want
  PROVE  LET options == want.options
             before == Before(want)
             searched == Append(before, "search")
             completed == Append(searched, "autocomplete")
         IN /\ IsPrefix(before, Full(options))
            /\ "key" \in options => IsPrefix(searched, Full(options))
            /\ {"key", "autocomplete"} \subseteq options => IsPrefix(completed, Full(options))
            /\ ~want.guessed =>
                 /\ before = <<>>
                 /\ "key" \notin options => Round(options) = <<>>
                 /\ "key" \in options /\ "autocomplete" \notin options =>
                      Round(options) = searched
                 /\ {"key", "autocomplete"} \subseteq options => Round(options) = completed
<1> DEFINE options == want.options
           before == Before(want)
           searched == Append(before, "search")
           completed == Append(searched, "autocomplete")
<1>1. /\ <<>> \in Seq(Asked) /\ <<"search">> \in Seq(Asked)
      /\ <<"search", "autocomplete">> \in Seq(Asked)
      /\ Round(options) \in Seq(Asked)
  BY RoundStarts DEF Asked
<1>2. CASE ~want.guessed
  <2>1. before = <<>>
    BY <1>2 DEF Before
  <2>5. Append(<<>>, "search") = <<"search">>
        /\ Append(<<"search">>, "autocomplete") = <<"search", "autocomplete">>
    <3>1. "search" \in Asked /\ "autocomplete" \in Asked
      BY DEF Asked
    <3>2. PICK u, v : u = Append(<<>>, "search") /\ v = Append(<<"search">>, "autocomplete")
      OBVIOUS
    <3>3. u \in Seq(Asked) /\ Len(u) = 1 /\ u[1] = "search"
      BY <1>1, <3>1, <3>2
    <3>4. v \in Seq(Asked) /\ Len(v) = 2 /\ v[1] = "search" /\ v[2] = "autocomplete"
      BY <1>1, <3>1, <3>2
    <3>5. u = <<"search">>
      BY <1>1, <3>3, SeqEqual
    <3>6. v = <<"search", "autocomplete">>
      BY <1>1, <3>4, SeqEqual
    <3> QED
      BY <3>2, <3>5, <3>6
  <2>2. /\ "key" \notin options => Round(options) = <<>>
        /\ "key" \in options /\ "autocomplete" \notin options =>
             Round(options) = <<"search">>
        /\ {"key", "autocomplete"} \subseteq options =>
             Round(options) = <<"search", "autocomplete">>
    BY DEF Round
  <2> HIDE DEF options, before, searched, completed
  <2>3. /\ IsPrefix(<<>>, Full(options))
        /\ "key" \in options => IsPrefix(<<"search">>, Full(options))
        /\ {"key", "autocomplete"} \subseteq options =>
             IsPrefix(<<"search", "autocomplete">>, Full(options))
    BY <1>1, RoundStarts, FullStarts
  <2> QED
    BY <1>2, <2>1, <2>2, <2>3, <2>5 DEF options, before, searched, completed
<1>3. CASE want.guessed
  <2> DEFINE b == Append(Round(options), "guess")
  <2>1. before = b
    BY <1>3 DEF Before
  <2>2. b \in Seq(Asked)
    BY <1>1 DEF Asked
  <2> HIDE DEF b
  <2>3. /\ b \o <<>> = b /\ b \o <<"search">> = Append(b, "search")
        /\ b \o <<"search", "autocomplete">> = Append(Append(b, "search"), "autocomplete")
    BY <2>2 DEF Asked
  <2>4. /\ IsPrefix(b \o <<>>, Full(options))
        /\ "key" \in options => IsPrefix(b \o <<"search">>, Full(options))
        /\ {"key", "autocomplete"} \subseteq options =>
             IsPrefix(b \o <<"search", "autocomplete">>, Full(options))
    BY <1>1, RoundStarts, FullStarts DEF b
  <2> QED
    BY <1>3, <2>1, <2>3, <2>4
<1> QED
  BY <1>2, <1>3

\* What a step of a search for a place makes of the job it continues.
Goes(j) ==
  /\ Shaped(job') /\ job'.kind = "place" /\ Trailed(job')
  /\ job'.failures = j.failures /\ job'.asked = j.asked /\ job'.missed = j.missed
  /\ Idle' => job'.outcome = "nothing"

Searching(j) == DOMAIN j = Fields /\ j.kind = "place" /\ j.want \in Want

LEMMA NothingGoes ==
  ASSUME NEW j, Searching(j), IsPrefix(j.trail, Full(j.want.options)), EndWith(j, "nothing")
  PROVE  Goes(j)
<1>1. "place" \in Kinds /\ "done" \in PcsOf("place") /\ "nothing" \in OutcomesOf("place")
  BY DEF Kinds, PcsOf, OutcomesOf
<1> QED
  BY <1>1, EndShape DEF Goes, Shaped, Trailed, Searching, Idle

\* The next stop of a search.
LEMMA PcGoes ==
  ASSUME NEW j, Searching(j), NEW pc \in {"search", "autocomplete", "guess"},
         job' = [j EXCEPT !.pc = pc], Trailed(job')
  PROVE  Goes(j)
<1>1. "place" \in Kinds /\ pc \in PcsOf("place") /\ pc # "done"
  BY DEF Kinds, PcsOf
<1>2. /\ DOMAIN job' = Fields /\ job'.kind = "place" /\ job'.pc = pc
      /\ job'.failures = j.failures /\ job'.asked = j.asked /\ job'.missed = j.missed
  BY DEF Searching, Fields
<1> QED
  BY <1>1, <1>2 DEF Goes, Shaped, Idle

LEMMA PcTrailed ==
  ASSUME NEW j, Searching(j), NEW pc, job' = [j EXCEPT !.pc = pc]
  PROVE  job'.pc = pc /\ job'.want = j.want /\ job'.trail = j.trail
BY DEF Searching, Fields

\* A round is over, or was left out.
LEMMA AskModelGoes ==
  ASSUME NEW j, Searching(j), IsPrefix(j.trail, Full(j.want.options)),
         ~j.want.guessed => j.trail = Round(j.want.options),
         AskModel(j)
  PROVE  Goes(j)
<1>1. CASE job' = [j EXCEPT !.pc = "guess"] /\ ~j.want.guessed
  <2>1. Trailed(job')
    BY <1>1, PcTrailed DEF Trailed, Searching
  <2> QED
    BY <1>1, <2>1, PcGoes
<1>2. CASE EndWith(j, "nothing")
  BY <1>2, NothingGoes
<1> QED
  BY <1>1, <1>2 DEF AskModel

\* A name that is searched for if there is a key.
LEMMA TryGeocodeGoes ==
  ASSUME NEW j, Searching(j), j.trail = Before(j.want),
         ~j.want.guessed => j.want.query # Blank,
         TryGeocode(j)
  PROVE  Goes(j)
<1>1. IsPrefix(j.trail, Full(j.want.options))
  BY Trails DEF Searching
<1>2. CASE job' = [j EXCEPT !.pc = "search"] /\ "key" \in j.want.options
           /\ j.want.query # Blank
  <2>1. Trailed(job')
    BY <1>1, <1>2, PcTrailed DEF Trailed, Searching
  <2> QED
    BY <1>2, <2>1, PcGoes
<1>3. CASE AskModel(j) /\ ~("key" \in j.want.options /\ j.want.query # Blank)
  <2>1. ~j.want.guessed => j.trail = Round(j.want.options)
    BY <1>3, Trails DEF Searching
  <2> QED
    BY <1>1, <1>3, <2>1, AskModelGoes
<1> QED
  BY <1>2, <1>3 DEF TryGeocode

LEMMA StartPlaceFresh ==
  ASSUME NEW query \in SUBSET Words, NEW options \in SUBSET Options,
         StartPlace(query, options)
  PROVE  Fresh /\ job'.kind = "place" /\ Trailed(job')
<1> DEFINE want == [query |-> query, options |-> options, guessed |-> FALSE]
           j == Job("place", "send", want)
<1>1. want \in Want /\ ~want.guessed /\ want.query = query /\ query # Blank
  BY RequestAssumption DEF Want, Queries, Blank
<1>2. /\ DOMAIN j = Fields /\ j.kind = "place" /\ j.want = want
      /\ j.failures = <<>> /\ j.asked = now /\ j.trail = <<>> /\ ~j.missed
  BY JobShape
<1>3. TryGeocode(j)
  BY DEF StartPlace
<1> HIDE DEF j, want
<1>4. Goes(j)
  BY <1>1, <1>2, <1>3, TryGeocodeGoes, Trails DEF Searching, Before
<1> QED
  BY <1>2, <1>4, JobShape DEF Goes, Fresh, StartPlace

LEMMA GuessGoes ==
  ASSUME Shaped(job), Trailed(job), NEW query \in Queries, Guess(query)
  PROVE  Goes(job)
<1> DEFINE j == [job EXCEPT !.want.query = query, !.want.guessed = TRUE,
                            !.trail = Append(@, "guess")]
<1>1. job.kind = "place" /\ job.pc = "guess" /\ job.want \in Want
      /\ job.trail = Round(job.want.options)
  BY DEF Guess, Is, Trailed
<1>2. /\ DOMAIN j = Fields /\ j.kind = "place"
      /\ j.want = [job.want EXCEPT !.query = query, !.guessed = TRUE]
      /\ j.trail = Append(job.trail, "guess")
      /\ j.failures = job.failures /\ j.asked = job.asked /\ j.missed = job.missed
  BY <1>1 DEF Shaped, Fields
<1>3. TryGeocode(j)
  BY DEF Guess
<1> HIDE DEF j
<1>4. j.want \in Want /\ j.want.guessed /\ j.want.options = job.want.options
  BY <1>1, <1>2 DEF Want
<1>5. j.trail = Before(j.want)
  BY <1>1, <1>2, <1>4 DEF Before
<1>6. Goes(j)
  BY <1>2, <1>3, <1>4, <1>5, TryGeocodeGoes DEF Searching
<1> QED
  BY <1>2, <1>6 DEF Goes

-----------------------------------------------------------------------------
(* The places: which one is chosen.                                        *)

LEMMA WordCount ==
  ASSUME NEW S \in SUBSET Words
  PROVE  /\ Cardinality(S) \in Nat
         /\ Cardinality(S) <= Cardinality(Words)
         /\ Cardinality(S) = 0 <=> S = {}
BY WordsAssumption, FS_Subset, FS_CardinalityType, FS_EmptySet

LEMMA ScoreParts ==
  ASSUME NEW c \in Candidate, NEW query
  PROVE  /\ InText(c, query) \in Nat /\ InName(c, query) \in Nat
         /\ InText(c, query) = 0 <=> c.text \intersect query = {}
         /\ InText(c, query) <= Cardinality(Words)
         /\ InName(c, query) <= Cardinality(Words)
         /\ c.importance \in 0 .. 9 /\ c.place \in BOOLEAN
         /\ ~Scores(c, query) => Score(c, query) = 0
         /\ Scores(c, query) =>
              Score(c, query) = 100 * InText(c, query) + 30 * InName(c, query)
                                + (IF c.place THEN 50 ELSE 0) + c.importance
<1>1. /\ c.text \intersect query \in SUBSET Words
      /\ c.name \intersect query \in SUBSET Words
      /\ c.importance \in 0 .. 9 /\ c.place \in BOOLEAN
  BY DEF Candidate
<1>2. /\ InText(c, query) \in Nat /\ InName(c, query) \in Nat
      /\ InText(c, query) <= Cardinality(Words) /\ InName(c, query) <= Cardinality(Words)
      /\ InText(c, query) = 0 <=> c.text \intersect query = {}
  BY <1>1, WordCount DEF InText, InName
<1>3. /\ ~Scores(c, query) => Score(c, query) = 0
      /\ Scores(c, query) =>
           Score(c, query) = 100 * InText(c, query) + 30 * InName(c, query)
                             + (IF c.place THEN 50 ELSE 0) + c.importance
  BY DEF Score, Matched, NameMatched, InText, InName
<1> QED
  BY <1>1, <1>2, <1>3

LEMMA ScoreBounded ==
  ASSUME NEW c \in Candidate, NEW query
  PROVE  Score(c, query) \in 0 .. 130 * Cardinality(Words) + 59
<1>1. Cardinality(Words) \in Nat
  BY WordCount
<1>2. CASE Scores(c, query)
  BY <1>1, <1>2, ScoreParts
<1>3. CASE ~Scores(c, query)
  BY <1>1, <1>3, ScoreParts
<1> QED
  BY <1>2, <1>3

\* A candidate that scores is not passed over.
LEMMA BestExists ==
  ASSUME NEW k \in Nat, NEW candidates \in [1 .. k -> Candidate], NEW query,
         Usable(candidates, query) # {}
  PROVE  Best(candidates, query) # {}
<1> DEFINE U == Usable(candidates, query)
           S(i) == Score(candidates[i], query)
           T == {S(i) : i \in U}
<1>1. U \subseteq 1 .. k
  BY DEF Usable
<1>3. Cardinality(Words) \in Nat
  BY WordCount
<1>2. \A i \in U : S(i) \in Nat /\ S(i) <= 130 * Cardinality(Words) + 59
  BY <1>1, <1>3, ScoreBounded
<1> HIDE DEF U
<1>4. PICK m \in T : \A t \in T : t <= m
  <2>1. T \in SUBSET Nat /\ T # {}
    BY <1>2 DEF U
  <2>2. \A t \in T : t <= 130 * Cardinality(Words) + 59
    BY <1>2
  <2>3. 130 * Cardinality(Words) + 59 \in Nat
    BY <1>3
  <2> HIDE DEF T
  <2> QED
    BY <2>1, <2>2, <2>3, GreatestNumber
<1> DEFINE F == {i \in U : S(i) = m}
<1>5. PICK i \in F : \A j \in F : i <= j
  <2>1. F \in SUBSET Nat /\ F # {}
    BY <1>1
  <2> HIDE DEF F
  <2> QED
    BY <2>1, LeastNumber
<1>6. ASSUME NEW j \in U PROVE S(i) > S(j) \/ (S(i) = S(j) /\ i <= j)
  <2>1. S(j) <= m /\ S(i) = m /\ S(j) \in Nat /\ m \in Nat
    BY <1>2, <1>4
  <2> QED
    BY <1>5, <2>1
<1> QED
  BY <1>5, <1>6 DEF U, Best

\* Who fits scores.
LEMMA FitsScores ==
  ASSUME NEW c \in Candidate, NEW query, Fits(c, query)
  PROVE  Score(c, query) > 0
<1>1. Scores(c, query) /\ c.place /\ c.text \intersect query # {}
  BY DEF Fits, Scores, Matched
<1> QED
  BY <1>1, ScoreParts

\* The score weighs every respect.
LEMMA ScoreMonotonic ==
  ASSUME NEW c \in Candidate, NEW chosen \in Candidate, NEW query,
         Score(chosen, query) > 0, AsGood(c, chosen, query)
  PROVE  /\ Score(c, query) >= Score(chosen, query)
         /\ Score(c, query) = Score(chosen, query) => AsBad(c, chosen, query)
<1>1. Scores(chosen, query)
  BY ScoreParts
<1>2. Scores(c, query)
  <2>1. query # {} => c.text \intersect query # {}
    <3>1. query # {} => chosen.text \intersect query # {}
      BY <1>1 DEF Scores, Matched
    <3>2. InText(chosen, query) = 0 <=> chosen.text \intersect query = {}
      BY ScoreParts
    <3>3. InText(c, query) = 0 <=> c.text \intersect query = {}
      BY ScoreParts
    <3>4. InText(c, query) \in Nat /\ InText(chosen, query) \in Nat
      BY ScoreParts
    <3> QED
      BY <3>1, <3>2, <3>3, <3>4 DEF AsGood
  <2> QED
    BY <2>1 DEF AsGood, Scores, Matched
<1>3. PICK m, n, v, p : /\ m = InText(c, query) /\ n = InName(c, query)
                        /\ v = c.importance /\ p = c.place
  OBVIOUS
<1>4. PICK x, y, w, q : /\ x = InText(chosen, query) /\ y = InName(chosen, query)
                        /\ w = chosen.importance /\ q = chosen.place
  OBVIOUS
<1>5. /\ m \in Nat /\ n \in Nat /\ v \in 0 .. 9 /\ p \in BOOLEAN
      /\ Score(c, query) = 100 * m + 30 * n + (IF p THEN 50 ELSE 0) + v
  BY <1>2, <1>3, ScoreParts
<1>6. /\ x \in Nat /\ y \in Nat /\ w \in 0 .. 9 /\ q \in BOOLEAN
      /\ Score(chosen, query) = 100 * x + 30 * y + (IF q THEN 50 ELSE 0) + w
  BY <1>1, <1>4, ScoreParts
<1>7. m >= x /\ n >= y /\ v >= w /\ (q => p)
  BY <1>3, <1>4 DEF AsGood
<1>8. /\ Score(c, query) >= Score(chosen, query)
      /\ Score(c, query) = Score(chosen, query) => m = x /\ n = y /\ v = w /\ p = q
  BY <1>5, <1>6, <1>7
<1> QED
  BY <1>3, <1>4, <1>8 DEF AsBad

\* The best of equal ones is the first, and alone.
LEMMA BestChosen ==
  ASSUME NEW k \in Nat, NEW candidates \in [1 .. k -> Candidate], NEW query,
         NEW b \in Best(candidates, query)
  PROVE  /\ b \in 1 .. k
         /\ Best(candidates, query) = {b}
         /\ candidates[b].polish /\ candidates[b].located
         /\ \A i \in 1 .. k :
              AsGood(candidates[i], candidates[b], query) =>
                AsBad(candidates[i], candidates[b], query) /\ i >= b
<1>1. b \in 1 .. k /\ Score(candidates[b], query) > 0
  BY DEF Best, Usable
<1>2. ASSUME NEW i \in 1 .. k, AsGood(candidates[i], candidates[b], query)
      PROVE  AsBad(candidates[i], candidates[b], query) /\ i >= b
  <2>1. /\ Score(candidates[i], query) >= Score(candidates[b], query)
        /\ Score(candidates[i], query) = Score(candidates[b], query) =>
             AsBad(candidates[i], candidates[b], query)
    BY <1>1, <1>2, ScoreMonotonic
  <2>2. Score(candidates[i], query) \in Nat /\ Score(candidates[b], query) \in Nat
    BY <1>1, ScoreBounded, WordCount
  <2>3. i \in Usable(candidates, query)
    BY <1>1, <2>1, <2>2 DEF Usable
  <2>4. \/ Score(candidates[b], query) > Score(candidates[i], query)
        \/ Score(candidates[b], query) = Score(candidates[i], query) /\ b <= i
    BY <2>3 DEF Best
  <2> QED
    BY <1>1, <2>1, <2>2, <2>4
<1>3. ASSUME NEW d \in Best(candidates, query) PROVE d = b
  <2>1. d \in 1 .. k
        /\ Score(candidates[d], query) \in Nat /\ Score(candidates[b], query) \in Nat
    BY <1>1, ScoreBounded, WordCount DEF Best, Usable
  <2>2. /\ \/ Score(candidates[b], query) > Score(candidates[d], query)
           \/ Score(candidates[b], query) = Score(candidates[d], query) /\ b <= d
        /\ \/ Score(candidates[d], query) > Score(candidates[b], query)
           \/ Score(candidates[d], query) = Score(candidates[b], query) /\ d <= b
    BY DEF Best
  <2> QED
    BY <1>1, <2>1, <2>2
<1>4. candidates[b].polish /\ candidates[b].located
  <2>1. Scores(candidates[b], query)
    BY <1>1, ScoreParts
  <2> QED
    BY <2>1 DEF Scores
<1> QED
  BY <1>1, <1>2, <1>3, <1>4

LEMMA SingletonSeq ==
  ASSUME NEW b
  PROVE  SetToSeq({b})[1] = b
<1>1. Cardinality({b}) = 1
  BY FS_Singleton
<1>2. [i \in 1 .. 1 |-> b] \in [1 .. 1 -> {b}] /\ IsInjective([i \in 1 .. 1 |-> b])
  BY DEF IsInjective
<1>3. SetToSeq({b}) \in [1 .. 1 -> {b}]
  BY <1>1, <1>2 DEF SetToSeq
<1> QED
  BY <1>3

\* An endpoint replies.
LEMMA ReplyMoves ==
  ASSUME Shaped(job), Trailed(job), Well(job),
         NEW endpoint \in {"search", "autocomplete"}, NEW k \in Nat,
         NEW reply \in [1 .. k -> Candidate], Reply(endpoint, reply)
  PROVE  /\ Shaped(job') /\ job'.kind = "place" /\ Trailed(job') /\ Well(job')
         /\ job'.failures = job.failures /\ job'.asked = job.asked
<1> DEFINE query == job.want.query
           best == Best(reply, query)
           found == [job EXCEPT !.reply = reply, !.points = SetToSeq(best)]
           passed == \E c \in Range(reply) : Fits(c, query)
           nothing == [job EXCEPT !.trail = Append(@, endpoint),
                                  !.missed = @ \/ passed]
<1>1. job.kind = "place" /\ job.pc = endpoint /\ job.want \in Want /\ ~job.missed
  BY DEF Reply, Is, Trailed, Well
<1>2. CASE best # {} /\ EndWith(found, "found")
  <2>1. PICK b \in best : TRUE
    BY <1>2
  <2>2. /\ b \in 1 .. k /\ best = {b} /\ reply[b].polish /\ reply[b].located
        /\ \A i \in 1 .. k :
             AsGood(reply[i], reply[b], query) => AsBad(reply[i], reply[b], query) /\ i >= b
    BY <2>1, BestChosen
  <2>3. SetToSeq(best)[1] = b
    BY <2>2, SingletonSeq
  <2>4. /\ DOMAIN found = Fields /\ found.kind = "place" /\ found.want = job.want
        /\ found.trail = job.trail /\ found.failures = job.failures
        /\ found.asked = job.asked /\ found.missed = job.missed
        /\ found.reply = reply /\ found.points = SetToSeq(best)
    BY <1>1 DEF Shaped, Fields
  <2>5. "place" \in Kinds /\ "done" \in PcsOf("place") /\ "found" \in OutcomesOf("place")
    BY DEF Kinds, PcsOf, OutcomesOf
  <2> HIDE DEF found, best
  <2>6. /\ DOMAIN job' = Fields /\ job'.pc = "done" /\ job'.outcome = "found"
        /\ job'.kind = "place" /\ job'.want = job.want /\ job'.trail = job.trail
        /\ job'.failures = job.failures /\ job'.asked = job.asked /\ ~job'.missed
        /\ job'.reply = reply /\ job'.points[1] = b
    BY <1>1, <1>2, <2>3, <2>4, EndShape
  <2>7. Shaped(job') /\ Trailed(job')
    BY <1>1, <2>5, <2>6 DEF Shaped, Trailed
  <2>8. Well(job')
    BY <2>2, <2>6 DEF Well
  <2> QED
    BY <2>6, <2>7, <2>8
<1>3. CASE best = {} /\ (IF endpoint = "search" THEN AfterSearch(nothing)
                                                ELSE AskModel(nothing))
  <2>1. ~passed
    <3> SUFFICES ASSUME NEW i \in 1 .. k, Fits(reply[i], query) PROVE FALSE
      BY DEF Range
    <3>1. i \in Usable(reply, query)
      BY FitsScores DEF Usable
    <3> QED
      BY <1>3, <3>1, BestExists
  <2>2. /\ DOMAIN nothing = Fields /\ nothing.kind = "place" /\ nothing.want = job.want
        /\ nothing.trail = Append(job.trail, endpoint) /\ nothing.failures = job.failures
        /\ nothing.asked = job.asked /\ ~nothing.missed
    <3> HIDE DEF passed
    <3> QED
      BY <1>1, <2>1 DEF Shaped, Fields
  <2>3. Searching(nothing)
    BY <1>1, <2>2 DEF Searching
  <2> HIDE DEF nothing
  <2>4. Goes(nothing)
    <3>1. CASE endpoint = "search" /\ "autocomplete" \in job.want.options
      <4>1. job' = [nothing EXCEPT !.pc = "autocomplete"]
        BY <1>3, <2>2, <3>1 DEF AfterSearch
      <4>2. "key" \in job.want.options /\ job.want.query # Blank
            /\ nothing.trail = Append(Before(job.want), "search")
        BY <1>1, <2>2, <3>1 DEF Trailed
      <4>3. IsPrefix(nothing.trail, Full(job.want.options))
        BY <1>1, <4>2, Trails
      <4>4. Trailed(job')
        BY <1>1, <2>2, <2>3, <3>1, <4>1, <4>2, <4>3, PcTrailed DEF Trailed
      <4> QED
        BY <2>3, <4>1, <4>4, PcGoes
    <3>2. CASE endpoint = "search" /\ "autocomplete" \notin job.want.options
      <4>1. AskModel(nothing)
        BY <1>3, <2>2, <3>2 DEF AfterSearch
      <4>2. "key" \in job.want.options /\ nothing.trail = Append(Before(job.want), "search")
        BY <1>1, <2>2, <3>2 DEF Trailed
      <4>3. /\ IsPrefix(nothing.trail, Full(job.want.options))
            /\ ~job.want.guessed => nothing.trail = Round(job.want.options)
        BY <1>1, <3>2, <4>2, Trails
      <4> QED
        BY <2>2, <2>3, <4>1, <4>3, AskModelGoes
    <3>3. CASE endpoint = "autocomplete"
      <4>1. AskModel(nothing)
        BY <1>3, <3>3
      <4>2. /\ {"key", "autocomplete"} \subseteq job.want.options
            /\ nothing.trail = Append(Append(Before(job.want), "search"), "autocomplete")
        BY <1>1, <2>2, <3>3 DEF Trailed
      <4>3. /\ IsPrefix(nothing.trail, Full(job.want.options))
            /\ ~job.want.guessed => nothing.trail = Round(job.want.options)
        BY <1>1, <4>2, Trails
      <4> QED
        BY <2>2, <2>3, <4>1, <4>3, AskModelGoes
    <3> QED
      BY <3>1, <3>2, <3>3
  <2> QED
    BY <2>2, <2>4 DEF Goes, Well, Idle
<1> QED
  BY <1>2, <1>3 DEF Reply

\* No other step of a search chooses.
LEMMA SearchMoves ==
  ASSUME Shaped(job), Trailed(job), Well(job),
         Unreachable \/ NoGuess \/ \E query \in Queries : Guess(query)
  PROVE  /\ Shaped(job') /\ job'.kind = "place" /\ Trailed(job') /\ Well(job')
         /\ job'.failures = job.failures /\ job'.asked = job.asked
         /\ ~Idle
<1>1. /\ Unreachable \/ NoGuess => job.kind = "place" /\ ~Idle /\ EndWith(job, "nothing")
      /\ \A query : Guess(query) => ~Idle
  BY DEF Unreachable, NoGuess, Is, End, Idle, Guess
<1>2. CASE Unreachable \/ NoGuess
  <2>1. Searching(job) /\ IsPrefix(job.trail, Full(job.want.options))
    BY <1>1, <1>2 DEF Searching, Shaped, Trailed
  <2> QED
    BY <1>1, <1>2, <2>1, NothingGoes DEF Goes, Well, Idle
<1>3. CASE \E query \in Queries : Guess(query)
  BY <1>1, <1>3, GuessGoes DEF Goes, Well, Idle
<1> QED
  BY <1>2, <1>3

-----------------------------------------------------------------------------
(* The invariant is kept.                                                  *)

LEMMA FreshInv ==
  ASSUME IInv, Fresh, job'.kind = "place" => Trailed(job')
  PROVE  IInv'
<1>1. Clock'
  BY RequestAssumption DEF IInv, Clock, Fresh
<1>2. Counters'
  BY RequestAssumption DEF IInv, Counters, Fresh
<1>3. Tries' /\ Reasons'
  <2>1. job'.failures \in Seq(Failures) /\ Len(job'.failures) = 0
    BY DEF Fresh
  <2> QED
    BY <2>1 DEF Tries, Reasons, Fresh, MaxRetries
<1>4. Well(job')
  BY DEF Fresh, Well, Idle
<1> QED
  BY <1>1, <1>2, <1>3, <1>4 DEF IInv, Fresh

LEMMA HarmlessInv ==
  ASSUME IInv, Harmless, Counters'
  PROVE  IInv'
<1>1. Clock'
  BY RequestAssumption DEF IInv, Clock, Harmless, Moves
<1>2. Tries'
  BY DEF IInv, Tries, Harmless
<1>3. Reasons'
  BY DEF IInv, Reasons, Harmless, Moves
<1> QED
  BY <1>1, <1>2, <1>3 DEF IInv, Harmless, Moves

\* Nothing was stored.
LEMMA HarmlessCounts ==
  ASSUME IInv, Harmless, UNCHANGED snapshots
  PROVE  IInv'
<1>1. Counters'
  BY DEF IInv, Counters, Harmless, Moves
<1> QED
  BY <1>1, HarmlessInv

LEMMA FailInv ==
  ASSUME IInv, NEW failure \in Failures, Fail(failure)
  PROVE  IInv'
<1>1. /\ Moves
      /\ job.pc = "send" /\ job.kind \in Retried
      /\ job'.failures = Append(job.failures, failure)
      /\ job'.asked = job.asked
      /\ \/ job'.pc = "backoff" /\ failure # "bad" /\ Len(job'.failures) < MaxRetries
         \/ /\ Idle'
            /\ failure = "bad" \/ ~(Len(job'.failures) < MaxRetries)
            /\ job'.outcome = Gone(job.kind)
      /\ UNCHANGED snapshots
  BY FailMoves DEF IInv
<1>2. Clock' /\ Counters'
  BY <1>1 DEF IInv, Clock, Counters, Moves
<1>3. /\ job.failures \in Seq(Failures) /\ Len(job.failures) < MaxRetries
      /\ \A i \in DOMAIN job.failures : job.failures[i] # "bad"
  BY <1>1 DEF IInv, Tries, Idle
<1>4. /\ job'.failures \in Seq(Failures)
      /\ Len(job'.failures) = Len(job.failures) + 1 /\ Len(job.failures) \in Nat
      /\ DOMAIN job'.failures = 1 .. Len(job.failures) + 1
      /\ \A i \in 1 .. Len(job.failures) : job'.failures[i] = job.failures[i]
      /\ job'.failures[Len(job.failures) + 1] = failure
      /\ DOMAIN job.failures = 1 .. Len(job.failures)
  BY <1>1, <1>3
<1>5. Tries'
  <2>1. \A i \in DOMAIN job'.failures :
          job'.failures[i] = "bad" => failure = "bad" /\ i = Len(job'.failures)
    BY <1>3, <1>4
  <2>2. Len(job'.failures) <= MaxRetries
    BY <1>3, <1>4 DEF MaxRetries
  <2>3. failure = "bad" => Idle'
    BY <1>1
  <2>4. ~Idle' => Len(job'.failures) < MaxRetries
    BY <1>1
  <2> QED
    BY <1>4, <2>1, <2>2, <2>3, <2>4 DEF Tries
<1>6. Reasons'
  <2>1. failure = "bad" => "bad" \in ToSet(job'.failures)
    BY <1>4 DEF ToSet
  <2>2. ~(Len(job'.failures) < MaxRetries) => Len(job'.failures) = MaxRetries
    BY <1>3, <1>4 DEF MaxRetries
  <2> QED
    BY <1>1, <2>1, <2>2 DEF Reasons, Idle
<1> QED
  BY <1>1, <1>2, <1>5, <1>6 DEF IInv, Moves

\* The steps about places.
LEMMA PlaceInv ==
  ASSUME IInv, job.kind = "place",
         Shaped(job'), job'.kind = "place", Trailed(job'), Well(job'),
         job'.failures = job.failures, job'.asked = job.asked, ~Idle,
         UNCHANGED <<now, enabled, snapshots, jobs>>
  PROVE  IInv'
<1>1. Clock' /\ Counters' /\ Reasons'
  BY DEF IInv, Clock, Counters, Reasons
<1>2. Tries'
  BY DEF IInv, Tries
<1> QED
  BY <1>1, <1>2 DEF IInv

LEMMA InvNext ==
  ASSUME IInv, [Next]_vars
  PROVE  IInv'
<1> USE DEF IInv
<1>1. CASE Begin
  <2>1. ASSUME NEW query \in SUBSET Words, NEW options \in SUBSET Options,
               StartPlace(query, options)
        PROVE  IInv'
    BY <2>1, StartPlaceFresh, FreshInv
  <2>2. CASE \/ \E e \in Expressions : StartRule(e)
             \/ \E first \in AskedDays, last \in AskedDays : AskForecast(first, last)
             \/ \E range \in AskedRanges, usable \in BOOLEAN : AskChart(range, usable)
             \/ \E place \in Places : StartObservations(place)
             \/ \E provider \in {"meteo", "hydro"}, place \in Places :
                  StartWarnings(provider, place)
    BY <2>2, BeginFresh, FreshInv
  <2> QED
    BY <1>1, <2>1, <2>2 DEF Begin
<1>2. CASE Ongoing
  <2>1. CASE Locate \/ Backoff \/ Judge \/ FailObservations
    BY <2>1, LocateHarmless, BackoffHarmless, JudgeHarmless, OfficialHarmless, HarmlessCounts
  <2>2. ASSUME NEW failure \in Failures, Fail(failure) PROVE IInv'
    BY <2>2, FailInv
  <2>3. ASSUME NEW lost \in Lost, Garble(lost) \/ FetchForecast(lost) \/ FetchChart(lost)
        PROVE  IInv'
    BY <2>3, GarbleHarmless, FetchHarmless, HarmlessCounts
  <2>4. ASSUME NEW lost \in Lost, FetchRule(lost) PROVE IInv'
    <3>1. /\ Harmless /\ job.kind = "rule" /\ job.pc = "send" /\ job'.pc = "judge"
          /\ snapshots' = Append(snapshots, <<>>)
      BY <2>4, FetchRuleHarmless
    <3>2. Counters'
      BY <3>1 DEF Counters, Harmless, Moves
    <3> QED
      BY <3>1, <3>2, HarmlessInv
  <2>5. ASSUME NEW reply, Observe(reply) \/ FetchWarnings(reply) PROVE IInv'
    BY <2>5, OfficialHarmless, HarmlessCounts
  <2>6. ASSUME NEW endpoint \in {"search", "autocomplete"},
               NEW reply \in Replies(Candidates, MaxItems), Reply(endpoint, reply)
        PROVE  IInv'
    <3>1. PICK k \in Nat : reply \in [1 .. k -> Candidate]
      BY RequestAssumption DEF Replies
    <3>2. job.kind = "place" /\ ~Idle
      BY <2>6 DEF Reply, Is, Idle
    <3> QED
      BY <2>6, <3>1, <3>2, ReplyMoves, PlaceInv DEF Reply
  <2>7. CASE Unreachable \/ NoGuess \/ \E query \in Queries : Guess(query)
    <3>1. job.kind = "place" /\ UNCHANGED <<now, enabled, snapshots, jobs>>
      BY <2>7 DEF Unreachable, NoGuess, Guess, Is
    <3> QED
      BY <2>7, <3>1, SearchMoves, PlaceInv
  <2> QED
    BY <1>2, <2>1, <2>2, <2>3, <2>4, <2>5, <2>6, <2>7 DEF Ongoing, Queries
<1>3. CASE Disable
  BY <1>3 DEF Disable, Clock, Counters, Tries, Reasons, Idle
<1>4. CASE Tick
  BY <1>4, RequestAssumption DEF Tick, Clock, Counters, Tries, Reasons, Idle
<1>5. CASE SaveObservations \/ SaveWarnings
  BY <1>5, OfficialHarmless, HarmlessCounts
<1>6. CASE UNCHANGED vars
  BY <1>6 DEF vars, Clock, Counters, Tries, Reasons, Idle
<1> QED
  BY <1>1, <1>2, <1>3, <1>4, <1>5, <1>6 DEF Next

LEMMA InvInit ==
  ASSUME Init
  PROVE  IInv
<1>1. /\ DOMAIN job = Fields /\ job.kind = "none" /\ job.pc = "done"
      /\ job.failures = <<>> /\ job.outcome = "none" /\ job.asked = now
  BY JobShape DEF Init
<1>2. Shaped(job)
  BY <1>1 DEF Shaped, Kinds, PcsOf, OutcomesOf
<1>3. Clock
  BY <1>1, RequestAssumption DEF Init, Clock
<1>4. Counters
  <2>1. snapshots \in {<<>>, <<(<<>>)>>, <<StoredPoints>>} /\ jobs = 0
    BY DEF Init
  <2>2. snapshots \in Seq({<<>>, StoredPoints}) /\ Len(snapshots) <= 1
    <3> DEFINE S == {<<>>, StoredPoints}
    <3>1. <<>> \in S /\ StoredPoints \in S
      OBVIOUS
    <3> HIDE DEF S
    <3>2. CASE snapshots = <<>>
      BY <3>2
    <3>3. ASSUME NEW x \in S, snapshots = <<x>>
          PROVE  snapshots \in Seq(S) /\ Len(snapshots) <= 1
      BY <3>3
    <3> QED
      BY <2>1, <3>1, <3>2, <3>3 DEF S
  <2> QED
    BY <1>1, <2>1, <2>2, RequestAssumption DEF Counters
<1>5. Tries /\ Reasons
  <2>1. job.failures \in Seq(Failures) /\ Len(job.failures) = 0
    BY <1>1
  <2> QED
    BY <1>1, <2>1 DEF Tries, Reasons, MaxRetries, Idle
<1> QED
  BY <1>1, <1>2, <1>3, <1>4, <1>5 DEF IInv

LEMMA InvCorrect == Spec => []IInv
BY InvInit, InvNext, PTL DEF Spec

-----------------------------------------------------------------------------
(* The theorems.                                                           *)

\* Type correctness: the clock and the counters keep to their bounds, and every job
\* ends with an outcome of its kind, however its services fail.
THEOREM TypeCorrect == Spec => []TypeOK
<1>1. IInv => TypeOK
  <2> SUFFICES ASSUME IInv PROVE TypeOK
    OBVIOUS
  <2>1. /\ now \in Nat /\ now <= job.asked + MaxDelay /\ enabled \in BOOLEAN
        /\ jobs \in 0 .. MaxJobs
    BY DEF IInv, Clock, Counters
  <2>2. Len(snapshots) <= MaxJobs + 1
    BY <2>1, RequestAssumption DEF IInv, Counters
  <2>3. job.pc \in {"done", "locate", "send", "backoff", "judge", "search",
                    "autocomplete", "guess"}
    BY DEF IInv, Shaped, PcsOf
  <2>4. Idle => job.outcome \in OutcomesOf(job.kind)
    BY DEF IInv, Shaped, Idle
  <2> QED
    BY <2>1, <2>2, <2>3, <2>4, Zenon DEF TypeOK, OutcomesOf
<1> QED
  BY <1>1, InvCorrect, PTL

\* Whatever the services answer and however often they fail: three attempts at most,
\* one after a response that is no forecast; the model is asked once, after every
\* endpoint; and of any number of candidates no fitting one is passed over for one
\* that is worse.
THEOREM RequestsExplainedCorrect == Spec => []RequestsExplained
<1>1. IInv => GivenUpForReason
  BY DEF IInv, Shaped, Tries, Reasons, GivenUpForReason, MaxRetries, Retried, Forecasts,
         OutcomesOf, Idle
<1>2. IInv => ModelAskedLast
  BY DEF IInv, Trailed, ModelAskedLast, Round, Full
<1>3. IInv => PlaceChosenWell
  BY DEF IInv, Well, AsGood, AsBad, InText, InName, PlaceChosenWell, Idle
<1> QED
  BY <1>1, <1>2, <1>3, InvCorrect, PTL DEF RequestsExplained

-----------------------------------------------------------------------------
(* Why a job ends.                                                         *)

\* A job that is not over has a step left, and one that is has none.
LEMMA StepsRemain ==
  ASSUME IInv
  PROVE  /\ Len(job.failures) \in Nat
         /\ ~Idle => Len(job.failures) < 3 /\ StepsLeft(job) \in Nat \ {0}
<1>1. Len(job.failures) \in Nat /\ (~Idle => Len(job.failures) < 3)
  BY DEF IInv, Tries, MaxRetries
<1>2. job.pc \in {"done", "locate", "send", "backoff", "judge", "search",
                  "autocomplete", "guess"}
  BY DEF IInv, Shaped, PcsOf
<1> QED
  BY <1>1, <1>2 DEF StepsLeft, MaxRetries, Idle

LEMMA NoneLeft ==
  ASSUME IInv, ~Idle, NEW j, NEW outcome, DOMAIN j = Fields, EndWith(j, outcome)
  PROVE  StepsLeft(job') \in 0 .. StepsLeft(job) - 1
<1>1. StepsLeft(job') = 0
  BY EndShape DEF StepsLeft
<1> QED
  BY <1>1, StepsRemain

\* A search that goes on with the next endpoint or with the model.
LEMMA SearchAdvances ==
  ASSUME IInv, ~Idle, NEW j, DOMAIN j = Fields, j.want = job.want,
         \/ job.pc = "search" /\ (AfterSearch(j) \/ AskModel(j))
         \/ job.pc = "autocomplete" /\ AskModel(j)
  PROVE  StepsLeft(job') \in 0 .. StepsLeft(job) - 1
<1>1. CASE EndWith(j, "nothing")
  BY <1>1, NoneLeft
<1>2. CASE job' = [j EXCEPT !.pc = "autocomplete"] /\ job.pc = "search"
  <2>1. job'.pc = "autocomplete" /\ job'.want = job.want
    BY <1>2 DEF Fields
  <2> QED
    BY <1>2, <2>1 DEF StepsLeft
<1>3. CASE job' = [j EXCEPT !.pc = "guess"] /\ ~j.want.guessed
  <2>1. job'.pc = "guess"
    BY <1>3 DEF Fields
  <2> QED
    BY <1>3, <2>1 DEF StepsLeft
<1> QED
  BY <1>1, <1>2, <1>3 DEF AfterSearch, AskModel

LEMMA GuessAdvances ==
  ASSUME IInv, NEW query, Guess(query)
  PROVE  StepsLeft(job') \in 0 .. StepsLeft(job) - 1
<1> DEFINE j == [job EXCEPT !.want.query = query, !.want.guessed = TRUE,
                            !.trail = Append(@, "guess")]
<1>1. job.pc = "guess" /\ job.kind = "place" /\ ~Idle
  BY DEF Guess, Is, Idle
<1>2. DOMAIN j = Fields /\ j.want.guessed
  BY <1>1 DEF IInv, Shaped, Trailed, Want, Fields
<1>3. TryGeocode(j)
  BY DEF Guess
<1> HIDE DEF j
<1>4. CASE job' = [j EXCEPT !.pc = "search"]
  <2>1. job'.pc = "search" /\ job'.want.guessed
    BY <1>2, <1>4 DEF Fields
  <2> QED
    BY <1>1, <2>1 DEF StepsLeft
<1>5. CASE EndWith(j, "nothing")
  BY <1>1, <1>2, <1>5, NoneLeft
<1> QED
  BY <1>2, <1>3, <1>4, <1>5 DEF TryGeocode, AskModel

LEMMA OngoingAdvances ==
  ASSUME IInv, Ongoing
  PROVE  StepsLeft(job') \in 0 .. StepsLeft(job) - 1
<1> DEFINE advances == StepsLeft(job') \in 0 .. StepsLeft(job) - 1
<1>1. DOMAIN job = Fields /\ Len(job.failures) \in Nat
  BY StepsRemain DEF IInv, Shaped
<1>2. CASE Locate
  <2>1. job.pc = "locate" /\ ~Idle
    BY <1>2 DEF Locate, Is, Idle
  <2>2. CASE enabled
    <3>1. job'.pc = "send" /\ job'.failures = job.failures
      BY <1>1, <1>2, <2>2 DEF Locate, Fields
    <3> QED
      BY <1>1, <2>1, <3>1, StepsRemain DEF StepsLeft, MaxRetries
  <2>3. CASE ~enabled
    BY <1>1, <1>2, <2>1, <2>3, NoneLeft DEF Locate, End
  <2> QED
    BY <2>2, <2>3
<1>3. ASSUME NEW failure \in Failures, Fail(failure) PROVE advances
  <2> DEFINE failed == [job EXCEPT !.failures = Append(@, failure)]
  <2>1. job.pc = "send" /\ ~Idle
    BY <1>3 DEF Fail, Is, Idle
  <2>2. DOMAIN failed = Fields /\ failed.failures = Append(job.failures, failure)
    BY <1>1 DEF Fields
  <2>3. Len(failed.failures) = Len(job.failures) + 1
    BY <1>3, <2>2 DEF IInv, Tries
  <2> HIDE DEF failed
  <2>4. CASE job' = [failed EXCEPT !.pc = "backoff"]
    <3>1. job'.pc = "backoff" /\ job'.failures = failed.failures
      BY <2>2, <2>4 DEF Fields
    <3> QED
      BY <1>1, <2>1, <2>3, <3>1, StepsRemain DEF StepsLeft, MaxRetries
  <2>5. CASE EndWith(failed, Gone(job.kind))
    BY <2>1, <2>2, <2>5, NoneLeft
  <2>6. job' = [failed EXCEPT !.pc = "backoff"] \/ EndWith(failed, Gone(job.kind))
    BY <1>3 DEF Fail, failed
  <2> QED
    BY <2>4, <2>5, <2>6
<1>4. CASE Backoff
  <2>1. job.pc = "backoff" /\ ~Idle
    BY <1>4 DEF Backoff, Is, Idle
  <2>2. job'.pc = "send" /\ job'.failures = job.failures
    BY <1>1, <1>4 DEF Backoff, KeepFailures, Fields
  <2> QED
    BY <1>1, <2>1, <2>2, StepsRemain DEF StepsLeft, MaxRetries
<1>5. ASSUME NEW lost, Garble(lost) \/ FetchForecast(lost) \/ FetchChart(lost) PROVE advances
  <2>1. ~Idle
    BY <1>5 DEF Garble, FetchForecast, FetchChart, Is, Idle
  <2>2. PICK points : Read(lost) = [job EXCEPT !.lost = lost, !.points = points]
    BY DEF Read
  <2>3. DOMAIN Read(lost) = Fields /\ DOMAIN [job EXCEPT !.lost = lost] = Fields
        /\ \A shown : DOMAIN [Read(lost) EXCEPT !.points = shown] = Fields
    BY <1>1, <2>2
  <2> QED
    BY <1>5, <2>1, <2>3, NoneLeft DEF Garble, FetchForecast, FetchChart
<1>6. ASSUME NEW lost, FetchRule(lost) PROVE advances
  <2>1. job.pc = "send" /\ ~Idle
    BY <1>6 DEF FetchRule, Is, Idle
  <2>2. PICK points : Read(lost) = [job EXCEPT !.lost = lost, !.points = points]
    BY DEF Read
  <2>3. job'.pc = "judge"
    BY <1>1, <1>6, <2>2 DEF FetchRule, Fields
  <2> QED
    BY <1>1, <2>1, <2>3, StepsRemain DEF StepsLeft, MaxRetries
<1>7. CASE Judge
  <2>1. ~Idle
    BY <1>7 DEF Judge, Is, Idle
  <2>2. DOMAIN [job EXCEPT !.previous = PreviousPoints] = Fields
    BY <1>1
  <2> QED
    BY <1>7, <2>1, <2>2, NoneLeft DEF Judge
<1>8. ASSUME NEW reply, FailObservations \/ Observe(reply) \/ FetchWarnings(reply)
      PROVE  advances
  <2>1. ~Idle
    BY <1>8 DEF FailObservations, Observe, FetchWarnings, Is, Idle
  <2>2. PICK j, outcome : EndWith(j, outcome) /\ DOMAIN j = DOMAIN job
    <3>1. CASE FailObservations
      BY <3>1 DEF FailObservations, End
    <3>2. CASE Observe(reply)
      <4>1. PICK points : EndWith([job EXCEPT !.reply = reply, !.points = points], "shown")
        BY <3>2 DEF Observe
      <4>2. DOMAIN [job EXCEPT !.reply = reply, !.points = points] = DOMAIN job
        BY <1>1
      <4> QED
        BY <4>1, <4>2
    <3>3. CASE FetchWarnings(reply)
      <4>1. PICK points : EndWith([job EXCEPT !.reply = reply, !.points = points], "shown")
        BY <3>3 DEF FetchWarnings
      <4>2. DOMAIN [job EXCEPT !.reply = reply, !.points = points] = DOMAIN job
        BY <1>1
      <4> QED
        BY <4>1, <4>2
    <3> QED
      BY <1>8, <3>1, <3>2, <3>3
  <2> QED
    BY <1>1, <2>1, <2>2, NoneLeft
<1>9. ASSUME NEW endpoint \in {"search", "autocomplete"}, NEW reply, Reply(endpoint, reply)
      PROVE  advances
  <2>1. job.pc = endpoint /\ ~Idle
    BY <1>9 DEF Reply, Is, Idle
  <2> DEFINE found(points) == [job EXCEPT !.reply = reply, !.points = points]
             nothing(missed) == [job EXCEPT !.trail = Append(@, endpoint), !.missed = missed]
  <2>2. /\ \A points : DOMAIN found(points) = Fields
        /\ \A missed : DOMAIN nothing(missed) = Fields /\ nothing(missed).want = job.want
    BY <1>1 DEF Fields
  <2>3. \/ \E points : EndWith(found(points), "found")
        \/ \E missed : /\ endpoint = "search" => AfterSearch(nothing(missed))
                       /\ endpoint # "search" => AskModel(nothing(missed))
    BY <1>9 DEF Reply
  <2> HIDE DEF found, nothing
  <2>4. ASSUME NEW points, EndWith(found(points), "found") PROVE advances
    BY <2>1, <2>2, <2>4, NoneLeft
  <2>5. ASSUME NEW missed, endpoint = "search" => AfterSearch(nothing(missed)),
               endpoint # "search" => AskModel(nothing(missed))
        PROVE  advances
    BY <2>1, <2>2, <2>5, SearchAdvances
  <2> QED
    BY <2>3, <2>4, <2>5
<1>10. CASE Unreachable \/ NoGuess
  <2>1. ~Idle
    BY <1>10 DEF Unreachable, NoGuess, Is, Idle
  <2> QED
    BY <1>1, <1>10, <2>1, NoneLeft DEF Unreachable, NoGuess, End
<1>11. ASSUME NEW query, Guess(query) PROVE advances
  BY <1>11, GuessAdvances
<1> QED
  BY <1>2, <1>3, <1>4, <1>5, <1>6, <1>7, <1>8, <1>9, <1>10, <1>11 DEF Ongoing

\* No chain of attempts, endpoints and guesses goes round in a circle: whatever the
\* services answer, each step of a job takes one of finitely many that are left, and
\* but for the clock and the removal of the location there are no others meanwhile.
THEOREM JobAdvancesCorrect == Spec => JobAdvances
<1> DEFINE step == ~Idle => \/ StepsLeft(job') \in 0 .. StepsLeft(job) - 1
                            \/ UNCHANGED job /\ (now < now' \/ (enabled /\ ~enabled'))
<1>1. ASSUME IInv, [Next]_vars PROVE [step]_vars
  <2> SUFFICES ASSUME ~Idle, Next PROVE step
    BY <1>1
  <2>1. CASE Begin
    BY <2>1 DEF Begin, StartRule, AskForecast, AskChart, StartObservations, StartWarnings,
       StartPlace, Start, Ask, Refuse
  <2>2. CASE Ongoing
    BY <1>1, <2>2, OngoingAdvances
  <2>3. CASE Disable
    BY <2>3 DEF Disable
  <2>4. CASE Tick
    BY <1>1, <2>4 DEF Tick, IInv, Clock
  <2>5. CASE SaveObservations \/ SaveWarnings
    BY <2>5 DEF SaveObservations, SaveWarnings, Is, Idle
  <2> QED
    BY <2>1, <2>2, <2>3, <2>4, <2>5 DEF Next
<1> QED
  BY <1>1, InvCorrect, PTL DEF Spec, JobAdvances

-----------------------------------------------------------------------------
(* The points an answer is turned into.                                    *)

\* What is chosen from a list are the elements at the positions.
LEMMA ChosenElements ==
  ASSUME NEW s, NEW S, IsFiniteSet(S), S \subseteq Int
  PROVE  ToSet(Chosen(s, S)) = {s[i] : i \in S}
<1> DEFINE n == Cardinality(S)
<1>1. PICK f : Counts(f, S) /\ Picks(Chosen(s, S), f, s, S)
  BY ChosenIs
<1>2. /\ n \in Nat /\ \A k \in 1 .. n : f[k] \in S
      /\ \A x \in S : \E k \in 1 .. n : f[k] = x
  BY <1>1 DEF Counts
<1>3. Chosen(s, S) = [k \in 1 .. n |-> s[f[k]]]
  BY <1>1 DEF Picks
<1> HIDE DEF n
<1>4. ToSet(Chosen(s, S)) = {s[f[k]] : k \in 1 .. n}
  BY <1>3 DEF ToSet
<1> QED
  BY <1>2, <1>4

Days == [first : Int, last : Int]

\* The hours from the first day's first to the last day's last.
LEMMA HoursOrdered ==
  ASSUME NEW days \in Days
  PROVE  LET hours == HoursOf(days)
             N == (days.last - days.first + 1) * DayHours
             base == days.first * DayHours
         IN  /\ N \in Int /\ base \in Int /\ base + N = (days.last + 1) * DayHours
             /\ days.first * Day = 2 * base /\ (days.last + 1) * Day = 2 * (base + N)
             /\ DOMAIN hours = 1 .. N /\ (N \in Nat => Len(hours) = N)
             /\ \A i \in 1 .. N : hours[i] = 2 * (base + i - 1) /\ hours[i] \in Int
<1> DEFINE a == days.first
           b == days.last
           N == (b - a + 1) * DayHours
           base == a * DayHours
           hours == HoursOf(days)
<1>1. a \in Int /\ b \in Int /\ DayHours \in Nat \ {0}
  BY ExpressionAssumption DEF Days
<1>2. /\ N \in Int /\ base \in Int /\ a * Day = 2 * base /\ (b + 1) * Day = 2 * (base + N)
      /\ base + N = (b + 1) * DayHours
  <2> DEFINE Same(x, y, d) == /\ (y - x + 1) * d \in Int /\ x * d \in Int
                              /\ x * (d * 2) = 2 * (x * d)
                              /\ (y + 1) * (d * 2) = 2 * (x * d + (y - x + 1) * d)
                              /\ x * d + (y - x + 1) * d = (y + 1) * d
  <2>1. \A x, y, d \in Int : Same(x, y, d)
    OBVIOUS
  <2>2. Day = DayHours * 2 /\ DayHours \in Int
    BY <1>1 DEF Day, Hour
  <2>3. Same(a, b, DayHours)
    <3> HIDE DEF Same
    <3> QED
      BY <1>1, <2>2, <2>1
  <2> QED
    BY <2>2, <2>3
<1>3. hours = [i \in 1 .. N |-> a * Day + (i - 1) * Hour]
  BY DEF HoursOf
<1>4. \A i \in 1 .. N : hours[i] = 2 * (base + i - 1) /\ hours[i] \in Int
  <2> HIDE DEF N, base
  <2> QED
    BY <1>2, <1>3 DEF Hour
<1>5. DOMAIN hours = 1 .. N /\ (N \in Nat => Len(hours) = N)
  BY <1>3
<1> QED
  BY <1>2, <1>4, <1>5

\* The hours of the job's days, by their positions.
LEMMA HoursIs ==
  ASSUME job.days \in Days
  PROVE  LET hours == HoursOf(job.days)
             N == (job.days.last - job.days.first + 1) * DayHours
         IN  /\ N \in Int /\ DOMAIN hours = 1 .. N /\ (N \in Nat => Len(hours) = N)
             /\ \A i \in 1 .. N : /\ hours[i] \in HoursAsked /\ hours[i] # Unreadable
                                  /\ PositionOf(hours[i]) = i
             /\ \A h \in HoursAsked : /\ PositionOf(h) \in 1 .. N
                                      /\ h = hours[PositionOf(h)]
             /\ \A i, j \in 1 .. N : i < j => hours[i] < hours[j]
             /\ HoursAsked \subseteq Int
<1> DEFINE N == (job.days.last - job.days.first + 1) * DayHours
           base == job.days.first * DayHours
           hours == HoursOf(job.days)
<1>2. /\ N \in Int /\ base \in Int
      /\ job.days.first * Day = 2 * base /\ (job.days.last + 1) * Day = 2 * (base + N)
      /\ DOMAIN hours = 1 .. N /\ (N \in Nat => Len(hours) = N)
      /\ \A i \in 1 .. N : hours[i] = 2 * (base + i - 1)
  BY HoursOrdered
<1>4. HoursAsked = {h \in 2 * base .. 2 * (base + N) - 1 : h % 2 = 0}
  BY <1>2 DEF HoursAsked, Hour
<1>5. \A h : PositionOf(h) = (h - 2 * base) \div 2 + 1
  BY <1>2 DEF PositionOf, Hour
<1> HIDE DEF N, base, hours
<1>8. \A i \in 1 .. N : /\ hours[i] \in HoursAsked /\ hours[i] # Unreadable
                        /\ PositionOf(hours[i]) = i
  <2> TAKE i \in 1 .. N
  <2>1. i \in Int /\ 1 <= i /\ i <= N /\ hours[i] = 2 * (base + i - 1)
    BY <1>2
  <2>2. hours[i] \in HoursAsked
    BY <1>2, <1>4, <2>1
  <2>3. hours[i] # Unreadable
    <3>1. \A x \in Int : 2 * x # -1
      OBVIOUS
    <3>2. base + i - 1 \in Int
      BY <1>2, <2>1
    <3> QED
      BY <2>1, <3>1, <3>2 DEF Unreadable
  <2>4. PositionOf(hours[i]) = i
    <3>1. \A x \in Int : (2 * x) \div 2 = x
      OBVIOUS
    <3>2. hours[i] - 2 * base = 2 * (i - 1)
      BY <1>2, <2>1
    <3>3. PositionOf(hours[i]) = (2 * (i - 1)) \div 2 + 1
      BY <1>5, <3>2
    <3>4. i - 1 \in Int
      BY <2>1
    <3> QED
      BY <2>1, <3>1, <3>3, <3>4
  <2> QED
    BY <2>2, <2>3, <2>4
<1>9. \A h \in HoursAsked : PositionOf(h) \in 1 .. N /\ h = hours[PositionOf(h)]
  <2> TAKE h \in HoursAsked
  <2>1. h \in Int /\ 2 * base <= h /\ h <= 2 * (base + N) - 1 /\ h % 2 = 0
    BY <1>2, <1>4
  <2>2. PICK q \in Int : h = 2 * q
    BY <2>1
  <2>3. PositionOf(h) = q - base + 1
    BY <1>2, <1>5, <2>2
  <2>4. PositionOf(h) \in 1 .. N
    BY <1>2, <2>1, <2>2, <2>3
  <2> QED
    BY <1>2, <2>2, <2>3, <2>4
<1>10. \A i, j \in 1 .. N : i < j => hours[i] < hours[j]
  BY <1>2
<1>11. HoursAsked \subseteq Int
  BY <1>2, <1>4
<1> QED
  BY <1>2, <1>8, <1>9, <1>10, <1>11 DEF N, hours

\* The points of an answer: those of the hours whose time arrived, in order, each with
\* what its column holds at the position of its hour.
LEMMA ParseIs ==
  ASSUME job.days \in Days
  PROVE  LET response == Response(job.days, job.lost)
             points == Parse(response)
             column(m) == response.values[m]
         IN  /\ List(points)
             /\ \A k \in DOMAIN points : points[k].time \in HoursKnown
             /\ \A k, l \in DOMAIN points : k < l => points[k].time < points[l].time
             /\ HoursKnown = {points[k].time : k \in DOMAIN points}
             /\ \A m \in Metrics : \A k \in DOMAIN points :
                  points[k].values[m] =
                    IF PositionOf(points[k].time) <= Len(column(m))
                    THEN column(m)[PositionOf(points[k].time)] ELSE {}
<1> DEFINE response == Response(job.days, job.lost)
           points == Parse(response)
           hours == HoursOf(job.days)
           N == (job.days.last - job.days.first + 1) * DayHours
           Kept(i) == job.lost.kind # "empty" /\ ~(job.lost.kind = "time" /\ job.lost.at = i)
           R == {i \in DOMAIN response.time : response.time[i] # Unreadable}
           id == [i \in DOMAIN response.time |-> i]
           n == Cardinality(R)
<1>1. /\ N \in Int /\ DOMAIN hours = 1 .. N
      /\ \A i \in 1 .. N : /\ hours[i] \in HoursAsked /\ hours[i] # Unreadable
                           /\ PositionOf(hours[i]) = i
      /\ \A h \in HoursAsked : PositionOf(h) \in 1 .. N /\ h = hours[PositionOf(h)]
      /\ \A i, j \in 1 .. N : i < j => hours[i] < hours[j]
  BY HoursIs
<1>2. response.time = IF job.lost.kind = "empty" THEN <<>>
                      ELSE [i \in DOMAIN hours |->
                              IF job.lost.kind = "time" /\ job.lost.at = i
                              THEN Unreadable ELSE hours[i]]
  BY DEF Response
<1> HIDE DEF response, hours, N
<1>3. /\ R = {i \in 1 .. N : Kept(i)}
      /\ R \subseteq DOMAIN response.time
      /\ \A i \in R : response.time[i] = hours[i]
  <2>1. CASE job.lost.kind = "empty"
    BY <1>2, <2>1
  <2>2. CASE job.lost.kind # "empty"
    <3>1. /\ DOMAIN response.time = 1 .. N
          /\ \A i \in 1 .. N : response.time[i] =
               IF job.lost.kind = "time" /\ job.lost.at = i THEN Unreadable ELSE hours[i]
      BY <1>1, <1>2, <2>2
    <3> QED
      BY <1>1, <2>2, <3>1
  <2> QED
    BY <2>1, <2>2
<1>4. HoursKnown = {hours[i] : i \in R}
  <2>1. ASSUME NEW h \in HoursKnown PROVE h \in {hours[i] : i \in R}
    <3>1. PositionOf(h) \in R /\ h = hours[PositionOf(h)]
      BY <1>1, <1>3 DEF HoursKnown
    <3> QED
      BY <3>1
  <2>2. ASSUME NEW i \in R PROVE hours[i] \in HoursKnown
    BY <1>1, <1>3 DEF HoursKnown
  <2> QED
    BY <2>1, <2>2
<1>5. IsFiniteSet(R) /\ R \subseteq Int
  <2>1. IsFiniteSet(1 .. N)
    BY <1>1, FS_Interval
  <2>2. R \subseteq 1 .. N
    BY <1>3
  <2> QED
    BY <1>1, <2>1, <2>2, FS_Subset
<1>6. PICK f : Counts(f, R) /\ Picks(Chosen(id, R), f, id, R)
  <2> HIDE DEF R, id
  <2> QED
    BY <1>5, ChosenIs
<1>7. /\ n \in Nat
      /\ \A k \in 1 .. n : f[k] \in R
      /\ \A k, l \in 1 .. n : k < l => f[k] < f[l]
      /\ \A i \in R : \E k \in 1 .. n : f[k] = i
  BY <1>6 DEF Counts
<1>8. Positions(response) = [k \in 1 .. n |-> f[k]]
  <2>1. Positions(response) = [k \in 1 .. n |-> id[f[k]]]
    BY <1>6 DEF Picks, Positions
  <2> HIDE DEF n
  <2>2. \A k \in 1 .. n : id[f[k]] = f[k]
    BY <1>3, <1>7
  <2> HIDE DEF id
  <2> QED
    BY <2>1, <2>2
<1> HIDE DEF n, R
<1>9. /\ DOMAIN points = 1 .. n /\ Len(points) = n
      /\ \A k \in 1 .. n :
           /\ points[k].time = response.time[f[k]]
           /\ \A m \in Metrics : points[k].values[m] =
                IF f[k] <= Len(response.values[m]) THEN response.values[m][f[k]] ELSE {}
  <2> DEFINE at == Positions(response)
  <2>1. DOMAIN at = 1 .. n /\ \A k \in 1 .. n : at[k] = f[k]
    BY <1>8
  <2>2. points = [k \in DOMAIN at |->
                   [time |-> response.time[at[k]],
                    values |-> [m \in Metrics |->
                      IF at[k] <= Len(response.values[m]) THEN response.values[m][at[k]]
                                                          ELSE {}]]]
    BY DEF Parse
  <2> HIDE DEF at, points
  <2>3. DOMAIN points = 1 .. n /\ Len(points) = n
    BY <1>7, <2>1, <2>2
  <2>4. ASSUME NEW k \in 1 .. n
        PROVE  /\ points[k].time = response.time[f[k]]
               /\ \A m \in Metrics : points[k].values[m] =
                    IF f[k] <= Len(response.values[m]) THEN response.values[m][f[k]] ELSE {}
    <3> DEFINE i == at[k]
    <3>1. points[k] = [time |-> response.time[i],
                       values |-> [m \in Metrics |->
                         IF i <= Len(response.values[m]) THEN response.values[m][i] ELSE {}]]
      BY <2>1, <2>2
    <3>2. i = f[k]
      BY <2>1
    <3> HIDE DEF i
    <3> QED
      BY <3>1, <3>2
  <2> QED
    BY <2>3, <2>4
<1> HIDE DEF points
<1>10. \A k \in 1 .. n : /\ f[k] \in 1 .. N
                         /\ points[k].time = hours[f[k]]
                         /\ PositionOf(points[k].time) = f[k]
  BY <1>1, <1>3, <1>7, <1>9
<1>11. List(points)
  BY <1>7, <1>9 DEF List
<1>12. \A k \in DOMAIN points : points[k].time \in HoursKnown
  BY <1>4, <1>7, <1>9, <1>10
<1>13. \A k, l \in DOMAIN points : k < l => points[k].time < points[l].time
  BY <1>1, <1>7, <1>9, <1>10
<1>14. HoursKnown = {points[k].time : k \in DOMAIN points}
  <2>1. \A h \in HoursKnown : \E k \in DOMAIN points : h = points[k].time
    BY <1>4, <1>7, <1>9, <1>10
  <2> QED
    BY <1>12, <2>1
<1> QED
  BY <1>9, <1>10, <1>11, <1>12, <1>13, <1>14 DEF points, response

\* What may be wrong with an answer.
Flaws == [kind : {"clean", "empty", "time", "null", "short", "garbled"}, at : Int,
          metric : Metrics \union {"none"}]

\* What the column of a metric holds.
CellOf(lost, m, h, i) ==
  CASE lost = [kind |-> "null", at |-> i, metric |-> m] -> {}
    [] lost = [kind |-> "garbled", at |-> i, metric |-> m] -> Garbled
    [] OTHER -> {Weather[m][h \div Hour]}

CellTold(cell, lost, m, h, i) ==
  LET Flaw(kind) == lost.kind = kind /\ lost.at = i /\ lost.metric = m IN
  /\ Flaw("null") => cell = {}
  /\ Flaw("garbled") => cell = Garbled
  /\ ~Flaw("null") /\ ~Flaw("garbled") => cell = {Weather[m][h \div Hour]}

LEMMA CellIs ==
  ASSUME NEW lost \in Flaws, NEW m \in Metrics, NEW h, NEW i
  PROVE  CellTold(CellOf(lost, m, h, i), lost, m, h, i)
<1>1. \A kind : lost = [kind |-> kind, at |-> i, metric |-> m]
                  <=> lost.kind = kind /\ lost.at = i /\ lost.metric = m
  BY DEF Flaws
<1>2. "null" # "garbled"
  OBVIOUS
<1> QED
  BY <1>1, <1>2 DEF CellOf, CellTold

\* A column is as long as its list, and a list of less than nothing is empty.
LEMMA ColumnIs ==
  ASSUME job.days \in Days, job.lost \in Flaws, NEW m \in Metrics,
         NEW h \in HoursAsked
  PROVE  LET column == Response(job.days, job.lost).values[m]
             p == PositionOf(h)
             cut == job.lost.kind = "short" /\ job.lost.metric = m /\ job.lost.at <= p
         IN  /\ p <= Len(column) <=> ~cut
             /\ ~cut => p \in DOMAIN column /\ column[p] = CellOf(job.lost, m, h, p)
<1> DEFINE lost == job.lost
           hours == HoursOf(job.days)
           N == (job.days.last - job.days.first + 1) * DayHours
           p == PositionOf(h)
           Short == lost.kind = "short" /\ lost.metric = m
           L == IF Short THEN Min({lost.at - 1, Len(hours)}) ELSE Len(hours)
           column == Response(job.days, lost).values[m]
<1>1. /\ N \in Int /\ (N \in Nat => Len(hours) = N)
      /\ p \in 1 .. N /\ h = hours[p]
  BY HoursIs
<1>2. column = [i \in 1 .. L |-> CellOf(lost, m, hours[i], i)]
  BY DEF Response, CellOf
<1> HIDE DEF hours, N, p, column, L
<1>3. N \in Nat /\ Len(hours) = N /\ p \in Nat /\ 1 <= p /\ p <= N
  BY <1>1
<1>4. lost.at \in Int
  BY DEF Flaws
<1>5. L \in Int /\ (p <= L <=> ~(Short /\ lost.at <= p))
  <2>1. CASE ~Short
    BY <1>3, <2>1 DEF L
  <2>2. CASE Short
    <3> DEFINE S == {lost.at - 1, Len(hours)}
               least == Min(S)
    <3>1. IsFiniteSet(S) /\ S \subseteq Int /\ S # {}
      <4>1. IsFiniteSet({}) /\ IsFiniteSet({} \union {lost.at - 1})
        BY FS_EmptySet, FS_AddElement
      <4>2. IsFiniteSet(({} \union {lost.at - 1}) \union {Len(hours)})
        BY <4>1, FS_AddElement
      <4>3. ({} \union {lost.at - 1}) \union {Len(hours)} = S
        OBVIOUS
      <4>4. Len(hours) \in Int /\ lost.at - 1 \in Int
        BY <1>3, <1>4
      <4>5. S \subseteq Int /\ S # {}
        BY <4>4
      <4>6. IsFiniteSet(S)
        BY <4>2, <4>3
      <4> QED
        BY <4>5, <4>6
    <3> HIDE DEF S
    <3>2. least \in S /\ \A x \in S : least <= x
      BY <3>1, MinMax
    <3> HIDE DEF least
    <3>3. /\ least = lost.at - 1 \/ least = N
          /\ least <= lost.at - 1 /\ least <= N
      BY <1>3, <3>2 DEF S
    <3>4. L = least
      BY <2>2 DEF L, least, S
    <3> QED
      BY <1>3, <1>4, <2>2, <3>3, <3>4
  <2> QED
    BY <2>1, <2>2
<1>6. p <= Len(column) <=> p <= L
  <2>1. CASE L \in Nat
    BY <1>2, <2>1
  <2>2. CASE L \notin Nat
    <3>1. 1 .. L = {}
      BY <1>5, <2>2
    <3>2. column = <<>>
      BY <1>2, <3>1
    <3>3. Len(column) = 0
      BY <3>2
    <3> QED
      BY <1>3, <1>5, <2>2, <3>3
  <2> QED
    BY <2>1, <2>2
<1>7. p <= L => p \in DOMAIN column /\ column[p] = CellOf(lost, m, h, p)
  BY <1>1, <1>2, <1>3, <1>5
<1> QED
  BY <1>5, <1>6, <1>7 DEF p, column

\* The points of an answer without garbled values list the hours known and, of a
\* metric, the numbers that were not lost.
LEMMA ParseListing ==
  ASSUME job.days \in Days, job.lost \in Flaws, NEW m \in Metrics,
         ~ParseRaises(Response(job.days, job.lost)),
         \A h \in HoursAsked : Weather[m][h \div Hour] \in Int
  PROVE  Listing(Parse(Response(job.days, job.lost)), HoursKnown,
                 {h \in HoursKnown : ~NumberLost(m, h)}, m,
                 [h \in HoursKnown |-> Weather[m][h \div Hour]])
<1> DEFINE response == Response(job.days, job.lost)
           points == Parse(response)
           column == response.values[m]
           v == [h \in HoursKnown |-> Weather[m][h \div Hour]]
           H == {h \in HoursKnown : ~NumberLost(m, h)}
<1>1. /\ List(points)
      /\ \A k \in DOMAIN points : points[k].time \in HoursKnown
      /\ \A k, l \in DOMAIN points : k < l => points[k].time < points[l].time
      /\ HoursKnown = {points[k].time : k \in DOMAIN points}
      /\ \A k \in DOMAIN points :
           points[k].values[m] =
             IF PositionOf(points[k].time) <= Len(column)
             THEN column[PositionOf(points[k].time)] ELSE {}
  BY ParseIs
<1>2. HoursKnown \subseteq HoursAsked /\ HoursAsked \subseteq Int
  BY HoursIs DEF HoursKnown
<1> HIDE DEF points
<1>3. ASSUME NEW h \in HoursKnown
      PROVE  (IF PositionOf(h) <= Len(column) THEN column[PositionOf(h)] ELSE {})
               = IF h \in H THEN {v[h]} ELSE {}
  <2> DEFINE p == PositionOf(h)
             lost == job.lost
             cut == lost.kind = "short" /\ lost.metric = m /\ lost.at <= p
             cell == CellOf(lost, m, h, p)
             gone == lost.kind = "null" /\ lost.at = p /\ lost.metric = m
             bad == lost.kind = "garbled" /\ lost.at = p /\ lost.metric = m
  <2>1. /\ p <= Len(column) <=> ~cut
        /\ ~cut => p \in DOMAIN column /\ column[p] = cell
    BY <1>2, ColumnIs
  <2>2. /\ gone => cell = {}
        /\ bad => cell = Garbled
        /\ ~gone /\ ~bad => cell = {Weather[m][h \div Hour]}
    <3>1. CellTold(cell, lost, m, h, p)
      BY CellIs
    <3> HIDE DEF cell
    <3> QED
      BY <3>1 DEF CellTold
  <2>3. ~bad
    <3> SUFFICES ASSUME bad PROVE FALSE
      OBVIOUS
    <3>1. p \in DOMAIN column /\ column[p] = Garbled
      BY <2>1, <2>2
    <3>2. /\ p \in DOMAIN HoursOf(job.days) /\ HoursOf(job.days)[p] # Unreadable
      BY <1>2, HoursIs
    <3>3. p \in DOMAIN response.time /\ response.time[p] # Unreadable
      BY <3>2 DEF Response
    <3> QED
      BY <3>1, <3>3 DEF ParseRaises
  <2>4. h \in H <=> ~cut /\ ~gone
    BY DEF NumberLost
  <2>5. v[h] = Weather[m][h \div Hour]
    OBVIOUS
  <2> HIDE DEF p, column, cell, cut, gone, bad, v, H
  <2> QED
    BY <2>1, <2>2, <2>3, <2>4, <2>5 DEF p
<1>4. \A k \in DOMAIN points : points[k].values[m] =
        IF points[k].time \in H THEN {v[points[k].time]} ELSE {}
  BY <1>1, <1>3
<1>5. \A h \in H : v[h] \in Int
  BY <1>2
<1>6. \A k \in DOMAIN points : points[k].time \in Int
  BY <1>1, <1>2
<1>7. H \subseteq HoursKnown
  OBVIOUS
<1> HIDE DEF v, H
<1>8. Listing(points, HoursKnown, H, m, v)
  BY <1>1, <1>4, <1>5, <1>6, <1>7, Zenon DEF Listing
<1> QED
  BY <1>8 DEF points, v, H

-----------------------------------------------------------------------------
(* The hours a rule is judged by, and the weather at them.                 *)

LEMMA DayIs ==
  /\ Day \in Nat \ {0} /\ Hour = 2 /\ DayHours \in Nat \ {0} /\ Day = DayHours * 2
  /\ \A t \in Int : DayOf(t) \in Int /\ (0 <= t => 0 <= DayOf(t))
  /\ \A t, s \in Int : t <= s => DayOf(t) <= DayOf(s)
  /\ \A t, n \in Int : DayOf(t + n * Day) = DayOf(t) + n
<1>1. Day \in Nat \ {0} /\ Hour = 2 /\ DayHours \in Nat \ {0} /\ Day = DayHours * 2
  BY ExpressionAssumption DEF Day, Hour
<1> HIDE DEF Day
<1>2. \A t \in Int : DayOf(t) \in Int
  BY <1>1, Quotient DEF DayOf
<1>3. \A t, s \in Int : t <= s => DayOf(t) <= DayOf(s)
  BY <1>1, QuotientGrows DEF DayOf
<1>4. DayOf(0) = 0
  BY <1>1, Quotient DEF DayOf
<1>5. \A t \in Int : 0 <= t => 0 <= DayOf(t)
  BY <1>3, <1>4
<1>6. \A t, n \in Int : DayOf(t + n * Day) = DayOf(t) + n
  BY <1>1, QuotientShifts DEF DayOf
<1> QED
  BY <1>1, <1>2, <1>3, <1>5, <1>6

LEMMA WholeDays ==
  ASSUME NEW d \in Int
  PROVE  d * Day \in Int /\ (d + 1) * Day \in Int
<1>1. \A x, y \in Int : x * y \in Int
  OBVIOUS
<1>2. d + 1 \in Int /\ Day \in Int
  BY DayIs
<1> QED
  BY <1>1, <1>2

\* The latest a job can have been asked for.
Latest == Max(Starts) + MaxJobs * MaxDelay

LEMMA LatestIs ==
  /\ Min(Starts) \in Nat /\ Hour <= Min(Starts)
  /\ Max(Starts) \in Nat /\ Latest \in Nat
  /\ Min(Starts) <= Max(Starts) /\ Max(Starts) <= Latest
  /\ \A t \in Starts : Min(Starts) <= t /\ t <= Max(Starts)
  /\ LastHour = (DayOf(Latest) + Horizon + 1) * DayHours - 1
<1>1. /\ Starts # {} /\ IsFiniteSet(Starts) /\ Starts \subseteq Int /\ Starts \subseteq Nat
      /\ \A t \in Starts : Hour <= t
  BY WeatherAssumption, RequestAssumption
<1>2. /\ Min(Starts) \in Starts /\ Max(Starts) \in Starts
      /\ \A t \in Starts : Min(Starts) <= t /\ t <= Max(Starts)
  BY <1>1, MinMax
<1>3. MaxJobs * MaxDelay \in Nat
  BY RequestAssumption
<1>4. LastHour = (DayOf(Latest) + Horizon + 1) * DayHours - 1
  BY DEF LastHour, Latest
<1> DEFINE past == MaxJobs * MaxDelay
<1>5. past \in Nat /\ Latest = Max(Starts) + past
  BY <1>3 DEF Latest
<1> HIDE DEF past
<1>6. Min(Starts) \in Nat /\ Max(Starts) \in Nat /\ Hour <= Min(Starts)
      /\ Min(Starts) <= Max(Starts)
  BY <1>1, <1>2
<1>7. Latest \in Nat /\ Max(Starts) <= Latest
  BY <1>5, <1>6
<1> QED
  BY <1>2, <1>4, <1>6, <1>7

\* Hours of days up to the last one have weather.
LEMMA HoursWeathered ==
  ASSUME NEW days \in Days, 0 <= days.first, days.last <= DayOf(Latest) + Horizon,
         NEW h \in Int, days.first * Day <= h, h < (days.last + 1) * Day, NEW m \in Metrics
  PROVE  Weather[m][h \div Hour] \in Int /\ OldWeather[m][h \div Hour] \in Int
<1> DEFINE k == h \div Hour
           D == DayOf(Latest) + Horizon
<1>1. Hour = 2 /\ DayHours \in Nat \ {0} /\ D \in Int
  BY DayIs, LatestIs, RequestAssumption
<1>2. /\ days.first \in Int /\ days.last \in Int /\ days.last <= D
      /\ LastHour = (D + 1) * DayHours - 1
  BY LatestIs DEF Days
<1> HIDE DEF D
<1>3. /\ days.first * DayHours \in Int /\ (days.last + 1) * DayHours \in Int
      /\ days.first * Day = 2 * (days.first * DayHours)
      /\ (days.last + 1) * Day = 2 * ((days.last + 1) * DayHours)
  <2> DEFINE b == (days.last - days.first + 1) * DayHours
  <2>1. /\ b \in Int /\ days.first * DayHours \in Int
        /\ days.first * DayHours + b = (days.last + 1) * DayHours
        /\ days.first * Day = 2 * (days.first * DayHours)
        /\ (days.last + 1) * Day = 2 * (days.first * DayHours + b)
    BY HoursOrdered
  <2> HIDE DEF b
  <2> QED
    BY <2>1
<1>4. 0 <= days.first * DayHours
  <2>1. 0 * DayHours <= days.first * DayHours
    BY <1>1, <1>2, ProductGrows
  <2>2. 0 * DayHours = 0
    BY <1>1
  <2> QED
    BY <2>1, <2>2
<1>5. (days.last + 1) * DayHours <= (D + 1) * DayHours
  BY <1>1, <1>2, ProductGrows
<1>6. (D + 1) * DayHours \in Int
  BY <1>1
<1>7. k \in Int /\ 2 * k <= h /\ h < 2 * k + 2
  BY <1>1, Quotient
<1> HIDE DEF k
<1>8. k \in 0 .. LastHour
  BY <1>2, <1>3, <1>4, <1>5, <1>6, <1>7
<1> QED
  BY <1>8, WeatherAssumption DEF k

\* What is stored of an old forecast lists its hours and its numbers.
LEMMA StoredListing ==
  ASSUME NEW m \in Metrics
  PROVE  \E S, u : /\ Listing(StoredPoints, S, S, m, u)
                   /\ \A h \in S : u[h] = OldWeather[m][h \div Hour]
<1> DEFINE days == [first |-> DayOf(Min(Starts)), last |-> DayOf(Max(Starts)) + Horizon]
           hours == HoursOf(days)
           N == (days.last - days.first + 1) * DayHours
           base == days.first * DayHours
           S == {hours[i] : i \in 1 .. N}
           u == [h \in S |-> OldWeather[m][h \div Hour]]
<1>1. /\ days \in Days /\ 0 <= days.first /\ days.first <= days.last
      /\ days.last <= DayOf(Latest) + Horizon
  <2> DEFINE a == DayOf(Min(Starts))
             b == DayOf(Max(Starts))
  <2>1. /\ Min(Starts) \in Int /\ 0 <= Min(Starts) /\ Max(Starts) \in Int /\ Latest \in Int
        /\ Min(Starts) <= Max(Starts) /\ Max(Starts) <= Latest
    BY LatestIs
  <2>2. a \in Int /\ b \in Int /\ 0 <= a /\ a <= b /\ b <= DayOf(Latest)
        /\ DayOf(Latest) \in Int
    BY <2>1, DayIs
  <2>3. days.first = a /\ days.last = b + Horizon /\ Horizon \in Nat
    BY RequestAssumption
  <2>4. days.first \in Int /\ days.last \in Int => days \in Days
    BY DEF Days
  <2> HIDE DEF a, b, days
  <2> QED
    BY <2>2, <2>3, <2>4
<1>2. StoredPoints = [i \in DOMAIN hours |-> StoredPoint(hours[i])]
  BY DEF StoredPoints
<1> HIDE DEF days
<1>3. /\ N \in Int /\ base \in Int
      /\ days.first * Day = 2 * base /\ (days.last + 1) * Day = 2 * (base + N)
      /\ DOMAIN hours = 1 .. N
      /\ \A i \in 1 .. N : hours[i] = 2 * (base + i - 1) /\ hours[i] \in Int
  BY <1>1, HoursOrdered
<1>4. N \in Nat
  <2> DEFINE c == days.last - days.first + 1
  <2>1. c \in Int /\ 0 <= c
    BY <1>1 DEF Days
  <2> HIDE DEF c
  <2>2. 0 * DayHours <= c * DayHours /\ 0 * DayHours = 0
    BY <2>1, DayIs, ProductGrows
  <2>3. N = c * DayHours
    BY DEF c
  <2> QED
    BY <1>3, <2>2, <2>3
<1> HIDE DEF N, base, hours
<1>5. \A i \in 1 .. N : OldWeather[m][hours[i] \div Hour] \in Int
  <2> TAKE i \in 1 .. N
  <2>1. hours[i] \in Int /\ days.first * Day <= hours[i] /\ hours[i] < (days.last + 1) * Day
    BY <1>3
  <2> QED
    BY <1>1, <2>1, HoursWeathered
<1>6. /\ DOMAIN StoredPoints = 1 .. N /\ Len(StoredPoints) = N
      /\ \A i \in 1 .. N : /\ StoredPoints[i].time = hours[i]
                           /\ StoredPoints[i].values[m] = {OldWeather[m][hours[i] \div Hour]}
  BY <1>2, <1>3, <1>4 DEF StoredPoint
<1>7. \A h \in S : u[h] = OldWeather[m][h \div Hour]
  OBVIOUS
<1>8. \A i \in 1 .. N : hours[i] \in S /\ u[hours[i]] = OldWeather[m][hours[i] \div Hour]
  OBVIOUS
<1>9. \A h \in S : u[h] \in Int
  BY <1>5, <1>7
<1>10. S = {StoredPoints[i].time : i \in DOMAIN StoredPoints}
  BY <1>6
<1>11. List(StoredPoints)
  BY <1>4, <1>6 DEF List
<1>12. \A i, j \in DOMAIN StoredPoints : i < j => StoredPoints[i].time < StoredPoints[j].time
  BY <1>3, <1>6
<1> HIDE DEF S, u
<1>13. ASSUME NEW i \in DOMAIN StoredPoints
       PROVE  StoredPoints[i].values[m] =
                IF StoredPoints[i].time \in S THEN {u[StoredPoints[i].time]} ELSE {}
  <2>1. /\ i \in 1 .. N /\ StoredPoints[i].time = hours[i]
        /\ StoredPoints[i].values[m] = {OldWeather[m][hours[i] \div Hour]}
    BY <1>6
  <2>2. hours[i] \in S /\ u[hours[i]] = OldWeather[m][hours[i] \div Hour]
    BY <1>8, <2>1
  <2> QED
    BY <2>1, <2>2
<1>14. Listing(StoredPoints, S, S, m, u)
  BY <1>3, <1>6, <1>9, <1>10, <1>11, <1>12, <1>13 DEF Listing
<1> QED
  BY <1>7, <1>14

\* A sum, and with it a meaning, depends on the numbers of its hours alone.
LEMMA SumAgrees ==
  ASSUME NEW H, IsFiniteSet(H), NEW u, NEW w, \A h \in H : u[h] \in Int /\ w[h] = u[h]
  PROVE  SumFunctionOnSet(u, H) = SumFunctionOnSet(w, H)
<1>1. PICK g : IsSum(g, u, H) /\ SumFunctionOnSet(u, H) = g[H]
  BY SumOfSet
<1>2. IsSum(g, w, H)
  BY <1>1 DEF IsSum
<1> QED
  BY <1>1, <1>2, SetSum

LEMMA MeansAgrees ==
  ASSUME NEW old, IsFiniteSet(old), NEW u, NEW w, \A h \in old : u[h] \in Int /\ w[h] = u[h],
         NEW e, NEW R, NEW T, NEW v
  PROVE  Means(e, R, T, v, old, u) <=> Means(e, R, T, v, old, w)
<1>1. MeanOf(old, u) = MeanOf(old, w)
  BY SumAgrees DEF MeanOf
<1>2. CASE e.fn = "forecast_delta"
  BY <1>1, <1>2 DEF Means
<1>3. CASE e.fn # "forecast_delta"
  BY <1>3 DEF Means
<1> QED
  BY <1>2, <1>3

-----------------------------------------------------------------------------
(* The clock.                                                              *)

\* How late it can be after k jobs.
LatestAfter(k) == Max(Starts) + k * MaxDelay

\* The clock goes on with the jobs, and only for a rule about to be judged.
Timely ==
  /\ Min(Starts) <= job.asked /\ now <= LatestAfter(jobs)
  /\ ~Idle => jobs # 0 /\ job.asked <= LatestAfter(jobs - 1)
  /\ ~Idle /\ job.pc # "judge" => now <= LatestAfter(jobs - 1)

LEMMA LaterAfter ==
  /\ \A k \in Nat : /\ LatestAfter(k) \in Nat
                    /\ LatestAfter(k + 1) = LatestAfter(k) + MaxDelay
                    /\ k <= MaxJobs => LatestAfter(k) <= Latest
  /\ LatestAfter(0) = Max(Starts)
<1>1. Max(Starts) \in Nat /\ MaxDelay \in Nat /\ MaxJobs \in Nat
  BY LatestIs, RequestAssumption
<1>2. \A k \in Nat : k * MaxDelay \in Nat /\ (k + 1) * MaxDelay = k * MaxDelay + MaxDelay
  BY <1>1
<1>3. 0 * MaxDelay = 0
  BY <1>1
<1>4. ASSUME NEW k \in Nat, k <= MaxJobs PROVE k * MaxDelay <= MaxJobs * MaxDelay
  BY <1>1, <1>4, ProductGrows
<1>5. MaxJobs * MaxDelay \in Nat
  BY <1>1
<1> QED
  BY <1>1, <1>2, <1>3, <1>4, <1>5 DEF LatestAfter, Latest

\* A step that begins no job and lets no time pass.
Stays ==
  /\ UNCHANGED <<now, jobs>>
  /\ job'.asked \in {job.asked, now}
  /\ Idle \/ job.pc = "judge" => Idle' /\ job'.asked = job.asked

LEMMA StaysTimely ==
  ASSUME IInv, Timely, Stays
  PROVE  Timely'
<1>1. now \in Nat /\ job.asked \in Nat /\ job.asked <= now /\ jobs \in Nat
  BY DEF IInv, Clock, Counters
<1>2. job'.asked \in Nat /\ job.asked <= job'.asked
  BY <1>1 DEF Stays
<1>3. Min(Starts) \in Nat
  BY LatestIs
<1>4. ~Idle => job'.asked <= LatestAfter(jobs - 1)
  BY DEF Timely, Stays
<1> QED
  BY <1>1, <1>2, <1>3, <1>4 DEF Timely, Stays, Idle

LEMMA TimelyNext ==
  ASSUME IInv, Timely, [Next]_vars
  PROVE  Timely'
<1>1. /\ now \in Nat /\ job.asked \in Nat /\ job.asked <= now /\ jobs \in Nat
      /\ Min(Starts) \in Nat /\ Shaped(job)
  BY LatestIs DEF IInv, Clock, Counters
<1>2. ASSUME Fresh PROVE Timely'
  <2>1. LatestAfter(jobs) \in Nat /\ LatestAfter(jobs + 1) = LatestAfter(jobs) + MaxDelay
    BY <1>1, LaterAfter
  <2>2. jobs' # 0 /\ jobs' - 1 = jobs /\ MaxDelay \in Nat
    BY <1>1, <1>2, RequestAssumption DEF Fresh
  <2> QED
    BY <1>1, <1>2, <2>1, <2>2 DEF Timely, Fresh
<1>3. ASSUME Harmless PROVE Timely'
  BY <1>3, StaysTimely DEF Harmless, Moves, Stays
<1>4. CASE Begin
  <2>1. ASSUME NEW query \in SUBSET Words, NEW options \in SUBSET Options,
               StartPlace(query, options)
        PROVE  Timely'
    BY <1>1, <1>2, <2>1, StartPlaceFresh
  <2>2. CASE \/ \E e \in Expressions : StartRule(e)
             \/ \E first \in AskedDays, last \in AskedDays : AskForecast(first, last)
             \/ \E range \in AskedRanges, usable \in BOOLEAN : AskChart(range, usable)
             \/ \E place \in Places : StartObservations(place)
             \/ \E provider \in {"meteo", "hydro"}, place \in Places :
                  StartWarnings(provider, place)
    BY <1>2, <2>2, BeginFresh
  <2> QED
    BY <1>4, <2>1, <2>2 DEF Begin
<1>5. CASE Ongoing
  <2>1. CASE Locate \/ Backoff \/ Judge \/ FailObservations
    BY <1>1, <1>3, <2>1, LocateHarmless, BackoffHarmless, JudgeHarmless, OfficialHarmless
  <2>2. ASSUME NEW failure \in Failures, Fail(failure) PROVE Timely'
    <3>1. Stays
      BY <1>1, <2>2, FailMoves DEF Moves, Stays, Idle
    <3> QED
      BY <3>1, StaysTimely
  <2>3. ASSUME NEW lost \in Lost,
               Garble(lost) \/ FetchRule(lost) \/ FetchForecast(lost) \/ FetchChart(lost)
        PROVE  Timely'
    BY <1>1, <1>3, <2>3, GarbleHarmless, FetchHarmless, FetchRuleHarmless
  <2>4. ASSUME NEW reply, Observe(reply) \/ FetchWarnings(reply) PROVE Timely'
    BY <1>1, <1>3, <2>4, OfficialHarmless
  <2>5. ASSUME NEW endpoint \in {"search", "autocomplete"},
               NEW reply \in Replies(Candidates, MaxItems), Reply(endpoint, reply)
        PROVE  Timely'
    <3>1. PICK k \in Nat : reply \in [1 .. k -> Candidate]
      BY RequestAssumption DEF Replies
    <3>2. job.kind = "place" /\ job.pc = endpoint /\ UNCHANGED <<now, jobs>>
      BY <2>5 DEF Reply, Is
    <3>3. job'.asked = job.asked
      BY <2>5, <3>1, <3>2, ReplyMoves DEF IInv
    <3>4. Stays
      BY <3>2, <3>3 DEF Stays, Idle
    <3> QED
      BY <3>4, StaysTimely
  <2>6. CASE Unreachable \/ NoGuess \/ \E query \in Queries : Guess(query)
    <3>1. job.kind = "place" /\ job.pc # "judge" /\ UNCHANGED <<now, jobs>>
      BY <2>6 DEF Unreachable, NoGuess, Guess, Is
    <3>2. job'.asked = job.asked /\ ~Idle
      BY <2>6, <3>1, SearchMoves DEF IInv
    <3>3. Stays
      BY <3>1, <3>2 DEF Stays
    <3> QED
      BY <3>3, StaysTimely
  <2> QED
    BY <1>5, <2>1, <2>2, <2>3, <2>4, <2>5, <2>6 DEF Ongoing, Queries
<1>6. CASE Disable
  BY <1>6 DEF Disable, Timely, Idle
<1>7. CASE Tick
  <2>1. /\ ~Idle /\ job.pc = "judge" /\ now < job.asked + MaxDelay
        /\ now' = now + 1 /\ UNCHANGED <<job, jobs>>
    BY <1>7 DEF Tick, Is, Idle
  <2>2. jobs # 0 /\ job.asked <= LatestAfter(jobs - 1)
    BY <2>1 DEF Timely
  <2>3. jobs - 1 \in Nat /\ (jobs - 1) + 1 = jobs
    BY <1>1, <2>2
  <2>4. LatestAfter(jobs - 1) \in Nat /\ LatestAfter(jobs) = LatestAfter(jobs - 1) + MaxDelay
    BY <2>3, LaterAfter
  <2>5. now' <= LatestAfter(jobs)
    BY <1>1, <2>1, <2>2, <2>4, RequestAssumption
  <2> QED
    BY <2>1, <2>2, <2>5 DEF Timely, Idle
<1>8. CASE SaveObservations \/ SaveWarnings
  BY <1>1, <1>3, <1>8, OfficialHarmless
<1>9. CASE UNCHANGED vars
  BY <1>9 DEF vars, Timely, Idle
<1> QED
  BY <1>4, <1>5, <1>6, <1>7, <1>8, <1>9 DEF Next

LEMMA TimelyCorrect == Spec => []Timely
<1>1. ASSUME Init PROVE Timely
  <2>1. job.asked = now /\ job.pc = "done" /\ jobs = 0 /\ now \in Starts
    BY <1>1, JobShape DEF Init
  <2> QED
    BY <2>1, LatestIs, LaterAfter DEF Timely, Idle
<1> QED
  BY <1>1, InvCorrect, TimelyNext, PTL DEF Spec

-----------------------------------------------------------------------------
(* Where a verdict comes from.                                             *)

Verdicts == {"true", "false", "error", "no_forecast_data"}
Over(j) == j.pc = "done" /\ j.outcome \in Verdicts

AskedWell(j) == j.days = RequestDays(j.asked - Hour, j.asked + Horizon * Day)

AnsweredWell(j) ==
  /\ j.lost \in Lost
  /\ ~ParseRaises(Response(j.days, j.lost))
  /\ j.points = Parse(Response(j.days, j.lost))

JudgedWell(j) ==
  /\ j.at \in Nat
  /\ \E s \in {<<>>, StoredPoints} :
       j.previous = PointsInRange(s, [start |-> j.at - Hour, end |-> j.at + 7 * Day])
  /\ j.outcome = IF j.points = <<>> THEN "no_forecast_data"
                 ELSE Evaluate(j.want, j.points, j.previous, j.at)

\* A rule's job: what is asked for, what came of it, and what was judged.
RuleWell(j) ==
  j.kind = "rule" =>
    /\ j.want \in Expressions /\ Accepts(j.want)
    /\ j.pc \in {"send", "backoff", "judge"} \/ Over(j) => AskedWell(j)
    /\ j.pc = "judge" \/ Over(j) => AnsweredWell(j)
    /\ Over(j) => JudgedWell(j)

\* What the steps that are no beginning leave a job of another kind.
LEMMA KindStays ==
  ASSUME IInv, Ongoing \/ SaveObservations \/ SaveWarnings
  PROVE  job'.kind = job.kind
<1>1. Shaped(job)
  BY DEF IInv
<1>2. CASE Locate \/ Backoff \/ Judge \/ FailObservations \/ SaveObservations \/ SaveWarnings
  BY <1>1, <1>2, LocateHarmless, BackoffHarmless, JudgeHarmless, OfficialHarmless
     DEF Harmless, Moves
<1>3. ASSUME NEW failure \in Failures, Fail(failure) PROVE job'.kind = job.kind
  BY <1>1, <1>3, FailMoves DEF Moves
<1>4. ASSUME NEW lost \in Lost,
             Garble(lost) \/ FetchRule(lost) \/ FetchForecast(lost) \/ FetchChart(lost)
      PROVE  job'.kind = job.kind
  BY <1>1, <1>4, GarbleHarmless, FetchHarmless, FetchRuleHarmless DEF Harmless, Moves
<1>5. ASSUME NEW reply, Observe(reply) \/ FetchWarnings(reply) PROVE job'.kind = job.kind
  BY <1>1, <1>5, OfficialHarmless DEF Harmless, Moves
<1>6. ASSUME NEW endpoint \in {"search", "autocomplete"},
             NEW reply \in Replies(Candidates, MaxItems), Reply(endpoint, reply)
      PROVE  job'.kind = job.kind
  <2>1. PICK k \in Nat : reply \in [1 .. k -> Candidate]
    BY RequestAssumption DEF Replies
  <2>2. job.kind = "place"
    BY <1>6 DEF Reply, Is
  <2> QED
    BY <1>6, <2>1, <2>2, ReplyMoves DEF IInv
<1>7. CASE Unreachable \/ NoGuess \/ \E query \in Queries : Guess(query)
  <2>1. job.kind = "place"
    BY <1>7 DEF Unreachable, NoGuess, Guess, Is
  <2> QED
    BY <1>7, <2>1, SearchMoves DEF IInv
<1> QED
  BY <1>2, <1>3, <1>4, <1>5, <1>6, <1>7 DEF Ongoing, Queries

\* The beginnings, by the kind of the job.
LEMMA BeginKind ==
  ASSUME IInv, Begin
  PROVE  /\ job'.kind = "rule" => \E e \in Expressions : StartRule(e)
         /\ job'.kind = "chart" =>
              \E range \in AskedRanges, usable \in BOOLEAN : AskChart(range, usable)
         /\ job'.kind = "observations" => \E place \in Places : StartObservations(place)
         /\ job'.kind = "warnings" =>
              \E provider \in {"meteo", "hydro"}, place \in Places :
                StartWarnings(provider, place)
<1>1. /\ {"rule", "observations", "warnings"} \subseteq Kinds
      /\ "locate" \in PcsOf("rule") \ {"done"}
      /\ \A kind \in {"observations", "warnings"} : "send" \in PcsOf(kind) \ {"done"}
  BY DEF Kinds, PcsOf, Retried, Forecasts
<1>2. ASSUME NEW e \in Expressions, StartRule(e) PROVE job'.kind = "rule"
  BY <1>1, <1>2, StartFresh DEF StartRule
<1>3. ASSUME NEW first \in AskedDays, NEW last \in AskedDays, AskForecast(first, last)
      PROVE  job'.kind = "forecast"
  BY <1>3, AskFresh, RefuseFresh DEF AskForecast
<1>4. ASSUME NEW range \in AskedRanges, NEW usable \in BOOLEAN, AskChart(range, usable)
      PROVE  job'.kind = "chart"
  BY <1>4, AskFresh, RefuseFresh DEF AskChart
<1>5. ASSUME NEW place \in Places, StartObservations(place) PROVE job'.kind = "observations"
  BY <1>1, <1>5, StartFresh DEF StartObservations
<1>6. ASSUME NEW provider, NEW place, StartWarnings(provider, place)
      PROVE  job'.kind = "warnings"
  BY <1>1, <1>6, StartFresh DEF StartWarnings
<1>7. ASSUME NEW query \in SUBSET Words, NEW options \in SUBSET Options,
             StartPlace(query, options)
      PROVE  job'.kind = "place"
  BY <1>7, StartPlaceFresh
<1> QED
  BY <1>2, <1>3, <1>4, <1>5, <1>6, <1>7 DEF Begin

\* A job that ends without a verdict.
LEMMA NoVerdict ==
  ASSUME RuleWell(job), job.kind = "rule", NEW j, DOMAIN j = Fields, j.kind = "rule",
         j.want = job.want, EndWith(j, "refresh_failed")
  PROVE  RuleWell(job')
BY EndShape DEF RuleWell, Over, Verdicts

\* A job that goes on with what was asked for.
LEMMA GoesOn ==
  ASSUME RuleWell(job), job.kind = "rule", job.pc \in {"send", "backoff"},
         job'.kind = "rule", job'.pc \in {"send", "backoff"},
         job'.want = job.want, job'.days = job.days, job'.asked = job.asked
  PROVE  RuleWell(job')
BY DEF RuleWell, Over, AskedWell

LEMMA RuleNext ==
  ASSUME IInv, RuleWell(job), [Next]_vars
  PROVE  RuleWell(job')
<1>1. DOMAIN job = Fields /\ Shaped(job)
  BY DEF IInv, Shaped
<1> SUFFICES ASSUME job'.kind = "rule" PROVE RuleWell(job')
  BY DEF RuleWell
<1>2. CASE Begin
  <2>1. PICK e \in Expressions : StartRule(e)
    BY <1>2, BeginKind
  <2>2. job'.want = e /\ job'.pc = "locate" /\ Accepts(e)
    BY <2>1, JobShape DEF StartRule, Start
  <2> QED
    BY <2>2 DEF RuleWell, Over
<1>3. CASE Ongoing \/ SaveObservations \/ SaveWarnings
  <2>1. job.kind = "rule"
    BY <1>3, KindStays
  <2>2. CASE Locate
    <3>1. ASSUME ~enabled PROVE RuleWell(job')
      BY <1>1, <2>1, <2>2, <3>1, NoVerdict DEF Locate, End
    <3>2. ASSUME enabled PROVE RuleWell(job')
      <4>1. job' = [job EXCEPT !.pc = "send", !.asked = now,
                               !.days = RequestDays(now - Hour, now + Horizon * Day)]
        BY <2>2, <3>2 DEF Locate
      <4>2. /\ job'.pc = "send" /\ job'.want = job.want /\ job'.asked = now
            /\ job'.days = RequestDays(now - Hour, now + Horizon * Day)
        BY <1>1, <4>1 DEF Fields
      <4> QED
        BY <2>1, <4>2 DEF RuleWell, Over, AskedWell
    <3> QED
      BY <3>1, <3>2
  <2>3. ASSUME NEW failure \in Failures, Fail(failure) PROVE RuleWell(job')
    <3> DEFINE failed == [job EXCEPT !.failures = Append(@, failure)]
    <3>1. /\ DOMAIN failed = Fields /\ failed.kind = "rule" /\ failed.want = job.want
          /\ failed.days = job.days /\ failed.asked = job.asked /\ job.pc = "send"
      BY <1>1, <2>1, <2>3 DEF Fields, Fail, Is
    <3> HIDE DEF failed
    <3>2. CASE job' = [failed EXCEPT !.pc = "backoff"]
      <4>1. /\ job'.pc = "backoff" /\ job'.want = job.want /\ job'.days = job.days
            /\ job'.asked = job.asked
        BY <3>1, <3>2 DEF Fields
      <4> QED
        BY <2>1, <3>1, <4>1, GoesOn
    <3>3. CASE EndWith(failed, Gone(job.kind))
      BY <2>1, <3>1, <3>3, NoVerdict DEF Gone
    <3> QED
      BY <2>3, <3>2, <3>3 DEF Fail, failed
  <2>4. CASE Backoff
    <3>1. job.pc = "backoff" /\ job' = [job EXCEPT !.pc = "send", !.failures = KeepFailures(@)]
      BY <2>4 DEF Backoff, Is
    <3>2. /\ job'.pc = "send" /\ job'.want = job.want /\ job'.days = job.days
          /\ job'.asked = job.asked
      BY <1>1, <3>1 DEF Fields
    <3> QED
      BY <2>1, <3>1, <3>2, GoesOn
  <2>5. ASSUME NEW lost \in Lost, Garble(lost) PROVE RuleWell(job')
    <3> DEFINE j == [job EXCEPT !.lost = lost]
    <3>1. DOMAIN j = Fields /\ j.kind = "rule" /\ j.want = job.want
      BY <1>1, <2>1 DEF Fields
    <3>2. EndWith(j, "refresh_failed")
      BY <2>1, <2>5 DEF Garble, Gone
    <3> QED
      BY <2>1, <3>1, <3>2, NoVerdict
  <2>6. ASSUME NEW lost \in Lost, FetchRule(lost) PROVE RuleWell(job')
    <3>1. /\ job.pc = "send" /\ ~ParseRaises(Response(job.days, lost))
          /\ job' = [Read(lost) EXCEPT !.pc = "judge"]
      BY <2>6 DEF FetchRule, Is
    <3>2. /\ job'.pc = "judge" /\ job'.want = job.want /\ job'.days = job.days
          /\ job'.asked = job.asked /\ job'.lost = lost
          /\ job'.points = Parse(Response(job.days, lost))
      BY <1>1, <3>1 DEF Read, Fields
    <3> QED
      BY <2>1, <3>1, <3>2 DEF RuleWell, Over, AskedWell, AnsweredWell
  <2>7. CASE Judge
    <3> DEFINE seen == [job EXCEPT !.previous = PreviousPoints]
    <3>1. /\ DOMAIN seen = Fields /\ seen.kind = "rule" /\ seen.want = job.want
          /\ seen.days = job.days /\ seen.asked = job.asked /\ seen.lost = job.lost
          /\ seen.points = job.points /\ seen.previous = PreviousPoints
      BY <1>1, <2>1 DEF Fields
    <3>2. job.pc = "judge"
      BY <2>7 DEF Judge, Is
    <3> DEFINE outcome == IF job.points = <<>> THEN "no_forecast_data"
                          ELSE Evaluate(job.want, job.points, PreviousPoints, now)
    <3>3. EndWith(seen, outcome)
      BY <2>7 DEF Judge
    <3> HIDE DEF seen, outcome
    <3>4. /\ job'.pc = "done" /\ job'.outcome = outcome /\ job'.want = job.want
          /\ job'.days = job.days /\ job'.asked = job.asked /\ job'.lost = job.lost
          /\ job'.points = job.points /\ job'.previous = PreviousPoints /\ job'.at = now
      BY <3>1, <3>3, EndShape
    <3>5. PreviousSnapshot \in {<<>>, StoredPoints}
      BY DEF PreviousSnapshot, IInv, Counters
    <3>6. JudgedWell(job')
      BY <3>4, <3>5 DEF JudgedWell, PreviousPoints, PointsAhead, outcome, IInv, Clock
    <3> QED
      BY <2>1, <3>2, <3>4, <3>6 DEF RuleWell, Over, AskedWell, AnsweredWell
  <2> QED
    <3>1. \A kinds, pc : job.kind \notin kinds => ~Is(kinds, pc)
      BY DEF Is
    <3>2. /\ ~FailObservations /\ \A reply : ~Observe(reply) /\ ~FetchWarnings(reply)
          /\ ~SaveObservations /\ ~SaveWarnings
          /\ \A lost : ~FetchForecast(lost) /\ ~FetchChart(lost)
      BY <2>1, <3>1 DEF FailObservations, Observe, FetchWarnings, SaveObservations,
         SaveWarnings, FetchForecast, FetchChart
    <3>3. /\ ~Unreachable /\ ~NoGuess /\ \A query : ~Guess(query)
          /\ \A endpoint, reply : ~Reply(endpoint, reply)
      BY <2>1, <3>1 DEF Unreachable, NoGuess, Guess, Reply
    <3> QED
      BY <1>3, <2>2, <2>3, <2>4, <2>5, <2>6, <2>7, <3>2, <3>3 DEF Ongoing
<1>4. CASE UNCHANGED job
  BY <1>4 DEF RuleWell, Over, AskedWell, AnsweredWell, JudgedWell
<1>5. CASE Disable \/ Tick \/ UNCHANGED vars
  BY <1>4, <1>5 DEF Disable, Tick, vars
<1> QED
  BY <1>2, <1>3, <1>5 DEF Next

LEMMA RuleCorrect == Spec => []RuleWell(job)
<1>1. ASSUME Init PROVE RuleWell(job)
  BY <1>1, JobShape DEF Init, RuleWell
<1>2. ASSUME IInv, RuleWell(job), [Next]_vars PROVE RuleWell(job)'
  BY <1>2, RuleNext
<1> QED
  BY <1>1, <1>2, InvCorrect, PTL DEF Spec

\* The days a rule asks for have weather.
LEMMA DaysWeathered ==
  ASSUME IInv, Timely, AskedWell(job), NEW m \in Metrics
  PROVE  /\ job.days \in Days
         /\ \A h \in HoursAsked : Weather[m][h \div Hour] \in Int
<1> DEFINE from == job.asked - Hour
           to == job.asked + Horizon * Day
<1>1. /\ job.asked \in Nat /\ job.asked <= now /\ now \in Nat
      /\ jobs \in Nat /\ jobs <= MaxJobs /\ Min(Starts) <= job.asked
      /\ now <= LatestAfter(jobs)
  BY RequestAssumption DEF IInv, Clock, Counters, Timely
<1>2. LatestAfter(jobs) \in Nat /\ LatestAfter(jobs) <= Latest
  BY <1>1, LaterAfter
<1>3. /\ Latest \in Nat /\ Hour <= Min(Starts) /\ Min(Starts) \in Nat /\ Hour = 2
      /\ Horizon \in Nat
  BY LatestIs, DayIs, RequestAssumption
<1>4. job.asked <= Latest /\ 2 <= job.asked
  BY <1>1, <1>2, <1>3
<1>5. from \in Int /\ 0 <= from
  BY <1>1, <1>3, <1>4
<1>6. /\ DayOf(from) \in Int /\ 0 <= DayOf(from)
      /\ DayOf(to) = DayOf(job.asked) + Horizon
      /\ DayOf(job.asked) \in Int /\ DayOf(job.asked) <= DayOf(Latest)
      /\ DayOf(Latest) \in Int
  <2> HIDE DEF from
  <2>1. DayOf(from) \in Int /\ 0 <= DayOf(from)
    BY <1>5, DayIs
  <2>2. job.asked \in Int /\ Latest \in Int /\ Horizon \in Int
    BY <1>1, <1>3
  <2>3. DayOf(to) = DayOf(job.asked) + Horizon
    BY <2>2, DayIs
  <2>4. /\ DayOf(job.asked) \in Int /\ DayOf(Latest) \in Int
        /\ DayOf(job.asked) <= DayOf(Latest)
    BY <1>4, <2>2, DayIs
  <2> QED
    BY <2>1, <2>3, <2>4
<1>7. job.days.first = DayOf(from) /\ job.days.last = DayOf(to)
      /\ (DayOf(from) \in Int /\ DayOf(to) \in Int => job.days \in Days)
  BY DEF AskedWell, RequestDays, Days
<1> HIDE DEF from, to
<1>8. job.days \in Days /\ 0 <= job.days.first /\ job.days.last <= DayOf(Latest) + Horizon
  BY <1>3, <1>6, <1>7
<1>9. ASSUME NEW h \in HoursAsked
      PROVE  h \in Int /\ job.days.first * Day <= h /\ h < (job.days.last + 1) * Day
  <2>1. job.days.first * Day \in Int /\ (job.days.last + 1) * Day \in Int
    <3>1. job.days.first \in Int /\ job.days.last \in Int
      BY <1>8 DEF Days
    <3> QED
      BY <3>1, WholeDays
  <2> QED
    BY <2>1 DEF HoursAsked
<1>10. ASSUME NEW h \in HoursAsked PROVE Weather[m][h \div Hour] \in Int
  BY <1>8, <1>9, HoursWeathered
<1> QED
  BY <1>8, <1>10

\* What is judged of the forecast before lists hours of the old weather.
LEMMA PreviousListing ==
  ASSUME JudgedWell(job), NEW m \in Metrics
  PROVE  \E S, u : /\ Listing(job.previous, S, S, m, u)
                   /\ \A h \in S : u[h] = OldWeather[m][h \div Hour]
<1>1. PICK s \in {<<>>, StoredPoints} :
        job.previous = PointsInRange(s, [start |-> job.at - Hour, end |-> job.at + 7 * Day])
  BY DEF JudgedWell
<1>2. \E S, u : Listing(s, S, S, m, u) /\ \A h \in S : u[h] = OldWeather[m][h \div Hour]
  <2>1. CASE s = <<>>
    <3>1. List(s) /\ DOMAIN s = {}
      BY <2>1 DEF List
    <3>2. Listing(s, {}, {}, m, <<>>)
      BY <3>1 DEF Listing
    <3> QED
      BY <3>2
  <2>2. CASE s = StoredPoints
    BY <2>2, StoredListing
  <2> QED
    BY <2>1, <2>2
<1>3. PICK S, u : Listing(s, S, S, m, u) /\ \A h \in S : u[h] = OldWeather[m][h \div Hour]
  BY <1>2
<1> DEFINE range == [start |-> job.at - Hour, end |-> job.at + 7 * Day]
<1>4. Listing(job.previous, Hours(S, range), Hours(S, range), m, u)
  BY <1>1, <1>3, RangeListing
<1>5. \A h \in Hours(S, range) : u[h] = OldWeather[m][h \div Hour]
  BY <1>3 DEF Hours
<1> QED
  BY <1>4, <1>5

LEMMA ListedTimes ==
  ASSUME NEW points, NEW T, NEW H, NEW m, NEW v, Listing(points, T, H, m, v)
  PROVE  T = {p.time : p \in ToSet(points)} /\ IsFiniteSet(T)
<1>1. IsFiniteSet(T)
  BY ListingCounts DEF Counts
<1> QED
  BY <1>1 DEF Listing, ToSet

LEMMA VerdictMeans ==
  ASSUME IInv, Timely, RuleWell(job), job.kind = "rule", Over(job),
         Constrains(job.want.range)
  PROVE  LET e == job.want
             Covered(A) == {h \in A : Covers(e.range, job.at, h)}
             H == {h \in Covered(HoursKnown) : ~NumberLost(e.metric, h)}
             all == {h \in HoursKnown : ~NumberLost(e.metric, h)}
             old == Covered({p.time : p \in ToSet(job.previous)})
             number == [h \in HoursKnown |-> Weather[e.metric][h \div Hour]]
             oldNumber == [h \in old |-> OldWeather[e.metric][h \div Hour]]
             used == IF e.fn = "bare" THEN all ELSE H
         IN
         /\ job.outcome = "no_forecast_data" <=> HoursKnown = {}
         /\ HoursKnown # {} =>
              /\ job.outcome = "error" <=>
                   Meaningless(e, used, Covered(HoursKnown), HoursKnown, number, old)
              /\ job.outcome # "error" =>
                   (job.outcome = "true" <=> Means(e, used, HoursKnown, number, old, oldNumber))
<1> DEFINE e == job.want
           m == e.metric
           range == RangeAt(e.range, job.at)
           Covered(A) == {h \in A : Covers(e.range, job.at, h)}
           inside == Covered(HoursKnown)
           H == {h \in inside : ~NumberLost(m, h)}
           all == {h \in HoursKnown : ~NumberLost(m, h)}
           old == Covered({p.time : p \in ToSet(job.previous)})
           number == [h \in HoursKnown |-> Weather[m][h \div Hour]]
           oldNumber == [h \in old |-> OldWeather[m][h \div Hour]]
           used == IF e.fn = "bare" THEN all ELSE H
<1>1. /\ e \in Expressions /\ Accepts(e) /\ AskedWell(job) /\ AnsweredWell(job)
      /\ JudgedWell(job)
  BY DEF RuleWell
<1>2. /\ m \in Metrics /\ e.op \in Ops \union {"none"} /\ e.limit \in Int
      /\ e.fn = "pctl" => e.arg \in Nat
  BY <1>1, WeatherAssumption DEF Accepts, Ops
<1>3. /\ job.days \in Days /\ \A h \in HoursAsked : Weather[m][h \div Hour] \in Int
  BY <1>1, <1>2, DaysWeathered
<1>4. job.lost \in Flaws
  BY <1>1, WeatherAssumption DEF AnsweredWell, Flaws
<1>5. Listing(job.points, HoursKnown, all, m, number)
  <2>1. /\ ~ParseRaises(Response(job.days, job.lost))
        /\ job.points = Parse(Response(job.days, job.lost))
    BY <1>1 DEF AnsweredWell
  <2> QED
    BY <1>2, <1>3, <1>4, <2>1, ParseListing
<1>6. PICK S, u : /\ Listing(job.previous, S, S, m, u)
                  /\ \A h \in S : u[h] = OldWeather[m][h \div Hour]
  BY <1>1, <1>2, PreviousListing
<1>7. job.points = <<>> <=> HoursKnown = {}
  BY <1>5, ListingCounts
<1>8. S = {p.time : p \in ToSet(job.previous)} /\ IsFiniteSet(S)
  BY <1>6, ListedTimes
<1>9. /\ old = Hours(S, range) /\ inside = Hours(HoursKnown, range)
      /\ H = Hours(all, range)
  <2>1. IsTimeRange(e.range) /\ RangeReadable(e.range) /\ Constrains(e.range)
    BY <1>1, WeatherAssumption DEF Accepts
  <2>2. job.at \in Int
    BY <1>1 DEF JudgedWell
  <2>3. \A A : A \subseteq Int => Covered(A) = Hours(A, range)
    <3>1. \A t \in Int : InRange(t, range) <=> Covers(e.range, job.at, t)
      BY <2>1, <2>2, RangeMeans
    <3> QED
      BY <3>1 DEF Hours
  <2>4. HoursKnown \subseteq Int /\ S \subseteq Int
    BY <1>5, <1>6 DEF Listing
  <2>5. old = Hours(S, range)
    BY <1>8, <2>3, <2>4
  <2>6. inside = Hours(HoursKnown, range)
    BY <2>3, <2>4
  <2>7. H = Hours(all, range)
    BY <2>6 DEF Hours
  <2> QED
    BY <2>5, <2>6, <2>7
<1>10. \A R, T, v : Means(e, R, T, v, old, u) <=> Means(e, R, T, v, old, oldNumber)
  <2>1. /\ \A h \in old : h \in S /\ oldNumber[h] = u[h]
        /\ \A h \in S : u[h] \in Int
    BY <1>6, <1>9 DEF Hours, Listing
  <2>2. IsFiniteSet(old)
    <3>1. old \subseteq S
      BY <2>1
    <3> QED
      BY <1>8, <3>1, FS_Subset
  <2> HIDE DEF old, oldNumber
  <2> QED
    BY <2>1, <2>2, MeansAgrees
<1> DEFINE verdict == Evaluate(e, job.points, job.previous, job.at)
<1>11. job.outcome = IF job.points = <<>> THEN "no_forecast_data" ELSE verdict
  BY <1>1 DEF JudgedWell
<1>12. verdict \in {"true", "false", "error"}
  BY EvaluateVerdict
<1> HIDE DEF e, m, number, oldNumber, inside, H, old, all, verdict, range
<1>13. ASSUME HoursKnown # {}
       PROVE  /\ verdict = "error" <=>
                   Meaningless(e, used, inside, HoursKnown, number, old)
              /\ verdict # "error" =>
                   (verdict = "true" <=> Means(e, used, HoursKnown, number, old, u))
  <2> DEFINE used2 == IF e.fn = "bare" THEN all ELSE Hours(all, range)
  <2>1. /\ verdict = "error" <=>
             Meaningless(e, used2, Hours(HoursKnown, range), HoursKnown, number, Hours(S, range))
        /\ verdict # "error" =>
             (verdict = "true" <=> Means(e, used2, HoursKnown, number, Hours(S, range), u))
    BY <1>1, <1>2, <1>5, <1>6, <1>13, EvaluateMeans DEF verdict, range, m
  <2> QED
    BY <1>9, <2>1
<1>14. job.outcome = "no_forecast_data" <=> HoursKnown = {}
  BY <1>7, <1>11, <1>12
<1>15. HoursKnown # {} => job.outcome = verdict
  BY <1>7, <1>11
<1> HIDE DEF used
<1>16. HoursKnown # {} =>
         /\ job.outcome = "error" <=>
              Meaningless(e, used, inside, HoursKnown, number, old)
         /\ job.outcome # "error" =>
              (job.outcome = "true" <=> Means(e, used, HoursKnown, number, old, oldNumber))
  BY <1>10, <1>13, <1>15
<1> QED
  BY <1>14, <1>16 DEF e, m, number, oldNumber, inside, H, old, all, used

\* Whatever the service answers, and whatever times, numbers or lists are missing: the
\* verdict of a rule is what its expression means of the weather at the hours known, and
\* it has none exactly when too few of those its range is about are.
THEOREM VerdictJustifiedCorrect == Spec => []VerdictJustified
<1>1. IInv /\ Timely /\ RuleWell(job) => VerdictJustified
  BY VerdictMeans DEF VerdictJustified, Over, Verdicts, Idle
<1> QED
  BY <1>1, InvCorrect, TimelyCorrect, RuleCorrect, PTL

-----------------------------------------------------------------------------
(* What a chart shows.                                                     *)

Shown(j) == j.pc = "done" /\ j.outcome = "shown"

\* A chart's job: the local days of its range, and the points of the answer in it.
ChartWell(j) ==
  j.kind = "chart" =>
    /\ j.want \in [start : Int, end : Int]
    /\ j.pc # "done" \/ Shown(j) =>
         j.days = [first |-> LocalDay(j.want.start), last |-> LocalDay(j.want.end)]
    /\ Shown(j) => j.points = PointsInRange(Parse(Response(j.days, j.lost)), j.want)

LEMMA ChartOver ==
  ASSUME NEW j, DOMAIN j = Fields, j.want = job.want, ChartWell(job), job.kind = "chart",
         EndWith(j, "error")
  PROVE  ChartWell(job')
BY EndShape DEF ChartWell, Shown

LEMMA RangesAreInts ==
  ASSUME now \in Nat, NEW range \in AskedRanges
  PROVE  range \in [start : Int, end : Int]
<1>1. Offset \in Int /\ Day \in Nat \ {0} /\ Hour = 2
  BY DayIs, ExpressionAssumption
<1>2. LocalDay(now) \in Int
  <2>1. now + Offset \in Int
    BY <1>1
  <2> QED
    BY <1>1, <2>1, Quotient DEF LocalDay
<1>3. AskedDays \subseteq Int
  BY <1>2 DEF AskedDays
<1>4. \A d \in Int : Midnight(d) \in Int
  <2>1. \A d \in Int : d * Day \in Int
    BY <1>1
  <2> QED
    BY <1>1, <2>1 DEF Midnight
<1>5. PICK d \in AskedDays, d2 \in AskedDays, h \in 0 .. 1, k \in 0 .. 1 :
        range = [start |-> Midnight(d) + h * Hour, end |-> Midnight(d2 + 1) - 1 - k]
  BY DEF AskedRanges
<1>6. Midnight(d) + h * Hour \in Int /\ Midnight(d2 + 1) - 1 - k \in Int
  BY <1>1, <1>3, <1>4
<1> QED
  BY <1>5, <1>6

LEMMA ChartNext ==
  ASSUME IInv, ChartWell(job), [Next]_vars
  PROVE  ChartWell(job')
<1>1. DOMAIN job = Fields /\ now \in Nat
  BY DEF IInv, Shaped, Clock
<1> SUFFICES ASSUME job'.kind = "chart" PROVE ChartWell(job')
  BY DEF ChartWell
<1>2. CASE Begin
  <2>1. PICK range \in AskedRanges, usable \in BOOLEAN : AskChart(range, usable)
    BY <1>2, BeginKind
  <2>2. range \in [start : Int, end : Int]
    BY <1>1, RangesAreInts
  <2>3. CASE Ask("chart", range)
    <3>1. /\ job'.want = range /\ job'.pc = "send"
          /\ job'.days = [first |-> LocalDay(range.start), last |-> LocalDay(range.end)]
      BY <2>3, JobShape DEF Ask, Fields
    <3> QED
      BY <2>2, <3>1 DEF ChartWell, Shown
  <2>4. CASE Refuse("chart", range)
    <3>1. DOMAIN Job("chart", "done", range) = Fields /\ Job("chart", "done", range).want = range
      BY JobShape
    <3>2. job'.want = range /\ job'.pc = "done" /\ job'.outcome = "refused"
      BY <2>4, <3>1, EndShape DEF Refuse
    <3> QED
      BY <2>2, <3>2 DEF ChartWell, Shown
  <2> QED
    BY <2>1, <2>3, <2>4 DEF AskChart
<1>3. CASE Ongoing \/ SaveObservations \/ SaveWarnings
  <2>1. job.kind = "chart"
    BY <1>3, KindStays
  <2>2. ASSUME NEW failure \in Failures, Fail(failure) PROVE ChartWell(job')
    <3> DEFINE failed == [job EXCEPT !.failures = Append(@, failure)]
    <3>1. /\ DOMAIN failed = Fields /\ failed.want = job.want
          /\ failed.days = job.days /\ job.pc = "send"
      BY <1>1, <2>2 DEF Fields, Fail, Is
    <3> HIDE DEF failed
    <3>2. CASE job' = [failed EXCEPT !.pc = "backoff"]
      <4>1. job'.pc = "backoff" /\ job'.want = job.want /\ job'.days = job.days
        BY <3>1, <3>2 DEF Fields
      <4> QED
        BY <2>1, <3>1, <4>1 DEF ChartWell, Shown
    <3>3. CASE EndWith(failed, Gone(job.kind))
      BY <2>1, <3>1, <3>3, ChartOver DEF Gone
    <3> QED
      BY <2>2, <3>2, <3>3 DEF Fail, failed
  <2>3. CASE Backoff
    <3>1. job.pc = "backoff" /\ job' = [job EXCEPT !.pc = "send", !.failures = KeepFailures(@)]
      BY <2>3 DEF Backoff, Is
    <3>2. job'.pc = "send" /\ job'.want = job.want /\ job'.days = job.days
      BY <1>1, <3>1 DEF Fields
    <3> QED
      BY <2>1, <3>1, <3>2 DEF ChartWell, Shown
  <2>4. ASSUME NEW lost \in Lost, Garble(lost) PROVE ChartWell(job')
    <3> DEFINE j == [job EXCEPT !.lost = lost]
    <3>1. DOMAIN j = Fields /\ j.want = job.want
      BY <1>1, <2>1 DEF Fields
    <3>2. EndWith(j, "error")
      BY <2>1, <2>4 DEF Garble, Gone
    <3> QED
      BY <2>1, <3>1, <3>2, ChartOver
  <2>5. ASSUME NEW lost \in Lost, FetchChart(lost) PROVE ChartWell(job')
    <3> DEFINE read == Read(lost)
               shown == PointsInRange(read.points, job.want)
               j == [read EXCEPT !.points = shown]
    <3>1. /\ DOMAIN read = Fields /\ read.want = job.want /\ read.days = job.days
          /\ read.lost = lost /\ read.points = Parse(Response(job.days, lost))
          /\ job.pc = "send"
      BY <1>1, <2>5 DEF Read, Fields, FetchChart, Is
    <3> HIDE DEF read
    <3>2. /\ DOMAIN j = Fields /\ j.want = job.want /\ j.days = job.days /\ j.lost = lost
          /\ j.points = shown
      BY <3>1 DEF Fields
    <3>3. EndWith(j, "shown") \/ EndWith(j, "error")
      BY <2>5 DEF FetchChart, read
    <3> HIDE DEF j
    <3>4. CASE EndWith(j, "error")
      BY <2>1, <3>2, <3>4, ChartOver
    <3>5. CASE EndWith(j, "shown")
      <4>1. /\ job'.want = job.want /\ job'.days = job.days /\ job'.lost = lost
            /\ job'.points = shown
        BY <3>2, <3>5, EndShape
      <4> QED
        BY <2>1, <3>1, <4>1 DEF ChartWell, Shown
    <3> QED
      BY <3>3, <3>4, <3>5
  <2> QED
    <3>1. \A kinds, pc : job.kind \notin kinds => ~Is(kinds, pc)
      BY DEF Is
    <3>2. /\ ~FailObservations /\ \A reply : ~Observe(reply) /\ ~FetchWarnings(reply)
          /\ ~SaveObservations /\ ~SaveWarnings /\ ~Locate /\ ~Judge
          /\ \A lost : ~FetchForecast(lost) /\ ~FetchRule(lost)
      BY <2>1, <3>1 DEF FailObservations, Observe, FetchWarnings, SaveObservations,
         SaveWarnings, FetchForecast, FetchRule, Locate, Judge
    <3>3. /\ ~Unreachable /\ ~NoGuess /\ \A query : ~Guess(query)
          /\ \A endpoint, reply : ~Reply(endpoint, reply)
      BY <2>1, <3>1 DEF Unreachable, NoGuess, Guess, Reply
    <3> QED
      BY <1>3, <2>2, <2>3, <2>4, <2>5, <3>2, <3>3 DEF Ongoing
<1>4. CASE UNCHANGED job
  BY <1>4 DEF ChartWell, Shown
<1>5. CASE Disable \/ Tick \/ UNCHANGED vars
  BY <1>4, <1>5 DEF Disable, Tick, vars
<1> QED
  BY <1>2, <1>3, <1>5 DEF Next

LEMMA ChartCorrect == Spec => []ChartWell(job)
<1>1. ASSUME Init PROVE ChartWell(job)
  BY <1>1, JobShape DEF Init, ChartWell
<1>2. ASSUME IInv, ChartWell(job), [Next]_vars PROVE ChartWell(job)'
  BY <1>2, ChartNext
<1> QED
  BY <1>1, <1>2, InvCorrect, PTL DEF Spec

\* A range shows the times of the points that are in it.
LEMMA TimesInRange ==
  ASSUME NEW points, List(points), NEW range
  PROVE  {p.time : p \in ToSet(PointsInRange(points, range))}
           = Within({points[k].time : k \in DOMAIN points}, range)
<1> DEFINE S == {i \in DOMAIN points : InRange(points[i].time, range)}
<1>1. IsFiniteSet(S) /\ S \subseteq Int
  <2>1. IsFiniteSet(DOMAIN points) /\ DOMAIN points \subseteq Int
    BY FS_Interval DEF List
  <2> QED
    BY <2>1, FS_Subset
<1>2. PointsInRange(points, range) = Chosen(points, S)
  BY DEF PointsInRange
<1>3. \A i : i \in S <=> i \in DOMAIN points /\ range.start <= points[i].time
                                             /\ points[i].time <= range.end
  BY DEF InRange
<1> HIDE DEF S
<1>4. ToSet(PointsInRange(points, range)) = {points[i] : i \in S}
  BY <1>1, <1>2, ChosenElements
<1>5. {p.time : p \in ToSet(PointsInRange(points, range))} = {points[i].time : i \in S}
  BY <1>4
<1> QED
  BY <1>3, <1>5 DEF Within

\* A clean answer has every hour of the days asked for.
LEMMA CleanHours ==
  ASSUME job.days \in Days, job.lost = Clean,
         NEW t \in Int, t % Hour = 0, job.days.first * Day <= t, t < (job.days.last + 1) * Day
  PROVE  t \in HoursKnown
<1>1. t \in HoursAsked
  <2>1. job.days.first \in Int /\ job.days.last \in Int
    BY DEF Days
  <2>2. job.days.first * Day \in Int /\ (job.days.last + 1) * Day \in Int
    BY <2>1, WholeDays
  <2> QED
    BY <2>2 DEF HoursAsked
<1>2. job.lost.kind = "clean"
  BY DEF Clean
<1> QED
  BY <1>1, <1>2 DEF HoursKnown

LEMMA InDay ==
  ASSUME NEW t \in Int
  PROVE  /\ DayOf(t) \in Int /\ DayOf(t) * Day <= t /\ t < (DayOf(t) + 1) * Day
<1>1. Day \in Nat \ {0}
  BY DayIs
<1> DEFINE q == t \div Day
<1>2. q \in Int /\ Day * q <= t /\ t < Day * q + Day
  BY <1>1, Quotient
<1> HIDE DEF q
<1>3. Day * q = q * Day /\ Day * q + Day = (q + 1) * Day
  BY <1>1, <1>2
<1> QED
  BY <1>2, <1>3 DEF DayOf, q

LEMMA InLocalDay ==
  ASSUME NEW t \in Int
  PROVE  /\ LocalDay(t) \in Int /\ t < (LocalDay(t) + 1) * Day
         /\ Midnight(LocalDay(t)) + Offset = LocalDay(t) * Day
<1>1. Offset \in Nat
  BY DayIs, ExpressionAssumption
<1>2. t + Offset \in Int /\ LocalDay(t) = DayOf(t + Offset)
  BY <1>1 DEF LocalDay, DayOf
<1> DEFINE b == (LocalDay(t) + 1) * Day
           c == LocalDay(t) * Day
<1>3. LocalDay(t) \in Int /\ t + Offset < b
  BY <1>2, InDay
<1>4. b \in Int /\ c \in Int
  BY <1>3, WholeDays
<1>5. Midnight(LocalDay(t)) = c - Offset
  BY DEF Midnight
<1> HIDE DEF b, c
<1>6. t < b /\ Midnight(LocalDay(t)) + Offset = c
  BY <1>1, <1>3, <1>4, <1>5
<1> QED
  BY <1>3, <1>6 DEF b, c

LEMMA RuleForecastComplete ==
  ASSUME IInv, Timely, RuleWell(job), job.kind = "rule", Over(job),
         job.outcome \in {"true", "false", "error"}, job.lost = Clean
  PROVE  {t \in job.asked - Hour .. job.asked + Horizon * Day : t % Hour = 0}
           \subseteq {p.time : p \in ToSet(job.points)}
<1> DEFINE from == job.asked - Hour
           to == job.asked + Horizon * Day
<1>1. AskedWell(job) /\ AnsweredWell(job) /\ Accepts(job.want)
  BY DEF RuleWell
<1>2. job.days \in Days
  BY <1>1, DaysWeathered DEF Accepts
<1>3. /\ from \in Int /\ to \in Int
      /\ job.days.first = DayOf(from) /\ job.days.last = DayOf(to)
  <2>1. Horizon * Day \in Int /\ job.asked \in Int /\ Hour \in Int
    <3>1. Horizon \in Int /\ Hour \in Int
      BY DayIs, RequestAssumption
    <3> QED
      BY <3>1, WholeDays DEF IInv, Clock
  <2> QED
    BY <1>1, <2>1 DEF AskedWell, RequestDays
<1>4. {p.time : p \in ToSet(job.points)} = HoursKnown
  <2>1. job.points = Parse(Response(job.days, job.lost))
    BY <1>1 DEF AnsweredWell
  <2>2. HoursKnown = {job.points[k].time : k \in DOMAIN job.points}
    BY <1>2, <2>1, ParseIs
  <2> QED
    BY <2>2 DEF ToSet
<1> HIDE DEF from, to
<1>5. ASSUME NEW t \in from .. to, t % Hour = 0 PROVE t \in HoursKnown
  <2>1. t \in Int /\ from <= t /\ t <= to
    BY <1>3
  <2>2. /\ DayOf(from) * Day <= from /\ to < (DayOf(to) + 1) * Day
        /\ DayOf(from) * Day \in Int /\ (DayOf(to) + 1) * Day \in Int
    <3>1. DayOf(from) \in Int /\ DayOf(to) \in Int
      BY <1>3, InDay
    <3> QED
      BY <1>3, <3>1, WholeDays, InDay
  <2>3. job.days.first * Day <= t /\ t < (job.days.last + 1) * Day
    BY <1>3, <2>1, <2>2
  <2> QED
    BY <1>2, <1>5, <2>1, <2>3, CleanHours
<1> QED
  BY <1>4, <1>5 DEF from, to

LEMMA ChartForecastComplete ==
  ASSUME ChartWell(job), job.kind = "chart", Shown(job)
  PROVE  LET shown == {p.time : p \in ToSet(job.points)}
             from == Midnight(LocalDay(job.want.start)) + Offset
         IN  /\ shown = Within(HoursKnown, job.want)
             /\ job.lost = Clean =>
                  {t \in job.want.start .. job.want.end : t % Hour = 0 /\ t >= from}
                    \subseteq shown
<1> DEFINE shown == {p.time : p \in ToSet(job.points)}
           s == job.want.start
           e == job.want.end
           from == Midnight(LocalDay(s)) + Offset
           points == Parse(Response(job.days, job.lost))
<1>1. /\ s \in Int /\ e \in Int
      /\ job.days = [first |-> LocalDay(s), last |-> LocalDay(e)]
      /\ job.points = PointsInRange(points, job.want)
  BY DEF ChartWell
<1>2. /\ LocalDay(s) \in Int /\ LocalDay(e) \in Int /\ e < (LocalDay(e) + 1) * Day
      /\ from = LocalDay(s) * Day
  BY <1>1, InLocalDay
<1>3. /\ job.days \in Days /\ job.days.first = LocalDay(s) /\ job.days.last = LocalDay(e)
  BY <1>1, <1>2 DEF Days
<1>4. List(points) /\ HoursKnown = {points[k].time : k \in DOMAIN points}
  BY <1>3, ParseIs
<1> HIDE DEF points
<1>5. shown = Within(HoursKnown, job.want)
  BY <1>1, <1>4, TimesInRange
<1> HIDE DEF s, e, from, shown
<1>6. ASSUME job.lost = Clean, NEW t \in s .. e, t % Hour = 0, t >= from
      PROVE  t \in shown
  <2>1. t \in Int /\ s <= t /\ t <= e
    BY <1>1
  <2>2. LocalDay(s) * Day \in Int /\ (LocalDay(e) + 1) * Day \in Int
    BY <1>2, WholeDays
  <2>3. job.days.first * Day <= t /\ t < (job.days.last + 1) * Day
    BY <1>1, <1>2, <1>3, <1>6, <2>1, <2>2
  <2>4. t \in HoursKnown
    BY <1>3, <1>6, <2>1, <2>3, CleanHours
  <2> QED
    BY <1>5, <2>1, <2>4 DEF Within, s, e
<1> QED
  BY <1>5, <1>6 DEF s, e, from, shown

\* However the days of UTC and of the local calendar lie: a rule is judged with every
\* hour it asked for, and a chart shows the hours of its range, all of them but those
\* before midnight UTC of its first day.
THEOREM ForecastsCompleteCorrect == Spec => []ForecastsComplete
<1>1. IInv /\ Timely /\ RuleWell(job) /\ ChartWell(job) => ForecastsComplete
  BY RuleForecastComplete, ChartForecastComplete
     DEF ForecastsComplete, Over, Verdicts, Shown, Idle
<1> QED
  BY <1>1, InvCorrect, TimelyCorrect, RuleCorrect, ChartCorrect, PTL

-----------------------------------------------------------------------------
(* What is on record.                                                      *)

\* What is put in order are the elements at the positions, by their keys.
LEMMA ArrangedElements ==
  ASSUME NEW s, NEW S, NEW key, Keyed(S, key)
  PROVE  LET q == Arranged(s, S, key) IN
         /\ ToSet(q) = {s[i] : i \in S}
         /\ Cardinality(S) \in Nat /\ DOMAIN q = 1 .. Cardinality(S)
         /\ q = [k \in 1 .. Cardinality(S) |-> q[k]]
         /\ \A k \in DOMAIN q : \E i \in S : q[k] = s[i]
         /\ \A k, l \in DOMAIN q : k < l =>
              \E i, j \in S : q[k] = s[i] /\ q[l] = s[j] /\ key[i] <= key[j]
<1> DEFINE n == Cardinality(S)
           q == Arranged(s, S, key)
           P(k) == Place(S, key, k)
<1>1. n \in Nat /\ q = [k \in 1 .. n |-> s[P(k)]] /\ DOMAIN q = 1 .. n
  BY ArrangedIs
<1>2. \A k \in 1 .. n : P(k) \in S
  BY PlaceAt
<1>3. \A i \in S : \E k \in 1 .. n : P(k) = i
  BY PlaceOf
<1>4. \A k, l \in 1 .. n : k < l => key[P(k)] <= key[P(l)]
  <2> SUFFICES ASSUME NEW k \in 1 .. n, NEW l \in 1 .. n, k < l
               PROVE  key[P(k)] <= key[P(l)]
    OBVIOUS
  <2>1. Precedes(key, P(k), P(l))
    BY PlacesOrdered
  <2>2. key[P(k)] \in Int /\ key[P(l)] \in Int
    BY <1>2 DEF Keyed
  <2> HIDE DEF P
  <2> QED
    BY <2>1, <2>2 DEF Precedes
<1> HIDE DEF n, q, P
<1>5. \A k \in 1 .. n : q[k] = s[P(k)]
  BY <1>1
<1>6. ToSet(q) = {s[i] : i \in S}
  <2>1. ToSet(q) \subseteq {s[i] : i \in S}
    BY <1>1, <1>2, <1>5 DEF ToSet
  <2>2. {s[i] : i \in S} \subseteq ToSet(q)
    BY <1>1, <1>3, <1>5 DEF ToSet
  <2> QED
    BY <2>1, <2>2
<1>7. q = [k \in 1 .. n |-> q[k]]
  BY <1>1
<1>8. \A k \in 1 .. n : \E i \in S : q[k] = s[i]
  BY <1>2, <1>5
<1>9. \A k, l \in 1 .. n : k < l =>
        \E i, j \in S : q[k] = s[i] /\ q[l] = s[j] /\ key[i] <= key[j]
  BY <1>2, <1>4, <1>5
<1> QED
  BY <1>1, <1>6, <1>7, <1>8, <1>9 DEF n, q

\* The rows of observations, and what a job about them has seen.
Observed == [location : Places, station : Stations, at : Int]

ObservedBy(j, o) ==
  [location |-> j.want.location, station |-> o.station,
   at |-> IF o.at = Unreadable THEN j.asked ELSE o.at]

NearOf(j) == {i \in DOMAIN j.reply : Near(j.reply[i].station)}

SeenWell(j) ==
  /\ j.reply \in StationReplies
  /\ j.points = Arranged([i \in DOMAIN j.reply |-> ObservedBy(j, j.reply[i])], NearOf(j),
                         [i \in NearOf(j) |-> Distance[j.reply[i].station]])

Answers == {"shown", "stored"}

ObservationsWell ==
  /\ DOMAIN records = {"warnings", "observations"}
  /\ records.observations \in Seq(Observed)
  /\ \A o \in ToSet(records.observations) : Min(Starts) <= o.at /\ o.at <= now
  /\ job.kind = "observations" =>
       /\ job.want.location \in Places
       /\ Idle /\ job.outcome \in Answers => SeenWell(job)
       /\ Idle /\ job.outcome = "stored" =>
            /\ records.observations = job.trail \o job.points
            /\ job.trail \in Seq(Observed)
            /\ job.at \in Nat /\ \A o \in ToSet(records.observations) : o.at <= job.at

\* What was seen, by its positions.
LEMMA SeenIs ==
  ASSUME SeenWell(job), job.want.location \in Places, job.asked \in Nat,
         Min(Starts) <= job.asked
  PROVE  /\ job.points \in Seq(Observed)
         /\ ToSet(job.points) = {ObservedBy(job, job.reply[i]) : i \in NearOf(job)}
         /\ \A k, l \in DOMAIN job.points : k < l =>
              Distance[job.points[k].station] <= Distance[job.points[l].station]
         /\ \A o \in ToSet(job.points) :
              Min(Starts) <= o.at /\ o.at <= job.asked /\ o.location = job.want.location
<1> DEFINE pts == [i \in DOMAIN job.reply |-> ObservedBy(job, job.reply[i])]
           S == NearOf(job)
           key == [i \in S |-> Distance[job.reply[i].station]]
           n == Cardinality(S)
<1>1. PICK m \in Nat : job.reply \in [1 .. m -> [station : Stations,
                                                at : {Unreadable, Min(Starts)}]]
  <2>1. MaxItems \in Nat
    BY RequestAssumption
  <2>2. \A k \in 0 .. MaxItems : k \in Nat
    BY <2>1
  <2> QED
    BY <2>2 DEF SeenWell, StationReplies, Replies
<1>2. Min(Starts) \in Nat
  BY LatestIs
<1>3. S \subseteq 1 .. m /\ DOMAIN job.reply = 1 .. m
  BY <1>1 DEF NearOf
<1>4. IsFiniteSet(S) /\ S \subseteq Int
  <2> HIDE DEF S
  <2>1. IsFiniteSet(1 .. m) /\ S \in SUBSET (1 .. m)
    BY <1>3, FS_Interval
  <2>2. IsFiniteSet(S)
    BY <2>1, FS_Subset
  <2> QED
    BY <2>1, <2>2
<1>5. \A i \in 1 .. m : /\ job.reply[i].station \in Stations
                        /\ job.reply[i].at \in {Unreadable, Min(Starts)}
                        /\ Distance[job.reply[i].station] \in Int
  BY <1>1, RecordAssumption
<1> HIDE DEF S
<1>6. Keyed(S, key)
  BY <1>3, <1>4, <1>5 DEF Keyed
<1>7. \A i \in 1 .. m : /\ pts[i] = ObservedBy(job, job.reply[i])
                        /\ pts[i].station = job.reply[i].station
                        /\ pts[i].location = job.want.location
                        /\ Min(Starts) <= pts[i].at /\ pts[i].at <= job.asked
                        /\ pts[i] \in Observed
  <2> TAKE i \in 1 .. m
  <2>1. pts[i] = [location |-> job.want.location, station |-> job.reply[i].station,
                  at |-> IF job.reply[i].at = Unreadable THEN job.asked ELSE job.reply[i].at]
    BY <1>3 DEF ObservedBy
  <2>2. (IF job.reply[i].at = Unreadable THEN job.asked ELSE job.reply[i].at)
          \in {job.asked, Min(Starts)}
    BY <1>5
  <2>3. pts[i] = ObservedBy(job, job.reply[i])
    BY <1>3
  <2> HIDE DEF pts
  <2> QED
    BY <1>2, <1>5, <2>1, <2>2, <2>3 DEF Observed
<1>8. job.points = Arranged(pts, S, key)
  BY DEF SeenWell, S
<1> HIDE DEF pts, key
<1>9. /\ ToSet(job.points) = {pts[i] : i \in S}
      /\ n \in Nat /\ DOMAIN job.points = 1 .. n
      /\ job.points = [k \in 1 .. n |-> job.points[k]]
      /\ \A k \in DOMAIN job.points : \E i \in S : job.points[k] = pts[i]
      /\ \A k, l \in DOMAIN job.points : k < l =>
           \E i, j \in S : job.points[k] = pts[i] /\ job.points[l] = pts[j] /\ key[i] <= key[j]
  BY <1>6, <1>8, ArrangedElements
<1> HIDE DEF n
<1>10. job.points \in Seq(Observed)
  <2>1. \A k \in 1 .. n : job.points[k] \in Observed
    BY <1>3, <1>7, <1>9
  <2> QED
    BY <1>9, <2>1
<1>11. ToSet(job.points) = {ObservedBy(job, job.reply[i]) : i \in S}
  BY <1>3, <1>7, <1>9
<1>12. \A i \in S : key[i] = Distance[pts[i].station]
  BY <1>3, <1>7 DEF key
<1>13. \A k, l \in DOMAIN job.points : k < l =>
         Distance[job.points[k].station] <= Distance[job.points[l].station]
  BY <1>9, <1>12
<1>14. \A o \in ToSet(job.points) :
         Min(Starts) <= o.at /\ o.at <= job.asked /\ o.location = job.want.location
  BY <1>3, <1>7, <1>9
<1> QED
  BY <1>10, <1>11, <1>13, <1>14 DEF S

\* Only the two saves change what is on record, and only a tick the clock.
LEMMA RecordsStay ==
  ASSUME [Next]_vars
  PROVE  /\ SaveObservations \/ SaveWarnings \/ UNCHANGED records
         /\ Tick \/ UNCHANGED now
<1>1. CASE Begin
  BY <1>1 DEF Begin, StartRule, AskForecast, AskChart, StartObservations, StartWarnings,
     StartPlace, Start, Ask, Refuse
<1>2. CASE Ongoing
  <2>1. CASE Locate \/ Backoff \/ Judge \/ FailObservations \/ Unreachable \/ NoGuess
    BY <2>1 DEF Locate, Backoff, Judge, FailObservations, Unreachable, NoGuess
  <2>2. CASE \E failure \in Failures : Fail(failure)
    BY <2>2 DEF Fail
  <2>3. CASE \E lost \in Lost :
               Garble(lost) \/ FetchRule(lost) \/ FetchForecast(lost) \/ FetchChart(lost)
    BY <2>3 DEF Garble, FetchRule, FetchForecast, FetchChart
  <2>4. CASE \/ \E reply \in StationReplies : Observe(reply)
             \/ \E reply \in Replies(Warnings, MaxItems) : FetchWarnings(reply)
    BY <2>4 DEF Observe, FetchWarnings
  <2>5. CASE \/ \E endpoint \in {"search", "autocomplete"}, reply \in Replies(Candidates, MaxItems) :
                  Reply(endpoint, reply)
             \/ \E query \in {Blank} \union SUBSET Words : Guess(query)
    BY <2>5 DEF Reply, Guess
  <2> QED
    BY <1>2, <2>1, <2>2, <2>3, <2>4, <2>5 DEF Ongoing
<1>3. CASE Disable \/ Tick \/ UNCHANGED vars
  BY <1>3 DEF Disable, Tick, vars
<1>4. CASE SaveObservations \/ SaveWarnings
  BY <1>4 DEF SaveObservations, SaveWarnings
<1> QED
  BY <1>1, <1>2, <1>3, <1>4 DEF Next

LEMMA ClockGrows ==
  ASSUME IInv, [Next]_vars
  PROVE  now \in Nat /\ now' \in Nat /\ now <= now'
<1>1. now \in Nat
  BY DEF IInv, Clock
<1>2. CASE Tick
  BY <1>1, <1>2 DEF Tick
<1>3. CASE UNCHANGED now
  BY <1>1, <1>3
<1> QED
  BY <1>2, <1>3, RecordsStay

\* A job that is over stays as it was, until the next one.
LEMMA OverStays ==
  ASSUME Idle, [Next]_vars, ~Begin, ~SaveObservations, ~SaveWarnings
  PROVE  UNCHANGED job
<1>1. ~Ongoing
  BY DEF Ongoing, Locate, Fail, Backoff, Garble, FetchRule, FetchForecast, FetchChart, Judge,
     FailObservations, Observe, FetchWarnings, Reply, Unreachable, Guess, NoGuess, Is, Idle
<1>2. ~Disable /\ ~Tick
  BY DEF Disable, Tick, Is, Idle
<1> QED
  BY <1>1, <1>2 DEF Next, vars

LEMMA ConcatElements ==
  ASSUME NEW X, NEW s \in Seq(X), NEW t \in Seq(X)
  PROVE  s \o t \in Seq(X) /\ ToSet(s \o t) = ToSet(s) \union ToSet(t)
<1>1. /\ s \o t \in Seq(X) /\ Len(s) \in Nat /\ Len(t) \in Nat
      /\ Len(s \o t) = Len(s) + Len(t)
      /\ DOMAIN s = 1 .. Len(s) /\ DOMAIN t = 1 .. Len(t)
      /\ DOMAIN (s \o t) = 1 .. Len(s) + Len(t)
  OBVIOUS
<1>2. \A i \in 1 .. Len(s) + Len(t) :
        (s \o t)[i] = IF i <= Len(s) THEN s[i] ELSE t[i - Len(s)]
  BY <1>1
<1>3. PICK q : q = s \o t
  OBVIOUS
<1>4. /\ DOMAIN q = 1 .. Len(s) + Len(t)
      /\ \A i \in 1 .. Len(s) + Len(t) : q[i] = IF i <= Len(s) THEN s[i] ELSE t[i - Len(s)]
  BY <1>1, <1>2, <1>3
<1>5. ToSet(q) \subseteq ToSet(s) \union ToSet(t)
  <2> SUFFICES ASSUME NEW i \in 1 .. Len(s) + Len(t)
               PROVE  q[i] \in ToSet(s) \union ToSet(t)
    BY <1>4 DEF ToSet
  <2>1. CASE i <= Len(s)
    BY <1>1, <1>4, <2>1 DEF ToSet
  <2>2. CASE ~(i <= Len(s))
    <3>1. i - Len(s) \in 1 .. Len(t) /\ q[i] = t[i - Len(s)]
      BY <1>1, <1>4, <2>2
    <3> QED
      BY <1>1, <3>1 DEF ToSet
  <2> QED
    BY <2>1, <2>2
<1>6. ToSet(s) \subseteq ToSet(q)
  <2> SUFFICES ASSUME NEW i \in 1 .. Len(s) PROVE s[i] \in ToSet(q)
    BY <1>1 DEF ToSet
  <2>1. i \in 1 .. Len(s) + Len(t) /\ q[i] = s[i]
    BY <1>1, <1>4
  <2> QED
    BY <1>4, <2>1 DEF ToSet
<1>7. ToSet(t) \subseteq ToSet(q)
  <2> SUFFICES ASSUME NEW i \in 1 .. Len(t) PROVE t[i] \in ToSet(q)
    BY <1>1 DEF ToSet
  <2>1. Len(s) + i \in 1 .. Len(s) + Len(t) /\ ~(Len(s) + i <= Len(s))
        /\ (Len(s) + i) - Len(s) = i
    BY <1>1
  <2>2. q[Len(s) + i] = t[(Len(s) + i) - Len(s)]
    BY <1>4, <2>1
  <2> QED
    BY <1>4, <2>1, <2>2 DEF ToSet
<1> QED
  BY <1>1, <1>3, <1>5, <1>6, <1>7

\* Saved: what was on record and what was seen.
LEMMA ObservationsSaved ==
  ASSUME IInv, Timely, ObservationsWell, SaveObservations
  PROVE  ObservationsWell'
<1>1. /\ DOMAIN job = Fields /\ job.asked \in Nat /\ job.asked <= now /\ now \in Nat
      /\ Min(Starts) <= job.asked /\ Min(Starts) \in Nat
  BY LatestIs DEF IInv, Shaped, Clock, Timely
<1>2. /\ job.kind = "observations" /\ Idle /\ job.outcome = "shown"
      /\ records' = [records EXCEPT !.observations = @ \o job.points]
      /\ UNCHANGED now
  BY DEF SaveObservations, Is, Idle
<1>3. job.want.location \in Places /\ SeenWell(job)
  BY <1>2 DEF ObservationsWell, Answers
<1>4. /\ job.points \in Seq(Observed)
      /\ \A o \in ToSet(job.points) : Min(Starts) <= o.at /\ o.at <= job.asked
  BY <1>1, <1>3, SeenIs
<1> DEFINE rows == records.observations
           new == rows \o job.points
           saved == [job EXCEPT !.previous = [i \in DOMAIN job.points |-> Len(rows) + i],
                                !.trail = rows]
<1>5. /\ rows \in Seq(Observed) /\ DOMAIN records = {"warnings", "observations"}
      /\ \A o \in ToSet(rows) : Min(Starts) <= o.at /\ o.at <= now
  BY DEF ObservationsWell
<1>6. new \in Seq(Observed) /\ ToSet(new) = ToSet(rows) \union ToSet(job.points)
  BY <1>4, <1>5, ConcatElements
<1>7. records'.observations = new /\ DOMAIN records' = {"warnings", "observations"}
  BY <1>2, <1>5
<1>8. \A o \in ToSet(job.points) : o.at <= now
  <2> SUFFICES ASSUME NEW o \in ToSet(job.points) PROVE o.at <= now
    OBVIOUS
  <2>1. o.at \in Int
    <3>1. o \in Observed
      BY <1>4 DEF ToSet
    <3> QED
      BY <3>1 DEF Observed
  <2>2. o.at <= job.asked
    BY <1>4
  <2> HIDE DEF new, rows, saved
  <2> QED
    BY <1>1, <2>1, <2>2
<1>9. /\ DOMAIN saved = Fields /\ saved.want = job.want /\ saved.points = job.points
      /\ saved.reply = job.reply /\ saved.asked = job.asked /\ saved.trail = rows
      /\ saved.kind = job.kind
  BY <1>1 DEF Fields
<1>10. EndWith(saved, "stored")
  BY DEF SaveObservations
<1> HIDE DEF new, rows, saved
<1>11. /\ job'.kind = "observations" /\ job'.want = job.want /\ job'.points = job.points
       /\ job'.reply = job.reply /\ job'.asked = job.asked /\ job'.trail = rows
       /\ job'.at = now
  BY <1>2, <1>9, <1>10, EndShape
<1>12. SeenWell(job')
  BY <1>3, <1>11 DEF SeenWell, NearOf, ObservedBy
<1>13. \A o \in ToSet(new) : Min(Starts) <= o.at /\ o.at <= now
  BY <1>4, <1>5, <1>6, <1>8
<1>14. new = rows \o job.points
  BY DEF new
<1>15. SeenWell(job)'
  BY <1>12 DEF SeenWell, NearOf, ObservedBy
<1> QED
  BY <1>1, <1>2, <1>3, <1>5, <1>6, <1>7, <1>11, <1>13, <1>14, <1>15 DEF ObservationsWell

\* What a job about observations knows, apart from the rows.
ObservingWell(j, rows) ==
  j.kind = "observations" =>
    /\ j.want.location \in Places
    /\ j.pc = "done" /\ j.outcome \in Answers => SeenWell(j)
    /\ j.pc = "done" /\ j.outcome = "stored" =>
         /\ rows = j.trail \o j.points
         /\ j.trail \in Seq(Observed)
         /\ j.at \in Nat /\ \A o \in ToSet(rows) : o.at <= j.at

LEMMA ObservingNext ==
  ASSUME IInv, ObservingWell(job, records.observations), [Next]_vars, ~SaveObservations,
         records'.observations = records.observations
  PROVE  ObservingWell(job', records'.observations)
<1>1. DOMAIN job = Fields
  BY DEF IInv, Shaped
<1> SUFFICES ASSUME job'.kind = "observations"
             PROVE  ObservingWell(job', records'.observations)
  BY DEF ObservingWell
<1>2. CASE Begin
  <2>1. PICK place \in Places : StartObservations(place)
    BY <1>2, BeginKind
  <2>2. job' = Job("observations", "send", [location |-> place])
    BY <2>1 DEF StartObservations, Start
  <2>3. job'.want = [location |-> place] /\ job'.pc = "send"
    BY <2>2, JobShape
  <2> QED
    BY <2>3 DEF ObservingWell
<1>3. CASE Ongoing \/ SaveWarnings
  <2>1. job.kind = "observations"
    BY <1>3, KindStays
  <2>2. CASE FailObservations
    <3>1. job'.pc = "done" /\ job'.outcome = "error" /\ job'.want = job.want
      BY <1>1, <2>2, EndShape DEF FailObservations, End
    <3> QED
      BY <2>1, <3>1 DEF ObservingWell, Answers
  <2>3. ASSUME NEW reply \in StationReplies, Observe(reply)
        PROVE  ObservingWell(job', records'.observations)
    <3> DEFINE near == {i \in DOMAIN reply : Near(reply[i].station)}
               seen == Arranged([i \in DOMAIN reply |-> ObservationOf(reply[i])], near,
                                [i \in near |-> Distance[reply[i].station]])
               j == [job EXCEPT !.reply = reply, !.points = seen]
    <3>1. EndWith(j, "shown")
      BY <2>3 DEF Observe
    <3>2. /\ DOMAIN j = Fields /\ j.want = job.want /\ j.asked = job.asked
          /\ j.reply = reply /\ j.points = seen
      BY <1>1 DEF Fields
    <3> HIDE DEF j, seen
    <3>3. /\ job'.pc = "done" /\ job'.outcome = "shown" /\ job'.want = job.want
          /\ job'.asked = job.asked /\ job'.reply = reply /\ job'.points = seen
      BY <3>1, <3>2, EndShape
    <3>4. NearOf(job') = near
      BY <3>3 DEF NearOf
    <3>5. \A i \in DOMAIN reply : ObservedBy(job', reply[i]) = ObservationOf(reply[i])
      BY <3>3 DEF ObservedBy, ObservationOf
    <3>6. SeenWell(job')
      BY <3>3, <3>4, <3>5 DEF SeenWell, seen
    <3> QED
      BY <2>1, <3>3, <3>6 DEF ObservingWell
  <2> QED
    <3>1. \A kinds, pc : job.kind \notin kinds => ~Is(kinds, pc)
      BY DEF Is
    <3>2. /\ ~Locate /\ ~Judge /\ ~Backoff /\ ~SaveWarnings
          /\ \A failure : ~Fail(failure) /\ \A reply : ~FetchWarnings(reply)
      BY <2>1, <3>1 DEF Locate, Judge, Backoff, SaveWarnings, Fail, FetchWarnings, Retried,
         Forecasts
    <3>3. \A lost : ~Garble(lost) /\ ~FetchRule(lost) /\ ~FetchForecast(lost) /\ ~FetchChart(lost)
      BY <2>1, <3>1 DEF Garble, FetchRule, FetchForecast, FetchChart, Forecasts
    <3>4. /\ ~Unreachable /\ ~NoGuess /\ \A query : ~Guess(query)
          /\ \A endpoint, reply : ~Reply(endpoint, reply)
      BY <2>1, <3>1 DEF Unreachable, NoGuess, Guess, Reply
    <3> QED
      BY <1>3, <2>2, <2>3, <3>2, <3>3, <3>4 DEF Ongoing
<1>4. CASE UNCHANGED job
  BY <1>4 DEF ObservingWell, SeenWell, NearOf, ObservedBy
<1>5. CASE Disable \/ Tick \/ UNCHANGED vars
  BY <1>4, <1>5 DEF Disable, Tick, vars
<1> QED
  BY <1>2, <1>3, <1>5 DEF Next

LEMMA ObservationsNext ==
  ASSUME IInv, Timely, ObservationsWell, [Next]_vars
  PROVE  ObservationsWell'
<1>1. CASE SaveObservations
  BY <1>1, ObservationsSaved
<1>2. CASE ~SaveObservations
  <2>1. /\ records'.observations = records.observations
        /\ DOMAIN records' = DOMAIN records
    <3>1. CASE UNCHANGED records
      BY <3>1
    <3>2. CASE SaveWarnings
      <4>1. PICK rows : records' = [records EXCEPT !.warnings = rows]
        BY <3>2 DEF SaveWarnings
      <4> QED
        BY <4>1 DEF ObservationsWell
    <3> QED
      BY <1>2, <3>1, <3>2, RecordsStay
  <2>2. ObservingWell(job, records.observations)
    BY DEF ObservationsWell, ObservingWell, Idle
  <2>3. ObservingWell(job', records'.observations)
    BY <1>2, <2>1, <2>2, ObservingNext
  <2>4. \A o \in ToSet(records'.observations) : Min(Starts) <= o.at /\ o.at <= now'
    <3> SUFFICES ASSUME NEW o \in ToSet(records.observations)
                 PROVE  Min(Starts) <= o.at /\ o.at <= now'
      BY <2>1
    <3>1. o.at \in Int
      <4>1. PICK rows : rows = records.observations
        OBVIOUS
      <4>2. rows \in Seq(Observed) /\ o \in ToSet(rows)
        BY <4>1 DEF ObservationsWell
      <4>3. o \in Observed
        BY <4>2 DEF ToSet
      <4> QED
        BY <4>3 DEF Observed
    <3>2. Min(Starts) <= o.at /\ o.at <= now
      BY DEF ObservationsWell
    <3>3. now \in Nat /\ now' \in Nat /\ now <= now'
      BY ClockGrows
    <3> QED
      BY <3>1, <3>2, <3>3
  <2> QED
    BY <2>1, <2>3, <2>4 DEF ObservationsWell, ObservingWell, Idle, SeenWell, NearOf, ObservedBy
<1> QED
  BY <1>1, <1>2

LEMMA ObservationsCorrect == Spec => []ObservationsWell
<1>1. ASSUME Init PROVE ObservationsWell
  <2>1. /\ records.observations \in {<<>>, PastObservations}
        /\ DOMAIN records = {"warnings", "observations"}
    BY <1>1 DEF Init
  <2>2. job.kind = "none"
    BY <1>1, JobShape DEF Init
  <2>3. now \in Nat /\ Min(Starts) \in Nat /\ Min(Starts) <= now
    BY <1>1, LatestIs, RequestAssumption DEF Init
  <2>4. CASE records.observations = <<>>
    BY <2>1, <2>2, <2>4 DEF ObservationsWell, ToSet
  <2>5. CASE records.observations = PastObservations /\ PastObservations # <<>>
    <3> DEFINE past == [location |-> CHOOSE p \in Places : TRUE,
                        station |-> CHOOSE s \in Stations : TRUE, at |-> Min(Starts)]
    <3>1. Stations # {} /\ Places # {} /\ records.observations = <<past>>
      BY <2>5 DEF PastObservations
    <3>2. past \in Observed /\ past.at = Min(Starts)
      BY <2>3, <3>1 DEF Observed
    <3> HIDE DEF past
    <3>3. <<past>> \in Seq(Observed) /\ ToSet(<<past>>) = {past}
      BY <3>2 DEF ToSet
    <3> QED
      BY <2>1, <2>2, <2>3, <3>1, <3>2, <3>3 DEF ObservationsWell
  <2> QED
    BY <2>1, <2>4, <2>5
<1>2. ASSUME IInv, Timely, ObservationsWell, [Next]_vars PROVE ObservationsWell'
  BY <1>2, ObservationsNext
<1> QED
  BY <1>1, <1>2, InvCorrect, TimelyCorrect, PTL DEF Spec

\* What is found again of a place: everything on record of it, by time.
LEMMA ObservationsFound ==
  ASSUME NEW place, NEW start \in Int, NEW end \in Int,
         records.observations \in Seq(Observed),
         \A o \in ToSet(records.observations) : start <= o.at /\ o.at <= end
  PROVE  LET found == ObservationsOf(place, start, end) IN
         /\ ToSet(found) = {o \in ToSet(records.observations) : o.location = place}
         /\ \A i, j \in DOMAIN found : i < j => found[i].at <= found[j].at
<1> DEFINE rows == records.observations
           S == {k \in DOMAIN rows :
                   rows[k].location = place /\ start <= rows[k].at /\ rows[k].at <= end}
           key == [k \in DOMAIN rows |-> rows[k].at]
           found == Arranged(rows, S, key)
<1>1. ObservationsOf(place, start, end) = found
  BY DEF ObservationsOf
<1>2. /\ rows \in Seq(Observed) /\ Len(rows) \in Nat /\ DOMAIN rows = 1 .. Len(rows)
      /\ ToSet(rows) = {rows[k] : k \in DOMAIN rows}
  BY DEF ToSet
<1>3. \A k \in DOMAIN rows : rows[k] \in Observed /\ rows[k].at \in Int
  <2> SUFFICES ASSUME NEW k \in DOMAIN rows PROVE rows[k] \in Observed /\ rows[k].at \in Int
    OBVIOUS
  <2>1. rows[k] \in Observed
    BY <1>2
  <2> HIDE DEF rows
  <2> QED
    BY <2>1 DEF Observed
<1>4. \A k \in DOMAIN rows : start <= rows[k].at /\ rows[k].at <= end
  BY <1>2
<1> HIDE DEF rows
<1>5. S = {k \in DOMAIN rows : rows[k].location = place}
  <2> HIDE DEF S
  <2>1. \A k \in DOMAIN rows : k \in S <=> rows[k].location = place
    BY <1>4 DEF S
  <2>2. S \subseteq DOMAIN rows
    BY DEF S
  <2> QED
    BY <2>1, <2>2
<1>6. IsFiniteSet(S) /\ S \subseteq Int
  <2>1. IsFiniteSet(1 .. Len(rows))
    BY <1>2, FS_Interval
  <2>2. S \in SUBSET (1 .. Len(rows))
    BY <1>2
  <2> HIDE DEF S
  <2>3. IsFiniteSet(S)
    BY <2>1, <2>2, FS_Subset
  <2> QED
    BY <1>2, <2>2, <2>3
<1>7. \A k \in S : key[k] = rows[k].at /\ key[k] \in Int
  BY <1>3, <1>5
<1> HIDE DEF S, key
<1>8. Keyed(S, key)
  BY <1>6, <1>7 DEF Keyed
<1>9. /\ ToSet(found) = {rows[i] : i \in S}
      /\ \A k, l \in DOMAIN found : k < l =>
           \E i, j \in S : found[k] = rows[i] /\ found[l] = rows[j] /\ key[i] <= key[j]
  BY <1>8, ArrangedElements
<1> HIDE DEF found
<1>10. ToSet(found) = {o \in ToSet(rows) : o.location = place}
  BY <1>2, <1>5, <1>9
<1>11. \A i, j \in DOMAIN found : i < j => found[i].at <= found[j].at
  BY <1>7, <1>9
<1> QED
  BY <1>1, <1>10, <1>11 DEF rows

LEMMA ObservationsAnswered ==
  ASSUME IInv, Timely, ObservationsWell,
         job.kind = "observations", Idle, job.outcome \in Answers
  PROVE  /\ {o.station : o \in ToSet(job.points)} =
              {s \in {o.station : o \in ToSet(job.reply)} :
                 Distance[s] # Unlisted /\ Distance[s] <= Radius}
         /\ \A i, j \in DOMAIN job.points :
              i < j => Distance[job.points[i].station] <= Distance[job.points[j].station]
         /\ job.outcome = "stored" =>
              LET found == ObservationsOf(job.want.location, Min(Starts), job.at)
                  before == {o \in ToSet(job.trail) : o.location = job.want.location}
              IN
              /\ ToSet(found) = before \union ToSet(job.points)
              /\ \A i, j \in DOMAIN found : i < j => found[i].at <= found[j].at
<1>1. /\ job.asked \in Nat /\ now \in Nat
      /\ Min(Starts) <= job.asked /\ Min(Starts) \in Nat
  BY LatestIs DEF IInv, Shaped, Clock, Timely
<1>2. job.want.location \in Places /\ SeenWell(job)
  BY DEF ObservationsWell
<1>3. /\ job.points \in Seq(Observed)
      /\ ToSet(job.points) = {ObservedBy(job, job.reply[i]) : i \in NearOf(job)}
      /\ \A k, l \in DOMAIN job.points : k < l =>
           Distance[job.points[k].station] <= Distance[job.points[l].station]
      /\ \A o \in ToSet(job.points) :
           Min(Starts) <= o.at /\ o.at <= job.asked /\ o.location = job.want.location
  BY <1>1, <1>2, SeenIs
<1>4. {o.station : o \in ToSet(job.points)} =
        {s \in {o.station : o \in ToSet(job.reply)} :
           Distance[s] # Unlisted /\ Distance[s] <= Radius}
  <2>1. \A i \in NearOf(job) : ObservedBy(job, job.reply[i]).station = job.reply[i].station
    BY DEF ObservedBy
  <2>2. {o.station : o \in ToSet(job.points)} = {job.reply[i].station : i \in NearOf(job)}
    BY <1>3, <2>1
  <2>3. {o.station : o \in ToSet(job.reply)} = {job.reply[i].station : i \in DOMAIN job.reply}
    BY DEF ToSet
  <2> QED
    BY <2>2, <2>3 DEF NearOf, Near
<1>5. ASSUME job.outcome = "stored"
      PROVE  LET found == ObservationsOf(job.want.location, Min(Starts), job.at)
                 before == {o \in ToSet(job.trail) : o.location = job.want.location}
             IN
             /\ ToSet(found) = before \union ToSet(job.points)
             /\ \A i, j \in DOMAIN found : i < j => found[i].at <= found[j].at
  <2>1. /\ records.observations = job.trail \o job.points
        /\ job.trail \in Seq(Observed) /\ records.observations \in Seq(Observed)
        /\ \A o \in ToSet(records.observations) : Min(Starts) <= o.at /\ o.at <= job.at
    BY <1>5 DEF ObservationsWell
  <2>2. job.at \in Int
    BY <1>5 DEF ObservationsWell
  <2>3. ToSet(records.observations) = ToSet(job.trail) \union ToSet(job.points)
    BY <1>3, <2>1, ConcatElements
  <2> DEFINE found == ObservationsOf(job.want.location, Min(Starts), job.at)
  <2>4. /\ ToSet(found) = {o \in ToSet(records.observations) : o.location = job.want.location}
        /\ \A i, j \in DOMAIN found : i < j => found[i].at <= found[j].at
    <3>1. PICK start \in Int : start = Min(Starts)
      BY <1>1
    <3>2. PICK end \in Int : end = job.at
      BY <2>2
    <3> DEFINE seen == ObservationsOf(job.want.location, start, end)
    <3>3. /\ ToSet(seen) = {o \in ToSet(records.observations) : o.location = job.want.location}
          /\ \A i, j \in DOMAIN seen : i < j => seen[i].at <= seen[j].at
      BY <2>1, <3>1, <3>2, ObservationsFound
    <3> QED
      BY <3>1, <3>2, <3>3
  <2> HIDE DEF found
  <2>5. ToSet(found) = {o \in ToSet(job.trail) : o.location = job.want.location}
                         \union ToSet(job.points)
    BY <1>3, <2>3, <2>4
  <2> QED
    BY <2>4, <2>5 DEF found
<1> QED
  BY <1>3, <1>4, <1>5

THEOREM ObservationsCompleteCorrect == Spec => []ObservationsComplete
<1>1. IInv /\ Timely /\ ObservationsWell => ObservationsComplete
  BY ObservationsAnswered DEF ObservationsComplete, Answers
<1> QED
  BY <1>1, InvCorrect, TimelyCorrect, ObservationsCorrect, PTL

-----------------------------------------------------------------------------
(* Warnings are saved one after the other.                                 *)

\* The fold over the first k warnings, as the function the community modules define.
Folds(it, base, seq, k) ==
  it = [s \in SUBSET (1 .. k) |->
          IF s = {} THEN base ELSE SaveWarning(it[s \ {Max(s)}], seq[Max(s)])]

LEMMA LastOf ==
  ASSUME NEW k \in Nat, NEW s \in SUBSET (1 .. k), s # {}
  PROVE  /\ Max(s) \in s
         /\ k \in s => Max(s) = k
<1>1. IsFiniteSet(s) /\ s \subseteq Int
  <2>1. IsFiniteSet(1 .. k) /\ 1 .. k \subseteq Int
    BY FS_Interval
  <2>2. IsFiniteSet(s)
    BY <2>1, FS_Subset
  <2> QED
    BY <2>1, <2>2
<1>2. Max(s) \in s /\ \A x \in s : x <= Max(s)
  BY <1>1, MinMax
<1>3. ASSUME k \in s PROVE Max(s) = k
  <2>1. Max(s) \in 1 .. k /\ k <= Max(s)
    BY <1>2, <1>3
  <2> QED
    BY <2>1
<1> QED
  BY <1>2, <1>3

LEMMA FoldGrows ==
  ASSUME NEW base, NEW seq, NEW k \in Nat, NEW it, Folds(it, base, seq, k)
  PROVE  \E next : Folds(next, base, seq, k + 1)
<1> DEFINE n == k + 1
           Step(g, s) == IF s = {} THEN base ELSE SaveWarning(g[s \ {Max(s)}], seq[Max(s)])
           next == [s \in SUBSET (1 .. n) |->
                      IF n \in s THEN SaveWarning(it[s \ {n}], seq[n]) ELSE it[s]]
<1>1. n \in Nat /\ \A s \in SUBSET (1 .. n) : n \notin s => s \in SUBSET (1 .. k)
  OBVIOUS
<1>2. \A s \in SUBSET (1 .. n) : s \ {n} \in SUBSET (1 .. n) /\ n \notin s \ {n}
  OBVIOUS
<1>3. \A s \in SUBSET (1 .. k) : it[s] = Step(it, s)
  BY DEF Folds
<1> HIDE DEF n
<1>4. ASSUME NEW s \in SUBSET (1 .. n), n \in s PROVE next[s] = Step(next, s)
  <2>1. Max(s) = n
    BY <1>1, <1>4, LastOf
  <2>2. next[s \ {n}] = it[s \ {n}]
    BY <1>2
  <2>3. next[s] = SaveWarning(it[s \ {n}], seq[n])
    BY <1>4
  <2> HIDE DEF next
  <2> QED
    BY <1>4, <2>1, <2>2, <2>3
<1>5. ASSUME NEW s \in SUBSET (1 .. n), n \notin s PROVE next[s] = Step(next, s)
  <2>1. next[s] = it[s] /\ it[s] = Step(it, s)
    BY <1>1, <1>3, <1>5
  <2>2. CASE s = {}
    BY <2>1, <2>2
  <2>3. CASE s # {}
    <3>1. s \ {Max(s)} \in SUBSET (1 .. n) /\ n \notin s \ {Max(s)}
      BY <1>5
    <3>2. next[s \ {Max(s)}] = it[s \ {Max(s)}]
      BY <3>1
    <3> HIDE DEF next
    <3> QED
      BY <2>1, <2>3, <3>2
  <2> QED
    BY <2>2, <2>3
<1>6. \A s \in SUBSET (1 .. n) : next[s] = Step(next, s)
  BY <1>4, <1>5
<1>7. next = [s \in SUBSET (1 .. n) |-> next[s]]
  OBVIOUS
<1> HIDE DEF next
<1>8. next = [s \in SUBSET (1 .. n) |-> Step(next, s)]
  BY <1>6, <1>7
<1> QED
  BY <1>8 DEF Folds, n

LEMMA FoldExists ==
  ASSUME NEW base, NEW seq, NEW n \in Nat
  PROVE  \E it : Folds(it, base, seq, n)
<1> DEFINE Without == {k \in Nat : ~ \E it : Folds(it, base, seq, k)}
<1> SUFFICES ASSUME Without # {} PROVE FALSE
  OBVIOUS
<1>1. PICK k \in Without : \A l \in Without : k <= l
  <2>1. Without \in SUBSET Nat
    OBVIOUS
  <2> HIDE DEF Without
  <2> QED
    BY <2>1, LeastNumber
<1>2. k # 0
  <2> DEFINE it == [s \in {{}} |-> base]
  <2>1. SUBSET (1 .. 0) = {{}}
    OBVIOUS
  <2>2. it = [s \in SUBSET (1 .. 0) |->
                IF s = {} THEN base ELSE SaveWarning(it[s \ {Max(s)}], seq[Max(s)])]
    BY <2>1
  <2> HIDE DEF it
  <2> QED
    BY <2>2 DEF Folds
<1>3. k - 1 \in Nat /\ k - 1 \notin Without /\ (k - 1) + 1 = k
  <2>1. k \in Nat
    OBVIOUS
  <2> HIDE DEF Without
  <2> QED
    BY <1>1, <1>2, <2>1
<1> QED
  BY <1>3, FoldGrows

\* The states between the warnings.
Steps(st, base, seq, n) ==
  /\ st[0] = base
  /\ \A k \in 1 .. n : st[k] = SaveWarning(st[k - 1], seq[k])

LEMMA FoldSteps ==
  ASSUME NEW base, NEW seq, NEW n \in Nat, DOMAIN seq = 1 .. n
  PROVE  \E st : Steps(st, base, seq, n) /\ FoldLeft(SaveWarning, base, seq) = st[n]
<1> DEFINE Iter(it) == [s \in SUBSET (1 .. n) |->
                          IF s = {} THEN base
                          ELSE SaveWarning(it[s \ {Max(s)}], seq[Max(s)])]
           f == CHOOSE it : it = Iter(it)
           st == [k \in 0 .. n |-> f[1 .. k]]
<1>1. FoldLeft(SaveWarning, base, seq) = f[1 .. n]
  BY DEF FoldLeft, MapThenFoldSet
<1>2. f = Iter(f)
  <2>1. PICK g : Folds(g, base, seq, n)
    BY FoldExists
  <2>2. g = Iter(g)
    BY <2>1 DEF Folds
  <2> HIDE DEF Iter
  <2> QED
    BY <2>2
<1> HIDE DEF f
<1>3. \A s \in SUBSET (1 .. n) :
        f[s] = IF s = {} THEN base ELSE SaveWarning(f[s \ {Max(s)}], seq[Max(s)])
  BY <1>2
<1>4. st[0] = base
  <2>1. 1 .. 0 = {}
    OBVIOUS
  <2>2. f[{}] = base
    BY <1>3
  <2> QED
    BY <2>1, <2>2
<1>5. ASSUME NEW k \in 1 .. n PROVE st[k] = SaveWarning(st[k - 1], seq[k])
  <2>1. /\ k \in Nat /\ k \in 0 .. n /\ k - 1 \in 0 .. n
        /\ 1 .. k \in SUBSET (1 .. n) /\ 1 .. k # {} /\ k \in 1 .. k
        /\ (1 .. k) \ {k} = 1 .. k - 1
    <3>1. k \in Nat /\ k \in 0 .. n /\ k - 1 \in 0 .. n /\ 1 <= k /\ k <= n
      OBVIOUS
    <3>2. \A i \in Int : /\ i \in 1 .. k <=> 1 <= i /\ i <= k
                         /\ i \in 1 .. k - 1 <=> 1 <= i /\ i <= k - 1
      BY <3>1
    <3>3. \A i \in 1 .. k : i \in 1 .. n
      BY <3>1
    <3>4. k \in 1 .. k
      BY <3>1
    <3>5. \A i \in 1 .. k : i # k => i \in 1 .. k - 1
      BY <3>1
    <3>6. \A i \in 1 .. k - 1 : i \in 1 .. k /\ i # k
      BY <3>1
    <3> QED
      BY <3>1, <3>3, <3>4, <3>5, <3>6
  <2>2. Max(1 .. k) = k
    BY <2>1, LastOf
  <2>3. f[1 .. k] = SaveWarning(f[1 .. k - 1], seq[k])
    BY <1>3, <2>1, <2>2
  <2> QED
    BY <2>1, <2>3
<1>6. st[n] = f[1 .. n]
  OBVIOUS
<1> QED
  BY <1>1, <1>4, <1>5, <1>6 DEF Steps

-----------------------------------------------------------------------------
(* The rows of warnings.                                                   *)

KeysUnique(rows) == \A k, l \in DOMAIN rows : KeyOf(rows[k]) = KeyOf(rows[l]) => k = l

\* Neither on record before nor told before.
NewAt(trail, points, j) ==
  /\ \A l \in 1 .. j - 1 : KeyOf(points[l]) # KeyOf(points[j])
  /\ \A i \in DOMAIN trail : KeyOf(trail[i]) # KeyOf(points[j])

\* What the first k warnings have made of the rows before them.
SavedWell(Row, rows, ids, trail, points, k) ==
  /\ rows \in Seq(Row) /\ ids \in Seq(Nat) /\ Len(ids) = k
  /\ KeysUnique(rows)
  /\ Len(trail) <= Len(rows)
  /\ \A i \in 1 .. Len(trail) : rows[i] = trail[i]
  /\ \A i \in 1 .. Len(rows) : i > Len(trail) => \E j \in 1 .. k : KeyOf(rows[i]) = KeyOf(points[j])
  /\ \A j \in 1 .. k : ids[j] \in DOMAIN rows /\ KeyOf(rows[ids[j]]) = KeyOf(points[j])
  /\ \A j \in 1 .. k : NewAt(trail, points, j) => \E i \in DOMAIN rows : rows[i] = points[j]

\* A warning whose key is on record.
LEMMA KnownSaved ==
  ASSUME NEW Row, NEW rows, NEW ids, NEW trail \in Seq(Row), NEW points \in Seq(Row),
         NEW k \in Nat, k + 1 <= Len(points),
         SavedWell(Row, rows, ids, trail, points, k),
         NEW m \in RowsOf(rows, points[k + 1])
  PROVE  SavedWell(Row, rows, Append(ids, m), trail, points, k + 1)
<1> DEFINE n == k + 1
           new == Append(ids, m)
<1>1. /\ rows \in Seq(Row) /\ ids \in Seq(Nat) /\ Len(ids) = k
      /\ DOMAIN rows = 1 .. Len(rows) /\ Len(rows) \in Nat /\ Len(trail) \in Nat
      /\ DOMAIN trail = 1 .. Len(trail)
  BY DEF SavedWell
<1>2. m \in DOMAIN rows /\ KeyOf(rows[m]) = KeyOf(points[n])
  BY DEF RowsOf
<1>3. n \in Nat /\ \A j \in 1 .. n : j = n \/ j \in 1 .. k
  OBVIOUS
<1>4. /\ new \in Seq(Nat) /\ Len(new) = n /\ new[n] = m
      /\ \A j \in 1 .. k : new[j] = ids[j]
  BY <1>1, <1>2
<1>5. ~NewAt(trail, points, n)
  <2> SUFFICES ASSUME NewAt(trail, points, n) PROVE FALSE
    OBVIOUS
  <2>1. /\ \A l \in 1 .. k : KeyOf(points[l]) # KeyOf(points[n])
        /\ \A i \in 1 .. Len(trail) : KeyOf(trail[i]) # KeyOf(points[n])
    <3>1. 1 .. n - 1 = 1 .. k
      OBVIOUS
    <3> QED
      BY <1>1, <3>1 DEF NewAt
  <2>2. CASE m <= Len(trail)
    <3>1. m \in 1 .. Len(trail)
      BY <1>1, <1>2, <2>2
    <3>2. rows[m] = trail[m]
      BY <3>1 DEF SavedWell
    <3> QED
      BY <1>2, <2>1, <3>1, <3>2
  <2>3. CASE m > Len(trail)
    <3>1. \E j \in 1 .. k : KeyOf(rows[m]) = KeyOf(points[j])
      BY <1>1, <1>2, <2>3 DEF SavedWell
    <3> QED
      BY <1>2, <2>1, <3>1
  <2> QED
    BY <1>1, <1>2, <2>2, <2>3
<1>6. \A j \in 1 .. k : j \in 1 .. n
  OBVIOUS
<1> HIDE DEF n, new
<1>7. \A i \in 1 .. Len(rows) :
        i > Len(trail) => \E j \in 1 .. n : KeyOf(rows[i]) = KeyOf(points[j])
  BY <1>6 DEF SavedWell
<1>8. \A j \in 1 .. n : new[j] \in DOMAIN rows /\ KeyOf(rows[new[j]]) = KeyOf(points[j])
  BY <1>2, <1>3, <1>4 DEF SavedWell
<1>9. \A j \in 1 .. n : NewAt(trail, points, j) => \E i \in DOMAIN rows : rows[i] = points[j]
  BY <1>3, <1>5 DEF SavedWell
<1>10. /\ KeysUnique(rows) /\ Len(trail) <= Len(rows)
       /\ \A i \in 1 .. Len(trail) : rows[i] = trail[i]
  BY DEF SavedWell
<1>11. SavedWell(Row, rows, new, trail, points, n)
  BY <1>1, <1>4, <1>7, <1>8, <1>9, <1>10 DEF SavedWell
<1> QED
  BY <1>11 DEF n, new

\* A warning of a key of its own.
LEMMA UnknownSaved ==
  ASSUME NEW Row, NEW rows, NEW ids, NEW trail \in Seq(Row), NEW points \in Seq(Row),
         NEW k \in Nat, k + 1 <= Len(points),
         SavedWell(Row, rows, ids, trail, points, k),
         RowsOf(rows, points[k + 1]) = {}
  PROVE  SavedWell(Row, Append(rows, points[k + 1]), Append(ids, Len(rows) + 1), trail, points,
                   k + 1)
<1> DEFINE n == k + 1
           m == Len(rows) + 1
           new == Append(ids, m)
           more == Append(rows, points[n])
<1>1. /\ rows \in Seq(Row) /\ ids \in Seq(Nat) /\ Len(ids) = k
      /\ DOMAIN rows = 1 .. Len(rows) /\ Len(rows) \in Nat /\ Len(trail) \in Nat
      /\ Len(trail) <= Len(rows)
  BY DEF SavedWell
<1>2. points[n] \in Row
  <2>1. n \in DOMAIN points
    OBVIOUS
  <2> QED
    BY <2>1
<1>3. \A i \in DOMAIN rows : KeyOf(rows[i]) # KeyOf(points[n])
  BY DEF RowsOf
<1>4. n \in Nat /\ \A j \in 1 .. n : j = n \/ j \in 1 .. k
  OBVIOUS
<1>5. n \in 1 .. n /\ \A j \in 1 .. k : j \in 1 .. n
  OBVIOUS
<1>6. m \in Nat /\ (\A i \in 1 .. m : i = m \/ i \in 1 .. Len(rows))
      /\ (\A i \in 1 .. Len(rows) : i \in 1 .. m) /\ m \in 1 .. m /\ Len(trail) <= m
      /\ \A i \in 1 .. Len(trail) : i \in 1 .. Len(rows)
  <2>1. PICK r : r = Len(rows)
    OBVIOUS
  <2>2. PICK t : t = Len(trail)
    OBVIOUS
  <2>3. r \in Nat /\ t \in Nat /\ t <= r /\ m = r + 1
    BY <1>1, <2>1, <2>2
  <2> HIDE DEF m
  <2>4. m \in Nat /\ (\A i \in 1 .. m : i = m \/ i \in 1 .. r)
        /\ (\A i \in 1 .. r : i \in 1 .. m) /\ m \in 1 .. m /\ t <= m
    BY <2>3
  <2>5. \A i \in 1 .. t : i \in 1 .. r
    BY <2>3
  <2> QED
    BY <2>1, <2>2, <2>4, <2>5
<1>7. /\ new \in Seq(Nat) /\ Len(new) = n /\ new[n] = m
      /\ \A j \in 1 .. k : new[j] = ids[j]
  BY <1>1, <1>6
<1>8. /\ more \in Seq(Row) /\ Len(more) = m /\ DOMAIN more = 1 .. m
      /\ more[m] = points[n] /\ \A i \in 1 .. Len(rows) : more[i] = rows[i]
  BY <1>1, <1>2
<1> HIDE DEF n, new, m, more
<1>9. KeysUnique(more)
  <2> SUFFICES ASSUME NEW i \in 1 .. m, NEW l \in 1 .. m, KeyOf(more[i]) = KeyOf(more[l])
               PROVE  i = l
    BY <1>8 DEF KeysUnique
  <2>1. CASE i \in 1 .. Len(rows) /\ l \in 1 .. Len(rows)
    <3>1. KeyOf(rows[i]) = KeyOf(rows[l])
      BY <1>8, <2>1
    <3>2. KeysUnique(rows)
      BY DEF SavedWell
    <3> QED
      BY <1>1, <2>1, <3>1, <3>2 DEF KeysUnique
  <2>2. CASE i = m /\ l \in 1 .. Len(rows)
    BY <1>1, <1>3, <1>8, <2>2
  <2>3. CASE i \in 1 .. Len(rows) /\ l = m
    BY <1>1, <1>3, <1>8, <2>3
  <2> QED
    BY <1>6, <2>1, <2>2, <2>3
<1>10. \A i \in 1 .. Len(trail) : more[i] = trail[i]
  BY <1>6, <1>8 DEF SavedWell
<1>11. \A i \in 1 .. m :
         i > Len(trail) => \E j \in 1 .. n : KeyOf(more[i]) = KeyOf(points[j])
  <2>1. \A i \in 1 .. Len(rows) :
          i > Len(trail) => \E j \in 1 .. n : KeyOf(more[i]) = KeyOf(points[j])
    BY <1>5, <1>8 DEF SavedWell
  <2>2. \E j \in 1 .. n : KeyOf(more[m]) = KeyOf(points[j])
    BY <1>5, <1>8
  <2> QED
    BY <1>6, <2>1, <2>2
<1>12. \A j \in 1 .. n : new[j] \in 1 .. m /\ KeyOf(more[new[j]]) = KeyOf(points[j])
  <2>1. \A j \in 1 .. k : new[j] \in 1 .. Len(rows) /\ KeyOf(rows[new[j]]) = KeyOf(points[j])
    BY <1>1, <1>7 DEF SavedWell
  <2> QED
    BY <1>4, <1>6, <1>7, <1>8, <2>1
<1>13. \A j \in 1 .. n : NewAt(trail, points, j) => \E i \in 1 .. m : more[i] = points[j]
  <2>1. \A j \in 1 .. k : NewAt(trail, points, j) => \E i \in 1 .. Len(rows) : rows[i] = points[j]
    BY <1>1 DEF SavedWell
  <2>2. \A j \in 1 .. k : NewAt(trail, points, j) => \E i \in 1 .. m : more[i] = points[j]
    BY <1>6, <1>8, <2>1
  <2> QED
    BY <1>4, <1>6, <1>8, <2>2
<1>14. SavedWell(Row, more, new, trail, points, n)
  BY <1>6, <1>7, <1>8, <1>9, <1>10, <1>11, <1>12, <1>13 DEF SavedWell
<1> QED
  BY <1>14 DEF n, new, m, more

Saving(st, Row, trail, points, k) ==
  /\ DOMAIN st[k] = {"rows", "ids"}
  /\ SavedWell(Row, st[k].rows, st[k].ids, trail, points, k)

LEMMA SavingStep ==
  ASSUME NEW Row, NEW st, NEW trail \in Seq(Row), NEW points \in Seq(Row),
         NEW k \in Nat, k + 1 <= Len(points), Saving(st, Row, trail, points, k),
         st[k + 1] = SaveWarning(st[k], points[k + 1])
  PROVE  Saving(st, Row, trail, points, k + 1)
<1> DEFINE n == k + 1
           saved == st[k]
           w == points[n]
           same == RowsOf(saved.rows, w)
<1>1. DOMAIN saved = {"rows", "ids"} /\ SavedWell(Row, saved.rows, saved.ids, trail, points, k)
  BY DEF Saving
<1>2. st[n] = SaveWarning(saved, w)
  OBVIOUS
<1>3. CASE same # {}
  <2> DEFINE m == Min(same)
  <2>1. m \in same
    <3>1. PICK l \in Nat : same \in SUBSET (1 .. l)
      <4>1. same \in SUBSET (1 .. Len(saved.rows)) /\ Len(saved.rows) \in Nat
        BY <1>1 DEF RowsOf, SavedWell
      <4> QED
        BY <4>1
    <3>2. IsFiniteSet(1 .. l) /\ 1 .. l \subseteq Int
      BY FS_Interval
    <3> HIDE DEF same
    <3>3. IsFiniteSet(same)
      BY <3>1, <3>2, FS_Subset
    <3> QED
      BY <1>3, <3>1, <3>2, <3>3, MinMax
  <2>2. st[n] = [saved EXCEPT !.ids = Append(@, m)]
    BY <1>2, <1>3 DEF SaveWarning
  <2> HIDE DEF m
  <2>3. DOMAIN st[n] = {"rows", "ids"} /\ st[n].rows = saved.rows
        /\ st[n].ids = Append(saved.ids, m)
    BY <1>1, <2>2
  <2>4. SavedWell(Row, saved.rows, Append(saved.ids, m), trail, points, n)
    <3>1. m \in RowsOf(saved.rows, points[k + 1])
      BY <2>1
    <3> HIDE DEF same, saved
    <3>2. SavedWell(Row, saved.rows, Append(saved.ids, m), trail, points, k + 1)
      BY <1>1, <3>1, KnownSaved
    <3> QED
      BY <3>2
  <2> QED
    BY <2>3, <2>4 DEF Saving
<1>4. CASE same = {}
  <2>1. st[n] = [rows |-> Append(saved.rows, w), ids |-> Append(saved.ids, Len(saved.rows) + 1)]
    BY <1>2, <1>4 DEF SaveWarning
  <2>2. SavedWell(Row, Append(saved.rows, w), Append(saved.ids, Len(saved.rows) + 1),
                  trail, points, n)
    BY <1>1, <1>4, UnknownSaved
  <2> QED
    BY <2>1, <2>2 DEF Saving
<1> QED
  BY <1>3, <1>4

LEMMA AllSaved ==
  ASSUME NEW Row, NEW trail \in Seq(Row), KeysUnique(trail), NEW points \in Seq(Row)
  PROVE  LET saved == FoldLeft(SaveWarning, [rows |-> trail, ids |-> <<>>], points) IN
         SavedWell(Row, saved.rows, saved.ids, trail, points, Len(points))
<1> DEFINE base == [rows |-> trail, ids |-> <<>>]
           n == Len(points)
<1>1. n \in Nat /\ DOMAIN points = 1 .. n
  OBVIOUS
<1>2. PICK st : Steps(st, base, points, n) /\ FoldLeft(SaveWarning, base, points) = st[n]
  BY <1>1, FoldSteps
<1>3. Saving(st, Row, trail, points, 0)
  <2>1. st[0] = base
    BY <1>2 DEF Steps
  <2>2. Len(trail) \in Nat /\ DOMAIN trail = 1 .. Len(trail)
    OBVIOUS
  <2>3. SavedWell(Row, trail, <<>>, trail, points, 0)
    BY <2>2 DEF SavedWell
  <2> QED
    BY <2>1, <2>3 DEF Saving
<1> DEFINE Not == {k \in Nat : k <= n /\ ~Saving(st, Row, trail, points, k)}
<1>4. ASSUME Not # {} PROVE FALSE
  <2>1. PICK k \in Not : \A l \in Not : k <= l
    <3>1. Not \in SUBSET Nat
      OBVIOUS
    <3> HIDE DEF Not
    <3> QED
      BY <1>4, <3>1, LeastNumber
  <2>2. k \in Nat /\ k <= n /\ k # 0 /\ ~Saving(st, Row, trail, points, k)
    BY <1>3
  <2>3. k - 1 \in Nat /\ (k - 1) + 1 = k /\ k \in 1 .. n /\ k - 1 <= n /\ ~(k <= k - 1)
    BY <1>1, <2>2
  <2>4. k - 1 \notin Not
    BY <2>1, <2>3
  <2>5. Saving(st, Row, trail, points, k - 1)
    BY <2>3, <2>4
  <2>6. st[k] = SaveWarning(st[k - 1], points[k])
    BY <1>2, <2>3 DEF Steps
  <2> HIDE DEF Not
  <2>7. Saving(st, Row, trail, points, (k - 1) + 1)
    BY <2>2, <2>3, <2>5, <2>6, SavingStep
  <2> QED
    BY <2>2, <2>3, <2>7
<1>5. Saving(st, Row, trail, points, n)
  BY <1>1, <1>4
<1> QED
  BY <1>2, <1>5 DEF Saving

-----------------------------------------------------------------------------
(* What a job about warnings is told and keeps.                            *)

Wanted == [provider : {"meteo", "hydro"}, location : Places \union {Max(Places)}]
WarningRow == {WarningOf(want, item) : want \in Wanted, item \in Warnings}

\* What is told: every warning with dates.
DatedOf(reply) == {i \in DOMAIN reply : Dated(reply[i])}
Told(want, reply) ==
  LET dated == Chosen(reply, DatedOf(reply)) IN
  [i \in DOMAIN dated |-> WarningOf(want, dated[i])]

LEMMA RowDated ==
  ASSUME NEW w \in WarningRow
  PROVE  w.from \in Int /\ w.to \in Int
<1>1. PICK want \in Wanted, item \in Warnings : w = WarningOf(want, item)
  BY DEF WarningRow
<1>2. w.from = item.from /\ w.to = item.to
  BY <1>1 DEF WarningOf
<1> QED
  BY <1>2, RecordAssumption

LEMMA ToldIs ==
  ASSUME NEW want \in Wanted, NEW reply \in Replies(Warnings, MaxItems)
  PROVE  LET points == Told(want, reply)
             dated == DatedOf(reply)
         IN
         /\ points \in Seq(WarningRow)
         /\ Len(points) = Cardinality(dated)
         /\ \A i \in DOMAIN points : points[i].location = want.location
         /\ \A i \in dated :
              LET w == points[Cardinality({k \in dated : k <= i})] IN
              w.from = reply[i].from /\ w.to = reply[i].to
<1> DEFINE S == DatedOf(reply)
           n == Cardinality(S)
           q == Chosen(reply, S)
           points == Told(want, reply)
<1>1. PICK m \in Nat : reply \in [1 .. m -> Warnings]
  <2>1. \A k \in 0 .. MaxItems : k \in Nat
    BY RequestAssumption
  <2> QED
    BY <2>1 DEF Replies
<1>2. S \in SUBSET (1 .. m)
  BY <1>1 DEF DatedOf
<1> HIDE DEF S
<1>3. IsFiniteSet(S) /\ S \subseteq Int
  <2>1. IsFiniteSet(1 .. m)
    BY FS_Interval
  <2>2. IsFiniteSet(S)
    BY <1>2, <2>1, FS_Subset
  <2> QED
    BY <1>2, <2>2
<1>4. PICK f : Counts(f, S) /\ Picks(q, f, reply, S)
  BY <1>3, ChosenIs
<1> HIDE DEF q
<1>5. n \in Nat /\ DOMAIN q = 1 .. n /\ \A k \in 1 .. n : q[k] = reply[f[k]] /\ f[k] \in S
  BY <1>4 DEF Counts, Picks
<1> HIDE DEF n
<1>6. points = [k \in 1 .. n |-> WarningOf(want, q[k])]
  BY <1>5 DEF Told, q, S
<1> HIDE DEF points
<1>7. \A k \in 1 .. n : /\ points[k] = WarningOf(want, reply[f[k]])
                        /\ points[k] \in WarningRow /\ points[k].location = want.location
                        /\ points[k].from = reply[f[k]].from /\ points[k].to = reply[f[k]].to
  <2> SUFFICES ASSUME NEW k \in 1 .. n
               PROVE  /\ points[k] = WarningOf(want, reply[f[k]])
                      /\ points[k] \in WarningRow /\ points[k].location = want.location
                      /\ points[k].from = reply[f[k]].from /\ points[k].to = reply[f[k]].to
    OBVIOUS
  <2>1. points[k] = WarningOf(want, reply[f[k]])
    BY <1>5, <1>6
  <2>2. reply[f[k]] \in Warnings
    BY <1>1, <1>2, <1>5
  <2>3. points[k] \in WarningRow
    BY <2>1, <2>2 DEF WarningRow
  <2>4. /\ points[k].location = want.location
        /\ points[k].from = reply[f[k]].from /\ points[k].to = reply[f[k]].to
    BY <2>1 DEF WarningOf
  <2> QED
    BY <2>1, <2>3, <2>4
<1>8. points \in Seq(WarningRow) /\ Len(points) = n /\ DOMAIN points = 1 .. n
  BY <1>5, <1>6, <1>7
<1>9. ASSUME NEW i \in S
      PROVE  LET c == Cardinality({k \in S : k <= i}) IN c \in 1 .. n /\ f[c] = i
  <2>1. PICK c \in 1 .. n : f[c] = i
    BY <1>4, <1>9 DEF Counts, n
  <2>2. /\ \A k, l \in 1 .. n : k < l => f[k] < f[l]
        /\ \A x \in S : \E k \in 1 .. n : f[k] = x
        /\ \A k \in 1 .. n : f[k] \in S /\ f[k] \in Int
    BY <1>3, <1>4, <1>5 DEF Counts, n
  <2>3. \A k \in 1 .. n : f[k] <= f[c] <=> k <= c
    <3> SUFFICES ASSUME NEW k \in 1 .. n PROVE f[k] <= f[c] <=> k <= c
      OBVIOUS
    <3>1. k < c \/ k = c \/ c < k
      BY <1>5, <2>1
    <3>2. f[k] \in Int /\ f[c] \in Int
      BY <2>1, <2>2
    <3>3. (k < c => f[k] < f[c]) /\ (c < k => f[c] < f[k])
      BY <2>1, <2>2
    <3> QED
      BY <1>5, <2>1, <3>1, <3>2, <3>3
  <2>4. {x \in S : x <= i} = {f[k] : k \in 1 .. c}
    <3>1. \A k \in 1 .. c : k \in 1 .. n /\ k <= c
      BY <1>5, <2>1
    <3>2. \A k \in 1 .. n : k <= c => k \in 1 .. c
      BY <1>5, <2>1
    <3>3. \A k \in 1 .. c : f[k] \in S /\ f[k] <= i
      BY <2>1, <2>2, <2>3, <3>1
    <3>4. \A x \in S : x <= i => \E k \in 1 .. c : f[k] = x
      BY <2>1, <2>2, <2>3, <3>2
    <3> QED
      BY <3>3, <3>4
  <2>5. 1 .. c \in SUBSET (1 .. Cardinality(S)) /\ Cardinality(1 .. c) = c
    <3>1. 1 .. c \in SUBSET (1 .. n)
      BY <1>5, <2>1
    <3>2. c \in Nat
      BY <1>5, <2>1
    <3> QED
      BY <3>1, <3>2, FS_Interval DEF n
  <2>6. Cardinality({f[k] : k \in 1 .. c}) = c
    BY <1>4, <2>5, CountsImage
  <2> QED
    BY <2>1, <2>4, <2>6
<1>10. \A i \in S : LET w == points[Cardinality({k \in S : k <= i})] IN
                    w.from = reply[i].from /\ w.to = reply[i].to
  BY <1>7, <1>9
<1> QED
  BY <1>7, <1>8, <1>10 DEF points, n, S

WarningWell(j, rows) ==
  j.kind = "warnings" =>
    /\ j.want \in Wanted
    /\ j.pc = "done" /\ j.outcome \in Answers =>
         \E reply \in Replies(Warnings, MaxItems) :
           j.reply = reply /\ j.points = Told(j.want, reply)
    /\ j.pc = "done" /\ j.outcome = "stored" =>
         /\ j.trail \in Seq(WarningRow)
         /\ SavedWell(WarningRow, rows, j.previous, j.trail, j.points, Len(j.points))

WarningsWell ==
  /\ DOMAIN records = {"warnings", "observations"}
  /\ records.warnings \in Seq(WarningRow)
  /\ KeysUnique(records.warnings)
  /\ WarningWell(job, records.warnings)

LEMMA WarningsSaved ==
  ASSUME IInv, WarningsWell, SaveWarnings
  PROVE  WarningsWell'
<1> DEFINE rows == records.warnings
           saved == FoldLeft(SaveWarning, [rows |-> rows, ids |-> <<>>], job.points)
           j == [job EXCEPT !.previous = saved.ids, !.trail = rows]
<1>1. /\ DOMAIN job = Fields /\ job.kind = "warnings" /\ job.pc = "done"
      /\ job.outcome = "shown" /\ job.outcome \in Answers
  BY DEF IInv, Shaped, SaveWarnings, Is, Answers
<1>2. PICK reply \in Replies(Warnings, MaxItems) :
        job.reply = reply /\ job.points = Told(job.want, reply)
  BY <1>1 DEF WarningsWell, WarningWell
<1>3. job.want \in Wanted /\ rows \in Seq(WarningRow) /\ KeysUnique(rows)
  BY <1>1 DEF WarningsWell, WarningWell
<1>4. job.points \in Seq(WarningRow)
  BY <1>2, <1>3, ToldIs
<1>5. EndWith(j, "stored") /\ records' = [records EXCEPT !.warnings = saved.rows]
  BY DEF SaveWarnings
<1>6. SavedWell(WarningRow, saved.rows, saved.ids, rows, job.points, Len(job.points))
  BY <1>3, <1>4, AllSaved
<1>7. /\ DOMAIN j = Fields /\ j.kind = "warnings" /\ j.want = job.want
      /\ j.points = job.points /\ j.reply = job.reply /\ j.trail = rows
      /\ j.previous = saved.ids
  BY <1>1 DEF Fields
<1> HIDE DEF saved, j
<1>8. /\ job'.kind = "warnings" /\ job'.want = job.want /\ job'.points = job.points
      /\ job'.reply = job.reply /\ job'.trail = rows /\ job'.previous = saved.ids
      /\ job'.outcome = "stored"
  BY <1>5, <1>7, EndShape
<1>9. records'.warnings = saved.rows /\ DOMAIN records' = {"warnings", "observations"}
  BY <1>5 DEF WarningsWell
<1>10. saved.rows \in Seq(WarningRow) /\ KeysUnique(saved.rows)
  BY <1>6 DEF SavedWell
<1>11. WarningWell(job', records'.warnings)
  BY <1>2, <1>3, <1>6, <1>8, <1>9 DEF WarningWell
<1>12. KeysUnique(records'.warnings) /\ records'.warnings \in Seq(WarningRow)
  BY <1>9, <1>10
<1> QED
  BY <1>9, <1>11, <1>12 DEF WarningsWell, KeysUnique

LEMMA WarningNext ==
  ASSUME IInv, WarningWell(job, records.warnings), [Next]_vars, ~SaveWarnings,
         records'.warnings = records.warnings
  PROVE  WarningWell(job', records'.warnings)
<1>1. DOMAIN job = Fields
  BY DEF IInv, Shaped
<1> SUFFICES ASSUME job'.kind = "warnings"
             PROVE  WarningWell(job', records'.warnings)
  BY DEF WarningWell
<1>2. CASE Begin
  <2>1. PICK provider \in {"meteo", "hydro"}, place \in Places : StartWarnings(provider, place)
    BY <1>2, BeginKind
  <2>2. job' = Job("warnings", "send", [provider |-> provider, location |-> place])
    BY <2>1 DEF StartWarnings, Start
  <2>3. job'.want = [provider |-> provider, location |-> place] /\ job'.pc = "send"
    BY <2>2, JobShape
  <2> QED
    BY <2>3 DEF WarningWell, Wanted
<1>3. CASE Ongoing \/ SaveObservations
  <2>1. job.kind = "warnings" /\ job.want \in Wanted
    BY <1>3, KindStays DEF WarningWell
  <2>2. ASSUME NEW failure \in Failures, Fail(failure)
        PROVE  WarningWell(job', records'.warnings)
    <3> DEFINE failed == [job EXCEPT !.failures = Append(@, failure)]
    <3>1. DOMAIN failed = Fields /\ failed.want = job.want
      BY <1>1 DEF Fields
    <3> HIDE DEF failed
    <3>2. CASE job' = [failed EXCEPT !.pc = "backoff"]
      <4>1. job'.pc = "backoff" /\ job'.want = job.want
        BY <3>1, <3>2 DEF Fields
      <4> QED
        BY <2>1, <4>1 DEF WarningWell
    <3>3. CASE EndWith(failed, Gone(job.kind))
      <4>1. job'.outcome = "error" /\ job'.want = job.want
        BY <2>1, <3>1, <3>3, EndShape DEF Gone
      <4> QED
        BY <2>1, <4>1 DEF WarningWell, Answers
    <3> QED
      BY <2>2, <3>2, <3>3 DEF Fail, failed
  <2>3. CASE Backoff
    <3>1. job' = [job EXCEPT !.pc = "send", !.failures = KeepFailures(@)]
      BY <2>3 DEF Backoff
    <3>2. job'.pc = "send" /\ job'.want = job.want
      BY <1>1, <3>1 DEF Fields
    <3> QED
      BY <2>1, <3>2 DEF WarningWell
  <2>4. ASSUME NEW reply \in Replies(Warnings, MaxItems), FetchWarnings(reply)
        PROVE  WarningWell(job', records'.warnings)
    <3> DEFINE told == Told(job.want, reply)
               j == [job EXCEPT !.reply = reply, !.points = told]
    <3>1. EndWith(j, "shown")
      BY <2>4 DEF FetchWarnings, Told, DatedOf
    <3>2. DOMAIN j = Fields /\ j.want = job.want /\ j.reply = reply /\ j.points = told
      BY <1>1 DEF Fields
    <3> HIDE DEF j
    <3>3. /\ job'.outcome = "shown" /\ job'.want = job.want /\ job'.reply = reply
          /\ job'.points = told
      BY <3>1, <3>2, EndShape
    <3> QED
      BY <2>1, <3>3 DEF WarningWell
  <2> QED
    <3>1. \A kinds, pc : job.kind \notin kinds => ~Is(kinds, pc)
      BY DEF Is
    <3>2. /\ ~Locate /\ ~Judge /\ ~SaveObservations /\ ~FailObservations
          /\ \A reply : ~Observe(reply)
      BY <2>1, <3>1 DEF Locate, Judge, SaveObservations, FailObservations, Observe
    <3>3. \A lost : ~Garble(lost) /\ ~FetchRule(lost) /\ ~FetchForecast(lost) /\ ~FetchChart(lost)
      BY <2>1, <3>1 DEF Garble, FetchRule, FetchForecast, FetchChart, Forecasts
    <3>4. /\ ~Unreachable /\ ~NoGuess /\ \A query : ~Guess(query)
          /\ \A endpoint, reply : ~Reply(endpoint, reply)
      BY <2>1, <3>1 DEF Unreachable, NoGuess, Guess, Reply
    <3> QED
      BY <1>3, <2>2, <2>3, <2>4, <3>2, <3>3, <3>4 DEF Ongoing
<1>4. CASE UNCHANGED job
  BY <1>4 DEF WarningWell
<1>5. CASE Disable \/ Tick \/ UNCHANGED vars
  BY <1>4, <1>5 DEF Disable, Tick, vars
<1> QED
  BY <1>2, <1>3, <1>5 DEF Next

LEMMA WarningsNext ==
  ASSUME IInv, WarningsWell, [Next]_vars
  PROVE  WarningsWell'
<1>1. CASE SaveWarnings
  BY <1>1, WarningsSaved
<1>2. CASE ~SaveWarnings
  <2>1. records'.warnings = records.warnings /\ DOMAIN records' = DOMAIN records
    <3>1. CASE UNCHANGED records
      BY <3>1
    <3>2. CASE SaveObservations
      <4>1. PICK rows : records' = [records EXCEPT !.observations = rows]
        BY <3>2 DEF SaveObservations
      <4> QED
        BY <4>1 DEF WarningsWell
    <3> QED
      BY <1>2, <3>1, <3>2, RecordsStay
  <2>2. WarningWell(job', records'.warnings)
    BY <1>2, <2>1, WarningNext DEF WarningsWell
  <2> QED
    BY <2>1, <2>2 DEF WarningsWell, KeysUnique
<1> QED
  BY <1>1, <1>2

LEMMA WarningsCorrect == Spec => []WarningsWell
<1>1. ASSUME Init PROVE WarningsWell
  <2>1. /\ records.warnings \in {<<>>, PastWarnings}
        /\ DOMAIN records = {"warnings", "observations"}
    BY <1>1 DEF Init
  <2>2. PastWarnings \in Seq(WarningRow) /\ Len(PastWarnings) <= 1
    <3> DEFINE known == {w \in Warnings : Dated(w) /\ w.number = 0}
               past == CHOOSE w \in known : TRUE
               row == WarningOf([provider |-> "hydro", location |-> Max(Places)], past)
    <3>1. CASE known = {}
      BY <3>1 DEF PastWarnings
    <3>2. CASE known # {}
      <4>1. past \in Warnings
        BY <3>2
      <4>2. [provider |-> "hydro", location |-> Max(Places)] \in Wanted
        BY DEF Wanted
      <4>3. row \in WarningRow
        <5> HIDE DEF past
        <5>1. PICK want \in Wanted : want = [provider |-> "hydro", location |-> Max(Places)]
          BY <4>2
        <5>2. WarningOf(want, past) \in WarningRow
          BY <4>1 DEF WarningRow
        <5> QED
          BY <5>1, <5>2
      <4>4. PastWarnings = <<row>>
        BY <3>2 DEF PastWarnings
      <4> HIDE DEF row
      <4>5. <<row>> \in Seq(WarningRow) /\ Len(<<row>>) = 1
        BY <4>3
      <4> QED
        BY <4>4, <4>5
    <3> QED
      BY <3>1, <3>2
  <2>3. records.warnings \in Seq(WarningRow) /\ Len(records.warnings) <= 1
    <3>1. <<>> \in Seq(WarningRow) /\ Len(<<>>) <= 1
      OBVIOUS
    <3> QED
      BY <2>1, <2>2, <3>1, Zenon
  <2>4. KeysUnique(records.warnings)
    <3>1. PICK rows \in Seq(WarningRow) : rows = records.warnings /\ Len(rows) <= 1
      BY <2>3
    <3>2. Len(rows) \in Nat /\ DOMAIN rows = 1 .. Len(rows)
      OBVIOUS
    <3>3. \A k \in DOMAIN rows : k = 1
      BY <3>1, <3>2
    <3> QED
      BY <3>1, <3>3 DEF KeysUnique
  <2>5. job.kind = "none"
    BY <1>1, JobShape DEF Init
  <2> QED
    BY <2>1, <2>3, <2>4, <2>5 DEF WarningsWell, WarningWell
<1>2. ASSUME IInv, WarningsWell, [Next]_vars PROVE WarningsWell'
  BY <1>2, WarningsNext
<1> QED
  BY <1>1, <1>2, InvCorrect, PTL DEF Spec

\* A row is found by its place and its times.
LEMMA WarningFound ==
  ASSUME records.warnings \in Seq(WarningRow), NEW k \in DOMAIN records.warnings,
         NEW w \in WarningRow, records.warnings[k] = w
  PROVE  w \in ToSet(WarningsOf(w.location, w.from, w.to))
<1> DEFINE rows == records.warnings
           Of(o) == o.location = w.location /\ w.from <= o.from /\ o.to <= w.to
           S == {l \in DOMAIN rows : Of(rows[l])}
           key == [l \in DOMAIN rows |-> rows[l].from]
<1>1. WarningsOf(w.location, w.from, w.to) = Arranged(rows, S, key)
  BY DEF WarningsOf
<1>2. rows \in Seq(WarningRow) /\ Len(rows) \in Nat /\ DOMAIN rows = 1 .. Len(rows) /\ rows[k] = w
      /\ k \in DOMAIN rows
  OBVIOUS
<1> HIDE DEF rows
<1>3. \A l \in DOMAIN rows : rows[l].from \in Int
  BY <1>2, RowDated
<1>4. k \in S
  BY <1>2, RowDated
<1>5. IsFiniteSet(S) /\ S \subseteq Int /\ S \subseteq DOMAIN rows
  <2>1. IsFiniteSet(1 .. Len(rows)) /\ 1 .. Len(rows) \subseteq Int
    BY <1>2, FS_Interval
  <2>2. S \in SUBSET (1 .. Len(rows))
    BY <1>2
  <2> HIDE DEF S
  <2>3. IsFiniteSet(S)
    BY <2>1, <2>2, FS_Subset
  <2> QED
    BY <1>2, <2>1, <2>2, <2>3
<1>6. \A l \in S : key[l] \in Int
  BY <1>3, <1>5
<1> HIDE DEF S, key
<1>7. Keyed(S, key)
  BY <1>5, <1>6 DEF Keyed
<1>8. ToSet(Arranged(rows, S, key)) = {rows[l] : l \in S}
  BY <1>7, ArrangedElements
<1> QED
  BY <1>1, <1>2, <1>4, <1>8

LEMMA WarningsAnswered ==
  ASSUME WarningsWell, job.kind = "warnings", Idle, job.outcome \in Answers
  PROVE  LET dated == DatedOf(job.reply) IN
         /\ Len(job.points) = Cardinality(dated)
         /\ \A i \in dated :
              LET w == job.points[Cardinality({k \in dated : k <= i})] IN
              w.from = job.reply[i].from /\ w.to = job.reply[i].to
         /\ KeysUnique(records.warnings)
         /\ job.outcome = "stored" =>
              \A i \in DOMAIN job.points :
                LET w == job.points[i] IN
                /\ KeyOf(records.warnings[job.previous[i]]) = KeyOf(w)
                /\ NewAt(job.trail, job.points, i) =>
                     w \in ToSet(WarningsOf(job.want.location, w.from, w.to))
<1>1. PICK reply \in Replies(Warnings, MaxItems) :
        job.reply = reply /\ job.points = Told(job.want, reply)
  BY DEF WarningsWell, WarningWell, Idle
<1>2. job.want \in Wanted /\ KeysUnique(records.warnings)
  BY DEF WarningsWell, WarningWell
<1>3. /\ job.points \in Seq(WarningRow)
      /\ Len(job.points) = Cardinality(DatedOf(job.reply))
      /\ \A i \in DOMAIN job.points : job.points[i].location = job.want.location
      /\ \A i \in DatedOf(job.reply) :
           LET w == job.points[Cardinality({k \in DatedOf(job.reply) : k <= i})] IN
           w.from = job.reply[i].from /\ w.to = job.reply[i].to
  <2>1. job.reply \in Replies(Warnings, MaxItems) /\ job.points = Told(job.want, job.reply)
    BY <1>1
  <2> DEFINE points == Told(job.want, job.reply)
             dated == DatedOf(job.reply)
  <2>2. /\ points \in Seq(WarningRow)
        /\ Len(points) = Cardinality(dated)
        /\ \A i \in DOMAIN points : points[i].location = job.want.location
        /\ \A i \in dated :
             LET w == points[Cardinality({k \in dated : k <= i})] IN
             w.from = job.reply[i].from /\ w.to = job.reply[i].to
    BY <1>2, <2>1, ToldIs
  <2> HIDE DEF points
  <2>3. points = job.points
    BY <2>1 DEF points
  <2> QED
    BY <2>2, <2>3
<1>4. ASSUME job.outcome = "stored", NEW i \in DOMAIN job.points
      PROVE  LET w == job.points[i] IN
             /\ KeyOf(records.warnings[job.previous[i]]) = KeyOf(w)
             /\ NewAt(job.trail, job.points, i) =>
                  w \in ToSet(WarningsOf(job.want.location, w.from, w.to))
  <2> DEFINE rows == records.warnings
             w == job.points[i]
  <2>1. rows \in Seq(WarningRow)
        /\ SavedWell(WarningRow, rows, job.previous, job.trail, job.points, Len(job.points))
    BY <1>4 DEF WarningsWell, WarningWell, Idle
  <2>2. i \in 1 .. Len(job.points) /\ w \in WarningRow /\ w.location = job.want.location
    <3>1. i \in DOMAIN job.points /\ job.points \in Seq(WarningRow)
      BY <1>3, <1>4
    <3>2. job.points[i] \in WarningRow /\ i \in 1 .. Len(job.points)
      BY <3>1
    <3> QED
      BY <1>3, <3>1, <3>2
  <2>3. KeyOf(rows[job.previous[i]]) = KeyOf(w)
    BY <2>1, <2>2 DEF SavedWell
  <2>4. ASSUME NewAt(job.trail, job.points, i)
        PROVE  w \in ToSet(WarningsOf(job.want.location, w.from, w.to))
    <3>1. PICK k \in DOMAIN rows : rows[k] = w
      BY <2>1, <2>2, <2>4 DEF SavedWell
    <3> QED
      BY <2>1, <2>2, <3>1, WarningFound
  <2> QED
    BY <2>3, <2>4
<1> QED
  BY <1>2, <1>3, <1>4

THEOREM WarningsCompleteCorrect == Spec => []WarningsComplete
<1>1. ASSUME WarningsWell PROVE WarningsComplete
  <2> SUFFICES ASSUME job.kind = "warnings", Idle, job.outcome \in {"shown", "stored"}
               PROVE  WarningsComplete
    BY DEF WarningsComplete
  <2> DEFINE dated == {i \in DOMAIN job.reply :
                         Unreadable \notin {job.reply[i].from, job.reply[i].to}}
  <2>1. dated = DatedOf(job.reply)
    BY DEF DatedOf, Dated
  <2> HIDE DEF dated
  <2>2. /\ Len(job.points) = Cardinality(dated)
        /\ \A i \in dated :
             LET w == job.points[Cardinality({k \in dated : k <= i})] IN
             w.from = job.reply[i].from /\ w.to = job.reply[i].to
        /\ KeysUnique(records.warnings)
        /\ job.outcome = "stored" =>
             \A i \in DOMAIN job.points :
               LET w == job.points[i] IN
               /\ KeyOf(records.warnings[job.previous[i]]) = KeyOf(w)
               /\ NewAt(job.trail, job.points, i) =>
                    w \in ToSet(WarningsOf(job.want.location, w.from, w.to))
    BY <1>1, <2>1, WarningsAnswered DEF Answers
  <2>3. \A i : /\ \A k \in 1 .. i - 1 : KeyOf(job.points[k]) # KeyOf(job.points[i])
               /\ \A w \in ToSet(job.trail) : KeyOf(w) # KeyOf(job.points[i])
               => NewAt(job.trail, job.points, i)
    BY DEF NewAt, ToSet
  <2> QED
    BY <2>2, <2>3 DEF WarningsComplete, KeysUnique, dated
<1> QED
  BY <1>1, WarningsCorrect, PTL

\* Nothing is missing from an answer that was to be had, and what is kept of it is
\* found again: the three together.
THEOREM AnswersCompleteCorrect == Spec => []AnswersComplete
BY ForecastsCompleteCorrect, ObservationsCompleteCorrect, WarningsCompleteCorrect, PTL
   DEF AnswersComplete
=============================================================================
