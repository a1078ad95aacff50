# Weather agent: specifications and proofs

TLA+ modules that model the weather agent's stateful parts, TLC runs that check
them on small instances, and TLAPS proofs of what holds for every value of the
constants. Paths are relative to `src/src/weather_agent/` unless they begin with
`src/`.

## 1. The system

A Telegram bot and a worker share one PostgreSQL database.

* The **bot** (`cmd/bot.py`) answers messages: a language model with tools reads
  forecasts and warnings, manages saved locations, and proposes notification
  rules that the user confirms.
* The **worker** (`cmd/worker.py`) wakes every `rule_evaluation_minutes`, finds
  the rules that are due, fetches a forecast for each, evaluates the rule's
  expression and sends a Telegram message where it holds.

### Inventory

| Component | State | Operations | What is hard | What makes it correct |
|---|---|---|---|---|
| Worker (`infrastructure/worker/rule_evaluator.py`, `coordination.py`) | the claimed rules, the candidates, one database session | `_claim_due_rules`, `_evaluate_due_rules`, `_deliver_notification`, `run_loop` | lock released before the work; a commit per evaluation but one for all deliveries; crash between send and commit | one message per key; one evaluation per slot; a cycle always ends |
| Events and deduplication (`domain/notifications/`) | `notification_events` with a partial unique index | `create_event_once`, `mark_sent`, `mark_suppressed`, `should_suppress` | waits on other transactions, leases, stale reads, inclusive bounds | one active row per key; sent is final; cooldown kept |
| Telegram sender (`adapters/telegram/http_sender.py`) | none | `send` | a lost reply looks like a refusal | the ledger agrees with the chat |
| Rules and schedules (`domain/rules/`) | `notification_rules`, `rule_evaluation_runs` | create, update, disable, delete, due check, last cron slot | slots against polling, foreign keys of runs | slots neither repeated nor skipped; no second identical scheduled rule |
| Rule tools (`llm/tools/rules_tools.py`) | one pending confirmation per chat thread | propose, confirm, cancel, delete, schedule | a yes that confirms another proposal; failure between save and clear; rerun tools | at most one rule per confirmed proposal |
| Conversation (`application/`, `infrastructure/memory/`) | pending slot with 14 day expiry, the last 20 turns | handle a message, fall back to a second model, save a turn | timeouts that race the tools they started | whole turns in order; the slot holds what the user saw last |
| Locations (`domain/locations.py`, `llm/tools/weather_tools.py`) | `locations` | create, update, enable, disable, delete, default, resolve | names and aliases in one space, disabled rows | unambiguous names among enabled rows; at most one default |
| Authorization (`domain/auth.py`, `infrastructure/repositories/auth_repository.py`) | `authorized_users`, invite codes, in-memory allowlist | redeem, add, remove, is authorized | concurrent redeem, expiry, two sources of truth | a code admits one user; whoever is on record is served |
| Forecast fetching (`infrastructure/worker/forecast_fetcher.py`, `adapters/open_meteo/`) | `forecast_snapshots` | request with retry, parse, store | which failures are retried; gaps in parallel arrays; local days in a request for days of UTC | bounded attempts; every value at its hour; no hour missing that was to be had |
| Warnings, observations (`adapters/imgw/`, `infrastructure/repositories/`) | `official_warnings`, `observations` | fetch with retry, parse, merge, find | warnings without a number, known warnings, unreadable dates | one row per key; nothing dropped, everything found again |
| Geocoding (`infrastructure/geocoder.py`, `infrastructure/locationiq_candidates.py`) | none | search, autocomplete, a guess of a model, ranking | which failure ends the chain | the best candidate is chosen; the model is asked last, and once |
| Rule expressions (`domain/rule_expression/`) | none | time ranges, metric functions over points, validation | missing values, empty ranges, local days | the verdict is what the expression means |
| Retention (`infrastructure/jobs/retention.py`) | all aged tables | seven cleanups | foreign key order | the log stays explainable; what was done is not done again |
| Health (`api/health.py`) | none | readiness | age boundaries | a worker that runs well is ready |
| Process lock (`infrastructure/utils.py`) | pid file | acquire, release | a file that survives its process | a container starts again |

The components interact through the database (rules, runs and events are written
by both processes) and through Telegram. There are no other channels between the
bot and the worker: the worker learns of an edited rule at its next claim.

## 2. Plan

Order: most important first; each module is written to be proved about, unless it
computes with data.

1. `NotificationDelivery`: worker, events, deduplication and sender on the shared
   tables, with crashes, aborted transactions, lost replies and users.
   `NotificationContract`: what the pipeline promises; refined where nothing
   crashes. `NotificationDeliveryProofs`, and `NotificationOnceProofs`, mostly for a
   system in which nothing fails.
2. `RuleConfirmation`: a turn of the conversation, the pending slot, its tools,
   expiry, history, and a fallback model that runs the tools again.
   `RuleConfirmationProofs`.
3. `Locations`, `LocationsProofs`: the name space, the default, edits and removals.
4. `Access`, `AccessProofs`: invite codes, the list of users in memory and the table,
   two bots at once, the pid file.
5. `RuleHistory`, `RuleHistoryProofs`: the worker over days, with the slots of cron:
   rules, the windows of forecasts, retention and readiness.
6. `RuleExpression`, `RuleMeaning`, `PlaceSearch`, `WeatherRequests`: requests to the
   outside world, from the question to the verdict or the answer.
   `RuleMeaningProofs`: what is computed is what is meant. `WeatherRequestsProofs`: how
   often is asked, why it ends, which place is chosen, what an answer says and what is kept.

All six are done. What would come next:

* the days on which the clocks change, with the local time they repeat or leave out;
* the composition of `RuleHistory` with two workers, and with the users' edits.

## 3. Modules

### NotificationDelivery

The committed state is `live`, `enabled`, `expr` (`notification_rules`), `runs`
(`rule_evaluation_runs`, the times of a rule's runs in order) and `events`
(`notification_events`). A worker has a program counter, the end of its sleep,
its Python locals (`mem`) and its open transaction (`rows`: event rows written;
`off`: rules disabled). `inbox` is a history variable: what Telegram delivered.

| Action | Code |
|---|---|
| `LockBusy`, `ListRules` | `pg_try_advisory_lock`; `list_all_enabled_rules` |
| `CheckDue`, `ClaimRaises` | `_is_rule_due` for the next rule; two runs in a slot raise |
| `ReleaseLock` | the `finally` of `_claim_due_rules` |
| `Evaluate` | refresh, `_finish_evaluation`, the run and its commit; or exception and rollback |
| `SkipTwin`, `Decide` | head of the delivery loop, `should_suppress` |
| `Look`, `Reclaim`, `ReclaimConflicts`, `Insert` | `create_event_once`: select, stale row, insert in a savepoint |
| `Send` | `send` and the `mark_...` after it (one step: neither is visible to others before the commit) |
| `Disable`, `Commit` | `disable_rule` of a once: rule; the only commit of the delivery loop |
| `Abort`, `Crash` | exception caught by `run_loop`; restart by the container runtime |
| `EditRule`, `DeleteRule` | what the rule tools do to a rule in use |
| `Tick`, `Horizon` | the clock; the end of a bounded run, so that deadlock stays an error |

READ COMMITTED is modelled by `Visible(w)`: the committed rows with the worker's
own in their place. The unique index is `Taken` (the statement fails) and
`KeyFree` (it waits while another transaction holds a row of its key). A window
is `WindowOf(t)`: a forecast request names whole UTC days, so all forecasts of a
day have the same first and last point.

A lost reply is counted (`lost`), as crashes and database errors are; each has a bound.

Abstracted: texts, metrics, traces, audit rows; the verdict of an expression and
the failure of a refresh are free choices. `snooze_until` is a constant because
only a method of the rule service sets it, and nothing in `src/` calls that;
`dry_run` is left out for the same reason. `cooldown_minutes` is one value for
all rules. A commit that fails after a message was sent is an `Abort`. The
advisory lock is released at the end of a claim in any case: a release that
fails in an aborted transaction is not modelled. The IntegrityError handler that
finds no active row and re-raises is an `Abort`.

Operators marked "Mutant" are not used: each is the form its neighbour would have
with a plausible mistake, and each is caught by a property of some run.

### NotificationContract

What the users are promised: a key is delivered at most once, is recorded only if
it was delivered, its record is never taken back, and every delivery is
eventually recorded. The mapping reads `delivered` off the chat and `recorded`
off the committed sent rows (`NotificationDelivery!ImplementsContract`).

### NotificationDeliveryMC, NotificationDeliveryProofs

Constant values for TLC; theorems.

### RuleConfirmation

One user with several chat threads. `db` holds the committed tables (`slot`,
`rules`, `history`, `savedAt`); `tx` is the same as the open transaction of the
turn sees it, and `turn` says how far that turn is. A turn is one transaction:
`Save` publishes `tx`, and whatever ends the turn before it discards `tx`.
`evaluated` and `disabled` are what the worker writes about rules.

The updates of a bot are handled one after the other: the `Application` is built
without `concurrent_updates` (`adapters/telegram/bot.py:58`), and the tools of a
turn run under one lock. Hence one `turn`, with the worker beside it.

| Action | Code |
|---|---|
| `Receive` | the head of `_handle_reply_with_session`: "tak" or "nie" with a proposal pending is handled directly, everything else goes to the model after `load_turns` |
| `DirectConfirm`, `DirectCancel`, `DirectConfirmRaises` | `_handle_direct_confirmation`; the exception of a refused DELETE leaves `handle_reply` |
| `ProposeNew`, `ProposeEdit`, `ProposeDelete` | `propose_notification_rule`, `schedule_notification`, `delete_notification`: a proposal overwrites the slot |
| `AgentConfirm`, `AgentCancel` | the two tools called by the model; after a failed statement every later tool only returns its error (`aborted`) |
| `Answer`, `AgentFails` | the end of the model's rounds; timeout or error, with or without the fallback model, which starts anew on what the tools have written |
| `Save` | `save_turn` twice and the commit; in an aborted transaction COMMIT rolls back without an error, and the user is answered as if nothing happened |
| `Reply` | `reply_text`; its failure is counted and nothing else |
| `SessionLost`, `Crash` | the session cannot commit (also after a timeout cancelled a statement); restart with `drop_pending_updates` |
| `WorkerEvaluates`, `WorkerDisables` | the rows and flags the worker writes meanwhile |

`Confirm` has one disjunct per branch of `_execute_confirm`: nothing pending,
create, schedule with and without a matching rule, edit of a rule that exists or is
gone (which leaves the slot as it is), no location, delete of a rule that exists or
is gone.

Histories: `log` (the proposals executed), `dropped` (those cancelled, replaced,
expired or void), `heard` (the last proposal shown per thread) and `proposals`.
`log` and `dropped` belong to the tables, so that a rollback takes them back.

Abstracted: an expression is a model value; location, schedule and context of a
rule are one with it. Whether a location is resolved, at the proposal or by the
default at the confirmation, is a free choice. A message is one of four words:
the direct yes and no, a free-form agreement and anything else. A tool call of
the model is one round. `Obedient` is the prompt: the model proposes and then
waits, confirms only when the user agrees, and shows the proposal it made. Where
it is FALSE the model may call anything at any time.

### RuleConfirmationMC, RuleConfirmationProofs

Constant values and symmetry for TLC; theorems.

### Locations

The locations of one user. `db` holds the committed rows, `tx` the rows as the
open transaction of a turn sees them, `busy` says that a turn is open. A name is
what `normalize_for_matching` makes of it, so that two spellings that match are
one name. A row is an id, a name, its aliases and the enabled flag.

| Action | Code |
|---|---|
| `SaveLocation` | `save_location`: at most one alias, an empty one is none; a clash is answered, not raised |
| `ResolveForRule` | `_resolve_location` of the rule tools: what is not known is geocoded and saved under the geocoder's name, with the query as alias |
| `DodajLok` | `/dodaj_lok`: the alias "dom", a session of its own |
| `EditLocation` | `edit_location` and `update_location`: three outcomes, one of them half done |
| `RemoveLocation` | `remove_location`: disables the row |
| `Commit`, `Lose` | the end of the turn's transaction |

`Resolve` is the set of rows `resolve_location` may find: its query is not
ordered, so that its loop picks any of them; `ResolutionUnique` says there is
only one. `Default` is ordered by id. Which location an edit means is a free
choice among the enabled ones, because `_find_saved_location` also accepts ids.

Coordinates, descriptions and the failure of the geocoder (which changes
nothing) are left out. `enable_location` and `delete_location` are not modelled:
nothing in `src/` calls them.

### LocationsMC, LocationsProofs

Constant values and symmetry for TLC; theorems.

### Access

The bots, each in a container of its own, with the rows of `authorized_users`
(`users`), the codes (`invites`), and per bot the configured list (`env`), the list
in memory (`allowed`, `admins`), the pid file (`file`) and the redemption it is
handling (`proc`). Two bots at a time are what a deployment that overlaps has, and
what the `FOR UPDATE` of the repository is for.

| Action | Code |
|---|---|
| `Boot`, `Stop`, `Kill`, `Recreate` | `acquire_lock` and the `finally` of `cmd_bot`; a kill leaves the pid file, a new container has none |
| `Load` | the configured users and `list_users`, all of them as administrators |
| `Kod`, `Converse`, `Ask` | `/kod`; a message of somebody known; `/start` with a code |
| `LockInvite`, `SelectUser`, `InsertUser`, `Commit`, `Remember` | `redeem_invite_code` statement by statement, with the waits for the other transaction; `add_authorized_user` after the commit |
| `CommitUnanswered`, `StatementFails` | a commit whose answer is lost; an exception and the rollback |

A code that `/kod` would draw twice is left out (eight random characters). The pid file of a
killed process is respected for as long as its pid exists, and the first process
of a container always has pid 1.

### RuleHistory

The worker over days. `snapshots`, `runs` and `events` are the tables; a row is known by
its rule and the instant it was written, which is also what the foreign keys between
them refer to; `others` stands for the tables nothing refers to. `slept`, `evaluated`,
`told` and `calm` are histories.

| Action | Code |
|---|---|
| `Claim` | `_claim_due_rules`, after the sleep has ended: `IsDue` is `_is_rule_due` with the last slot, its window and what was done since |
| `Evaluate`, `RefreshFails`, `EvaluationRaises` | `_evaluate_single_rule`: with a forecast, without one, rolled back |
| `Deliver` | the delivery loop with `create_event_once`, the cooldown, refusals and the commit, in one step |
| `Crash`, `Restart` | the process before its delivery loop |
| `RunAllCleanup`, `CleanupFails` | `run_all_cleanup`, all or nothing |
| `CleanupRawForecasts`, `CleanupTraceData`, `CleanupNotificationLog`, `CleanupOther` | each cleanup on its own |
| `Tick` | the clock: a claim comes at most `MaxLatency` after the sleep, a cycle lasts at most `MaxDuration` from then on |

A claim never reads the clock at the instant its sleep was to end: `asyncio.sleep`
(`infrastructure/worker/rule_evaluator.py:671`), the query of the advisory lock (`:121`) and the
SELECT of the rules (`:127`) come before it (`:128`). The guard of `Claim` is therefore
`now > worker.wake`, and the delay is any number up to `MaxLatency`.

There is one worker here. What two do to each other, and what a crash does inside
the delivery loop, is in `NotificationDelivery`. A forecast covers whole UTC days from
the day of `now - Lookback` on, so that its window is a pair of days. `Ready` is
`build_status` of the worker.

Nothing in `src/` calls `RetentionService`; the cleanups may happen at any moment.

### RuleExpression, RuleMeaning

`RuleExpression` computes what the code computes: the time ranges, the points in a
range, the functions of the registry with their errors, validation by a trial, and the
verdict of one comparison. `RuleMeaning` says what the same expressions mean by the words of
`FUNCTION_SPECS`: which hours a range is about (`Covers`, on local days and times of day,
without limits to compute), and what a function says of a set of hours and a number for each,
without lists, indices or sorting. Neither takes anything but the calendar and the comparisons
from the other.

Where Python filters or sorts, `Chosen` and `Arranged` say which
element comes to which place by counting those before it: `SelectSeq` and `SortSeq` have no
definition the prover could expand, and the second leaves the order of equals open, which
Python does not.

A tick is even on the hour, odd between two hours. Local time is UTC plus a constant:
days on which the clocks change are left out, as are CEL's connectives and macros
(but for `filter` in the rain alert's form) and half hours in `between()`. A standard
deviation is compared by its square.

### PlaceSearch

`Score` and `select_best_candidate` over what a candidate's fields come to.

### WeatherRequests

One job at a time from its start to its answer: a rule's forecast and verdict, a
forecast, a chart, observations, warnings, or a place. `job` holds its program
counter, its failures and what it has read; `snapshots` and `records` are tables.

| Action | Code |
|---|---|
| `StartRule`, `Locate`, `Disable` | validation; `fetch_fresh_forecast` and the location's flag |
| `AskForecast`, `AskChart`, `StartObservations`, `StartWarnings`, `StartPlace` | the tools, and the providers' entry points |
| `Fail`, `Backoff` | `_request_with_retry` of both adapters |
| `Garble`, `FetchRule`, `FetchForecast`, `FetchChart` | `_parse_response` of an answer with one flaw, and what is done with it |
| `Judge` | `_finish_evaluation`, with the points stored for the snapshot before |
| `Observe`, `FailObservations`, `SaveObservations` | `ImgwSynopProvider`, `ObservationRepository` |
| `FetchWarnings`, `SaveWarnings` | the warnings providers, `WarningRepository` |
| `Reply`, `Unreachable`, `Guess`, `NoGuess` | `geocode`, `_try_query`, `_ask_llm` |

Jobs meet in the tables only, so that one job on any past of the tables shows what
several would; `trail` keeps the rows that were there before a save. The database is new, holds a header without points (as the worker
leaves it), or one with points (as older versions left it); the latter two hold a warning
and an observation, too. `Disable` and `Tick` happen
right before the only actions that look at what they change. An answer has at most
one flaw: an unreadable time, a null, a value that is no number, a short or a missing
list. A value is the set of the numbers it could be: one, none for a null, two for
what is no number. The words of a query are not blank, because its callers strip them
(`llm/tools/weather_tools.py:300`).

`WarningRepository`, `ObservationRepository`, the warnings providers and
`snapshot_comparison` have no callers in `src/` but the tests; saving what was fetched is
what their interfaces are for.

### AccessMC, RuleHistoryMC, WeatherRequestsMC, AccessProofs, RuleHistoryProofs, RuleMeaningProofs, WeatherRequestsProofs

Constant values for TLC; theorems.

## 4. Runs

| Run | Instance | Shows |
|---|---|---|
| overlap | 2 workers, 1 rule, 2 expressions, 1 edit, refusals, 3 instants, fairness | `DeliveredOnce`, `LedgerMatchesInbox`: overlapping cycles never deliver a key twice and never record what was not delivered; `ImplementsContract`, with its liveness |
| faults | 2 workers, 1 cron: rule, a legacy row, 1 crash, 1 database error, 1 lost reply, refusals, 3 instants in 2 slots | `ResendsExplained`: a message is repeated once per crash, database error, lost reply or legacy row at most; `ActiveKeyUnique`, the inductive invariant `TransactionsAgree`, and `SlotRunsBounded`, with the MultipleResultsFound branch; `TypeOK` |
| once | 2 workers, 2 twin once: rules, refusals, fairness | `OnceSettled`: disabled exactly with the record of the rule or its twin; `CycleEnds`: rules are met in id order, so the waits have no cycle |
| single | 1 worker, a snoozed rule and a cron: rule, a legacy row, an edit, failing evaluations, refusals, 5 instants in 3 windows and 2 slots | `CooldownRespected`, `SentIsFinal` |
| confirm_faults | 2 threads, any model, fallback, lost sessions, lost replies, crashes; 3 messages, 2 proposals, 2 rounds | `OneFate`, `OneRulePerProposal`, `HistoryPaired`, `TypeOK` and the inductive invariant `ProposalsTracked` |
| confirm_talk | 1 thread, obedient model, 4 messages, 3 proposals, schedules, worker, time past the lifetime | `UnderstoodConfirm`, `NothingStale`, `NoScheduledTwins` |
| confirm_delete | a rule the worker has evaluated | expected violation of `ConfirmedDeletionDeletes` |
| locations_turns | 3 names, 3 locations, 1 edit or removal | `TypeOK`, `ResolutionUnique`, `DefaultKept` and the inductive invariant `LocationsApart` |
| access_invites | 2 bots, 2 users, 2 codes, 2 configured lists, 1 kill, 1 deployment, 1 fault, a code expires, fairness | `OneUserPerCode`, `AccessBacked`, `StrangersExplained`: admission under races, failures and restarts; `RedemptionEnds`: the row locks have no cycle; `TypeOK` |
| history | a cron: rule with a slot a day and an unscheduled rule, days of 4 instants, 10 instants of work, claims 1 or 2 instants after the sleep, 2 troubles or cleanups | `SleepLosesOnlyItsStart`: a slot in a sleep is claimed, unless it lies in its first instants, as many as the claim may be late; `SlotEvaluatedOnce`, `OneMessagePerWindow`, `LogExplainable`, `ReadyWhileCalm`, `TypeOK` |
| requests | days of 4 hours, local time 2 hours ahead, 23 expressions over every function and range, 10 answers, 9 of them flawed, 2 places, 4 stations (near, at the radius, too far, unlisted), 6 warnings, 5 candidates, 1 job on a new database or on one with rows | `VerdictJustified`: the verdict is what the expression means of the hours its range is about, whatever is missing; `AnswersComplete`: nothing that was to be had is missing from what is answered, and what is kept is found again; `RequestsExplained`; `JobAdvances`: no chain of retries and fallbacks goes round in a circle; `TypeOK` |
| comparison | one expression that compares two forecasts, two jobs | expected violation of `ComparisonEvaluates` |

Bounds. Two workers are enough for every race of the code: each wait and each
conflict is between one transaction and another, and the proofs lift the ledger
properties to any number. `MaxTime` lets every run have a second cycle of the
same worker and, where windows, cooldowns or slots matter, at least two of them;
`Interval` is 1 or 2, so that a cycle may overlap the next one of the other
worker. One crash, one database error and one lost reply reach every
program counter and follow one another in every order; the proofs cover any number of them. Two rules are used where the
order of rules matters (once, single), one where only keys do.
Workers are symmetric in `faults`, which has no fairness. `Horizon` keeps the deadlock check
meaningful: a worker that waits for ever is an error.

In the conversation, two proposals are enough for one to replace the other, three
for a replacement after a confirmation; a proposal and its confirmation take two
messages, a repetition three to five. Two rounds let a model propose and confirm
in one turn, and the fallback doubles them. Two threads show that slots do not
mix. `MaxHistory` is 4: two turns fit, the third makes the list trim. The clock
passes the lifetime only where expiry matters (`confirm_talk`); the proofs cover
the rest. `Silence` keeps the deadlock check meaningful.

Of locations, three are enough for a clash between two beside one that is the
default, three names for one that is free, one that is taken and "dom". Names
other than "dom" are symmetric. One edit or removal suffices for every way of
making room for a name or an alias; the proofs cover longer histories.

Two bots suffice for every race over a code or a user, because each wait is for one
other transaction; two users and two codes for a code that admits the wrong one, and a
user who tries two. The proofs cover any number. One fault is either a failing
statement or a lost answer.

In `history` a cycle starts 3 to 6 instants after the one before and a day has 4, so that
slots fall before, at and inside sleeps and cycles, a claim is late by one instant or two, and
a rule meets the window of a day more than once. Runs are kept for a day, notifications and
forecasts for two: rows expire while the worker still runs, in an order that the foreign keys
refuse and in others. Two disturbances let a cleanup follow a crash, a failed refresh or
another cleanup.

In `requests` the starts of a job lie before and after local midnight, midnight of UTC and
the weekend, on the hour and between two hours. An expression sees a flaw at the first,
a middle and a late hour. Lists of up to two items (`MaxItems`) show every merge and every
ranking; the third station of a reply cannot change the order of the other two.
One job is enough, because every job starts from the same `Job` record and only the tables
are left of it: `Init` has a warning and an observation on record, so that a job meets what
another has saved before, for the same place or for the other one. `Rest` keeps the
deadlock check meaningful: a job that gets stuck on its way is an error, and one that does
not comes to its end by `JobAdvances`.

Fairness. `WF(Step(w))` for each worker and each bot: asyncio, PostgreSQL and the
restart policy run every step that can run. None for the requests. Nothing is assumed of crashes, database errors, users, services or time. A
wait for another transaction ends when that transaction does; weak fairness
suffices because the key stays free or taken once the other worker sleeps.

Deadlock is checked in every run but `comparison`, which stops after its jobs.

### What the expected violations say

* **confirm_delete**: a rule with a run cannot be deleted, its runs refer to it and
  the foreign key has no ON DELETE. The exception ends the turn without an answer;
  proposal and rule stay, and the next "tak" repeats it.
* **comparison**: the worker saves the header of a snapshot only
  (`infrastructure/worker/forecast_fetcher.py:95`), so that there is nothing to compare
  with: the rule of `src/README.md:220` is accepted, and each of its evaluations ends in
  an error (`domain/rule_expression/evaluator.py:270`).

### What else the modules say

Of notifications:

* The send precedes the commit of its record (`infrastructure/worker/rule_evaluator.py:617`).
  A crash between them, or an exception at a later candidate, sends the message
  again, where `src/docs/domain-vocabulary.md:43` wants duplicates prevented. With
  `MaxCrashes = 1` in `overlap`, `LedgerMatchesInbox` fails, and so does `DeliveredOnce`.
  `ResendsExplained` says how far this goes: no message is repeated without a crash, a
  database error or a lost reply of its own, or a row of the migration that another worker
  had settled in between.
* The rules are read at the claim, so that a rule edited during the cycle is evaluated and
  delivered as it was (one that was deleted fails, because its run has no rule to refer to).
  No document promises otherwise.
* A slot is due for `rule_evaluation_minutes`, and the next claim comes that long and a bit
  after the sleep began, because the clock is read after the sleep and two queries, and the
  age of the slot is compared with `>` (`infrastructure/worker/rule_evaluator.py:209`). So a
  slot is lost in the first instants of a sleep, inside a cycle after its claim, and while
  the process is down. `SleepLosesOnlyItsStart` says that what a sleep loses is no more than
  the delay of the claim after it.
* With two workers and a window that changes between their cycles,
  `CooldownRespected` fails: both read the cooldown before either commits. With two
  workers and a cron: rule a slot may be evaluated twice: the lock protects the claim, not the
  evaluation; after that `scalar_one_or_none` raises in every claim of the slot's
  window, for all rules (`faults` reaches this and shows that there is no third
  run). The shipped composition starts one worker.
* A rule's `dry_run` flag is not read by the delivery loop at all, which looks at the
  argument of `evaluate_rules`.
* All forecasts of a UTC day have one window, so that a rule with several slots a day
  is silent after its first message of the day. `OneMessagePerWindow` counts on events
  that are kept for two days.
* Runs are kept for 14 days and the events that refer to them for 365
  (`src/.env.example:48`): with these defaults `run_all_cleanup` fails as a whole as soon as
  one event is older than its run's days (`CleanupFails`).
* `WorkerThreshold` grows with the interval and `ForecastStale` does not: with an
  interval above an hour a worker that runs well can be reported as not ready. So can one
  that has daily rules only, since a cycle without a rule that is due leaves no run.

Of the conversation and of locations:

* The proposal is committed before the reply that presents it
  (`adapters/telegram/handler.py:97`). When that reply is lost, the slot holds something the
  user has not seen, and the next "tak" activates it (`"reply"` among the `Faults` of
  `confirm_talk`).
* `confirm_pending_action` is offered to the model like any other tool and checks
  neither the user's word nor the turn of the proposal
  (`llm/tools/rules_tools.py:351`). Only the prompt forbids it to confirm its own proposal.
* `update_location` assigns the new name, then compares the aliases
  (`domain/locations.py:191`). The tool catches the conflict and answers that nothing was
  done; the turn's commit stores the new name.

Of access:

* When the answer to the commit of a redemption is lost, the user is told both that he
  has access already and that he has none, until the bot is restarted.
* After a restart every user on record is an administrator.
* A bot that was killed leaves its pid file, and the next process of the same container
  finds its own pid, 1, in it and exits (`infrastructure/utils.py:16`), until the container
  is created anew. `src/README.md:47` says that services survive a reboot of the host.

Of requests:

* `between()` "constrains a time range to a local HHMM-HHMM interval"
  (`domain/rule_expression/registry.py:105`). The code (`evaluator.py:98`) ignores the end of the
  range, puts the two times into the day its start is on and keeps the seconds of that start.
  For a day, `today()` or `tomorrow()`, that is what the registry says. For any other argument
  it is not: `between(weekend(), ...)` is about Saturday only, and `between(next_hours(3), ...)` or
  `between(now(), ...)` about hours of the day that lie before now or after the range. No other
  text says what these should be, so `VerdictJustified` asks nothing of them (`Constrains`),
  and no run has one.
* On a Sunday `weekend()`, "the next Saturday-Sunday window", is the one that is nearly over.
* The range of `now()` holds a point only exactly on the hour; a metric without a function is
  that of the first point of the forecast; `weather_code` without a function is text, and an
  error.
* Local dates are sent as dates of UTC: the first hours of a local day are missing from
  a chart, a forecast and `today()` (`ForecastsComplete` asks of a chart the hours from
  midnight UTC of its first day on).
* A connection that fails ends a geocoding, while a timeout goes on to the next endpoint.
  Without an API key the model is still asked for a name nothing will be searched for.
* A provider of warnings returns all of them, whatever the place and time asked about. A
  known warning keeps its first place and end, so that the same one for another location
  is not found there. Hydrological warnings with the same event and start are one,
  whatever their degree.
* A percentile below zero is accepted and counts from the end of the list, as Python's
  indices do. `RuleMeaning` gives it no meaning, and `WeatherAssumption` leaves it out.

## 5. Proofs

Where a theorem has a hypothesis, it is the weakest one we know of: each is named in the
module that uses it, said below with what in the code makes it true or false, and TLC finds a
counterexample without it.

`NotificationDeliveryProofs` proves, for any set of workers, any positive rule
ids, any schedule, timing and number of faults (`ParamAssumption`):

* `TypeCorrect`: `Spec => []TypeOK`.
* `TransactionsAgreeCorrect`: `Spec => []TransactionsAgree`, the inductive
  invariant, and from it
* `ActiveKeyUniqueCorrect` and `SettledAtCommitCorrect`.
* `SlotRunsBoundedCorrect`: `Spec => []SlotRunsBounded`, if the workers are finitely many.
* `OnceSettledCorrect`: `Spec => []OnceSettled`, if migration 003 left no row of a once:
  rule (`NoOnceLegacy`: `create_event_once` takes such a row for a message on its way, and
  the rule is disabled although nothing records that it was delivered).

`ActiveKeyUnique` is not inductive: a commit publishes rows that were checked
when they were written, so the invariant has to say that nothing which happened
since has made them clash. `TransactionsAgree` says so in named parts: ids are
fresh and unique (`IdsFresh`, `IdsUnique`), two open transactions hold no common
key (`KeysExclusive`, by the waits), an active row has no active row of its key in
its own worker's sight (`KeysVisible`, by the index), only the row being sent is
not final (`RowsFinal`), and a row about to be reclaimed is not the worker's own
(`ReclaimForeign`, because its own rows are final by then). The proof has one
lemma per kind of step: no row written (`AgreeFrame`, `AgreeFinish`), rollback
(`AgreeRollback`), a row taken (`AgreeHold`), its result (`AgreeSend`), commit
(`AgreeCommit`), deletion (`AgreeDelete`).

`SlotRunsBounded` counts: there are never more runs in a slot than workers, because
the lock protects the claim, not the evaluation, so that each worker may add one run it
claimed before it could see the others. `SlotInv` says why that is all (`SlotRoom`): the
runs of the current slot, and the workers that will still evaluate the rule
without looking again (`Claimants`), are together at most the workers. A worker joins
`Claimants` only in `CheckDue`, which finds no run in the slot, so that until then the sum
counts workers only; an evaluation moves one from the second set to the first; a tick into a
new slot leaves all runs behind (`ClaimPast`, `SlotRuns`). Neither crashes nor aborted
deliveries break this: runs are committed on their own.

`OnceSettled` relates a flag and a row that different statements write. `SettleInv`
says that it holds of the committed tables (`LedgerSettled`, `EnabledSettled`) and of what every
open transaction would make of them (`WorkerSettles`): the rule of an open row is disabled by
the same transaction or about to be (`RowsDisabled`), and a rule is disabled only when the
worker sees a row of it or of its twin (`OffRecorded`), also when the candidate is skipped
because the cycle has met the twin before (`SeenRecorded`). It does not need `Faultless`: the row and
the flag are rolled back together, so that crashes, aborted loops and lost replies, which
the run `once` has none of, change nothing. It does need that twins are of one kind
(`TwinAssumption`).

`NotificationOnceProofs` proves of any number of workers, with refusals, failing
evaluations and users' edits:

* `SentIsFinalCorrect`: `Spec => SentIsFinal`, whatever crashes, aborts or is lost, if
  migration 003 left no row or there is one worker (`LegacyAlone`);
* `ResendsExplainedCorrect`: `Spec => []ResendsExplained`, likewise, for any number of crashes,
  database errors and lost replies, if the workers and the rows of the migration are
  finitely many;

and where nothing fails (`Faultless`: `LegacyAlone`, no crash, no database error in the delivery
loop, no lost reply):

* `DeliveredOnceCorrect`: `Spec => []DeliveredOnce`.
* `LedgerMatchesInboxCorrect`: `Spec => []LedgerMatchesInbox`.
* `ContractSafe`: `Spec => Contract!Spec`, the refinement of `NotificationContract`
  without its fairness.
* `CooldownRespectedCorrect`: `Spec => []CooldownRespected`, with one worker.

A crash, an aborted delivery loop and a lost reply can each resend a key: the message is
out while its record is rolled back or suppressed. A pending row of the migration that two
workers find breaks more: the later UPDATE overwrites the `sent` that the earlier one has
committed, and reclaiming a row that another worker has suppressed and replaced raises
(`ReclaimConflicts`), which rolls back what the cycle has sent before. The assumptions are
not there for the proof: they are where the properties hold.

`Steady` is what no failure disturbs. It adds to `TransactionsAgree` who is where holds what
(`Quiet`), that a cycle has one candidate per rule (`OnePerRule`), that the row which is being
sent, or about to be reclaimed, has the key of its candidate (`HeldKey`, `ReclaimKey`), that
every row's rule has runs and so cannot be deleted, unless the row waits since the migration
(`RanHere`, `EventsSteady`), and that an open row has an id of its own or is the next version of
one that waits (`RowsNew`). No crash leaves a stale row, because a row is never committed before it
is settled (`SettledAtCommit`); so the lease and the reclaim of `create_event_once` only ever
serve the rows of the migration, and `SentIsFinal` follows.

`Accounted` counts. A key has been delivered as often as there were reasons to repeat it, once more
if it has a sent row, committed or open, and not once more if it has none. A send without a
sent row of its key before it, which is all there are (`KeyUnsent`), makes one or loses its reply;
a rollback takes sent rows back and is a reason itself; a commit and a deletion keep them. With
several workers and rows of the migration the same bound, with `Overwrites` in it, is
model-checked only.

`Once` adds the ledger and the chat, which are one invariant, since a message can only be
shown to be new by the rows that record the earlier ones. `KeyUnsent` is the heart: whichever
row of the key of the current send were sent already, in this transaction, another one or the
table, `KeysVisible` or `KeysExclusive` would be false. `ContractSafe` maps a send to `Deliver` or
a stutter and a commit to `Record` or a stutter, and every other step to a stutter; it also needs
that the windows of candidates lie within the bounded run (`WinsBounded`). `Cool` carries what
`should_suppress` has read from there to the send: the rule of a candidate that passed has
no message in its cooldown, because every message has its sent row, which the only worker sees.

`RuleConfirmationProofs` proves, for any threads, expressions, lifetimes, limits and
faults, any model and any number of messages (`ConfirmationAssumption`):

* `ConfirmationTypeCorrect`: `Spec => []TypeOK`, at most one proposal per slot included.
* `ProposalsTrackedCorrect`: `Spec => []ProposalsTracked`, and from it
* `OneFateCorrect` and `NothingStaleCorrect`.

`OneFate` speaks of the committed tables and is not inductive: a commit publishes
what the open transaction has made of them. `ProposalsTracked` therefore says the
same of both, and adds that all proposals are numbered up to `proposals` (a new one
is fresh), stored in the past, and that none was executed too late. `IInv` is
`TypeOK /\ ProposalsTracked`. The lemmas follow the four things a step can do to a
set of tables: drop (`DropTracked`), store (`StoreTracked`), execute
(`ExecuteTracked`), or nothing of the sort; `Confirm` is a case split over them.

`LocationsProofs` proves, for any names, home markers and number of locations and
edits (`LocationAssumption`):

* `LocationsTypeCorrect`: `Spec => []TypeOK`.
* `ResolutionUniqueCorrect`: `Spec => []ResolutionUnique`.
* `DefaultKeptCorrect`: `Spec => DefaultKept`.

`ResolutionUnique` speaks of the committed rows. `LocationsApart` says of both
sets of rows that ids are unique and used up and that names differ and aliases do
not meet; it does not say that a name differs from the aliases of others, because
the code does not see to that (the order of `resolve_location`'s two loops does).
Its lemmas: rows stay apart when the sequence goes on (`ApartLater`), when a row
is created that was not refused (`CreatedApart`), and when a row is replaced by
one that is disabled or clashes with no other (`WithApart`), which covers the half
done edit as well.

`DefaultKept` compares a commit with the one before it, any number of tools
earlier. `Descends(db, tx)` carries what is needed over the turn: an enabled row
of the transaction either had its id enabled in the committed rows or is newer
than all of them. `DefaultStays` concludes that such rows do not come before the
default unless they are homes, and `DInv` is `IInv` with `Descends`.

`UnderstoodConfirmCorrect` has the hypothesis `Frank`: the model is obedient and nothing but a
lost session goes wrong (`Faults \subseteq {"session"}`). Each other fault breaks the property:
a model that fails after its tools have written, a lost reply and a crash all leave a
proposal in the slot that the user has not seen. `UInv` says that between turns the slot, if any, is
what was heard last, and within a turn what the transaction stores is what its answer will
present. `NoScheduledTwinsCorrect` has none: `NInv` says of both sets of tables that the scheduled
rules differ, which is what the match of `_execute_confirm` keeps. `HistoryPairedCorrect`
needs that `MaxHistory` is even, as `MAX_TURNS` is (`infrastructure/memory/thread_memory.py:8`):
with an odd one the trimmed list begins with an answer. `HInv` says that lengths stay even
and that an odd place holds the user's part.

`OneRulePerProposalCorrect` needs more than the fates: `Sourced` says that every rule came
from one proposal in `log`, in the committed tables and in the transaction, and `RInv` adds it
to `IInv`. `LocationsApartCorrect` states `LocationsApart` on its own.

`AccessProofs` proves, for any bots, users, codes, lists and faults
(`AccessAssumption`): `TypeCorrect`, `OneUserPerCodeCorrect`, `AccessBackedCorrect` and
`StrangersExplainedCorrect`. `IInv` adds to the properties who holds what:
`Locks` (a bot past its `FOR UPDATE` is alone with its code, which nobody has used),
`Marks` (an admission is marked on its code) and `Remembered` (whoever is about to be
remembered is on record).

`RuleHistoryProofs` proves, for days of any length, any slots, intervals, cooldowns,
retention and numbers of rules, troubles and cleanups (`HistoryAssumption`,
`KeepAssumption`): `TypeCorrect`, `SlotEvaluatedOnceCorrect`, `LogExplainableCorrect`, and
`OneMessagePerWindowCorrect` where events are kept for at least two days. The type of a
cycle already needs that a cron: rule has a last slot: the greatest number of a
non-empty set below a bound, from the well-foundedness of the naturals.
Cleanups are what makes these invariants hard. `Remembered`: an evaluated slot that is
not over a day old still has its run, because no run is deleted before it is a day old
(`KeepAssumption`), and a slot that is a day old is no longer the last one.
`InTime` bounds the age of a cycle, whose slots are those of its claim. `Ledger`: a message whose window could still
be met has its event. `Backed` says the same of the candidates of the current cycle and the
references that the cleanups respect.

Its second half says where the clock is in the worker's cycle: `TInv` adds to the
invariant of the first when the worker last rested (`Rested`), that nothing is
written in the future (`Past`, `SnapshotsPast`), and what a calm stretch has left behind
(`Smooth`, `Covered`, `Recent`). From it:

* `SleepLosesOnlyItsStartCorrect`: `Spec => []SleepLosesOnlyItsStart`, for any interval, duration
  and delay of the claims. The poll is longer than the window by the delay, so the claim is
  young enough for every slot from `slept + MaxLatency` on; and no row hides such a slot,
  because a sleeping worker has written nothing since it fell asleep (`Past`, `Rested`).
* `ReadyWhileCalmCorrect`: `Spec => []ReadyWhileCalm`, if a forecast is not stale before two
  intervals have passed (`ForecastStale >= 2 * Interval`). The defaults are 120 and 15 minutes
  (`settings.py:134`, `settings.py:114`); nothing checks it, and an interval above an hour
  makes it false.

`RuleMeaningProofs` proves two theorems. `RangeMeans`: the two limits `RangeAt` computes for a time
range hold exactly the times that `Covers` says it is about, at any time and offset, if a
`between()` has a day for its argument. `EvaluateMeans`: for any accepted expression with one of the
operators or none, and any points in the order of their times, at least one, `Evaluate` says "error"
exactly where `Meaningless` does, and "true" exactly where `Means` does. One side works on lists
and the other on sets, so that the proof counts:

* `Arranged` puts at place k the element that has k - 1 before it. That there is exactly one
  is a lemma about linear orders of a finite set, from `LeastNumber` and cardinalities. By it
  a filter of points in the order of time is still in that order and keeps the hours
  it should, one point for each.
* The k-th of a sorted list is the value `Kth`, which has fewer than k values below it
  and at least k up to it; for `median` and `pctl`, that the two places Python's floor and
  ceiling name are those of `PercentileOf`.
* Sums are folds, and the library's theorems on folds take an operator as a parameter. A
  fold is unfolded once, at its last element, and a sum of a list is compared with
  the sum of a set by the least length at which they would differ, which needs the
  well-foundedness of the naturals only. `Variance` and `SpreadOf` are then one polynomial.

`WeatherRequestsProofs` proves, for any expressions, weather, stations, warnings and
candidates, with lists and numbers of jobs of any length (`RequestAssumption`):

* `TypeCorrect`: `Spec => []TypeOK`.
* `RequestsExplainedCorrect`: `Spec => []RequestsExplained`.
* `VerdictJustifiedCorrect`: `Spec => []VerdictJustified`.
* `ForecastsCompleteCorrect`: `Spec => []ForecastsComplete`.
* `ObservationsCompleteCorrect`: `Spec => []ObservationsComplete`.
* `WarningsCompleteCorrect`: `Spec => []WarningsComplete`.
* `AnswersCompleteCorrect`: `Spec => []AnswersComplete`, the last three together.
* `JobAdvancesCorrect`: `Spec => JobAdvances`.

`WordsAssumption`: a query has finitely many words. `WeatherAssumption`: the run starts at
finitely many times, after the epoch; the weather is a whole number at every hour that can be
asked for; an answer has one of the listed flaws; limits are whole numbers and percentiles
are not below zero. `RecordAssumption`: distances and the times of warnings are whole numbers.
Numbers are whole because the prover has no others; the code's are binary floating point,
whose rounding neither the model nor the theorems speak of.

`Tries` bounds the attempts and says that whatever was not worth a retry was the last one;
`Reasons` keeps, of a rule without a forecast, what it was refused for. `Trailed` reads the
past of a geocoding off its program counter: what has been asked is a prefix of the longest
chain (`Full`), and the model was asked after the last search only. `Well` is about the
choice: `select_best_candidate` takes the first of the highest scores. `ScoreMonotonic` says
that a candidate which is as good in every part has a score as high, `BestExists` that there
is a highest score whenever a candidate has one (`GreatestNumber`: scores are bounded), and
`BestChosen` that the code's choice has it.

`JobAdvances` counts, at each place in a job, the steps that are left at most (`StepsLeft`).
It needs no more than the invariant of `RequestsExplained`: that the attempts are bounded, and
that a place is searched for a second time only after the model has guessed. Together with
the absence of deadlock, which TLC checks, every job ends if its steps are taken.

`VerdictJustified` needs where a verdict comes from: `Timely` says how far the clock can be,
so that every hour asked for has its weather; `RuleWell` says, at each place in a rule's job,
that its days are those of its request, that its points are the parsed answer, and that
the stored points are those of the database or none. The lemmas about `Parse` say that
its points are in the order of time, are those of `HoursKnown`, and have the number of their
hour, or none where `NumberLost` says so; `RangeMeans` and `EvaluateMeans` do the rest. `ChartWell` says the
same of a chart, whose points are then those of its range.

`ObservationsWell` and `WarningsWell` relate the tables to what the last job
answered, if it was about them. A saved list of warnings is a fold over rows that grow while it runs: `SavedWell` is the
invariant of that loop (old rows stay where they are, no two rows have one key, each
warning so far has the row its id names, and a new key has the warning's own row), and
`FoldSteps` gives the state of the loop after each warning.

Only model-checked is liveness, which is out of the prover's reach: `CycleEnds`,
`RedemptionEnds`, and the fairness of `NotificationContract` in `ImplementsContract`; and the
absence of deadlock, which is about `ENABLED`; and `ResendsExplained` with several workers that
meet rows of the migration. Every other invariant and action property of a passing run is a
theorem, under the hypotheses named above.

## 6. Hazards without a property

The `hazards` of `PROJECT.json` name the properties whose run meets the hazard. Those without
one are behaviours a property would only restate, or that a run shows to fail when it
allows them:

* two workers that read the cooldown before either commits (`deduplication.py:112`);
* a message for an expression that was edited meanwhile (`rule_evaluator.py:127`);
* a reply that is lost, so that a yes confirms what nobody saw (`handler.py:97`), and a
  model that confirms its own proposal (`rules_tools.py:351`): `UnderstoodConfirm` holds in
  `confirm_talk`, which excludes both, and fails where either is allowed;
* a failed release of the advisory lock, and the two ways to look a location up, which are
  not modelled.

## 7. Not modelled

See the `components` of `PROJECT.json`.

* Texts, formats, charts, prompts, logs, metrics and traces change no state the program
  reads. `ExplanationService` is modelled by the rows it reads.
* The evaluation harness (`src/scripts/eval/`, `eval/`) runs the program and keeps
  nothing.
* Migrations, and the checks of the bot's readiness, have no state of their own.
* The dry runs of retention, and its variants with an age of the caller's choice, do
  what the modelled ones do to the same rows, or nothing.
* The advisory lock that a failed release leaves behind
  (`infrastructure/worker/coordination.py:34`), and the search of names and aliases by
  `edit_location` (`llm/tools/weather_tools.py:326`), whose result is a free choice.
