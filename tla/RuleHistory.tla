----------------------------- MODULE RuleHistory -----------------------------
(***************************************************************************)
(* The worker over days: its polling loop against the slots of cron: rules *)
(* (infrastructure/worker/rule_evaluator.py, domain/rules/schedule.py),    *)
(* what it leaves in the database, the jobs that delete old rows           *)
(* (infrastructure/jobs/retention.py) and what the health endpoint         *)
(* concludes from the rest (api/health.py).                                *)
(*                                                                         *)
(* There is one worker, and its delivery loop is one step: concurrent      *)
(* workers, and the statements of a delivery, are in NotificationDelivery. *)
(* A row stands for itself: it is known by its rule and the instant it was *)
(* written, which also serve as the references between rows.               *)
(***************************************************************************)
EXTENDS Integers, FiniteSetsExt

CONSTANTS
  Rules,         \* ids of the enabled rules: list_all_enabled_rules orders by id
  Slots,         \* [Rules -> SUBSET Nat], hours of the day of a cron: rule;
                 \* a rule without any is unscheduled
  Day,           \* length of a UTC day
  Lookback,      \* how far before now the worker's forecasts begin: an hour
  Interval,      \* settings.rule_evaluation_minutes
  MaxLatency,    \* bound: how late after its wake-up a cycle reads the clock
  MaxDuration,   \* bound: how long a cycle takes from then on
  Cooldown,      \* rule.cooldown_minutes
  Keep,          \* [Kinds -> Nat], settings.retention in days
  WorkerStale,   \* health.worker_stale_after_minutes
  ForecastStale, \* health.forecast_stale_after_minutes
  MaxTroubles,   \* bound: failed evaluations, failed sends and crashes
  MaxCleanups,   \* bound: cleanups
  MaxDisturbances, \* bound: both together
  MaxTime        \* bound: the last instant

Kinds == {"contexts", "forecasts", "observations", "events", "audit", "runs"}

ASSUME HistoryAssumption ==
  /\ Rules \subseteq Nat
  /\ Day \in Nat \ {0}
  /\ Lookback \in 0 .. Day
  /\ Slots \in [Rules -> SUBSET (0 .. Day - 1)]
  /\ Interval \in Nat \ {0}
  /\ MaxLatency \in Nat \ {0}
  /\ MaxDuration \in 0 .. Day
  /\ Cooldown \in Nat
  /\ WorkerStale \in Nat
  /\ ForecastStale \in Nat
  /\ MaxTroubles \in Nat
  /\ MaxCleanups \in Nat
  /\ MaxDisturbances \in Nat
  /\ MaxTime \in Nat

\* RetentionSettings.validate_positive_days
ASSUME KeepAssumption == Keep \in [Kinds -> Nat \ {0}]

VARIABLES
  now,
  worker,    \* the process: where it is, and the locals of its cycle
  snapshots, \* forecast_snapshots
  runs,      \* rule_evaluation_runs
  events,    \* notification_events
  others,    \* rows no foreign key of these tables leads to
  slept,     \* history: since when the worker has slept, or slept last
  evaluated, \* history: the slots a run was stored for
  told,      \* history: messages delivered
  calm,      \* history: no trouble, and no slow cycle, so far
  spent      \* how often each bounded event has happened

tables == <<snapshots, runs, events, others>>
histories == <<slept, evaluated, told, calm>>
vars == <<now, worker, tables, histories, spent>>

-----------------------------------------------------------------------------
(* Rows.                                                                   *)

Snapshot == [rule : Rules, at : Nat]

Window == [first : Nat, last : Nat]

\* A run refers to the snapshot of its own instant, unless the forecast could
\* not be refreshed.
Run == [rule : Rules, at : Nat, snap : BOOLEAN]

\* An event refers to the run of its rule at the instant "run".
Event == [rule : Rules, at : Nat, run : Nat, window : Window,
          status : {"sent", "suppressed"}]

Other == [kind : {"contexts", "observations", "audit"}, at : Nat]

Message == [rule : Rules, window : Window, at : Nat]

\* wake: when the sleep before the cycle ends or ended; from: the "now" of the claim;
\* claimed: the rules found due; won: the notification candidates, with the window of
\* their forecast.
Worker == [pc : {"down", "asleep", "working"}, from : Nat, wake : Nat,
           claimed : SUBSET Rules, todo : SUBSET Rules,
           won : SUBSET [rule : Rules, run : Nat, window : Window]]

\* Between two cycles: without any locals.
Resting(pc, wake) == [pc |-> pc, from |-> 0, wake |-> wake, claimed |-> {},
                      todo |-> {}, won |-> {}]

Asleep(wake) == Resting("asleep", wake)

Cycle(from, claimed, todo, won) ==
  [pc |-> "working", from |-> from, wake |-> worker.wake, claimed |-> claimed,
   todo |-> todo, won |-> won]

\* The clock starts on the second day: every cron: rule has a slot behind it.
Start == Day

DayOf(t) == t \div Day

\* The provider is asked for whole UTC days, from an hour before now to a week
\* after it: the first day, and the last one less the week.
WindowOf(t) == [first |-> DayOf(t - Lookback), last |-> DayOf(t)]

RunRefs(s, run) == run.snap /\ run.rule = s.rule /\ run.at = s.at
EventRefs(run, e) == e.rule = run.rule /\ e.run = run.at

\* The cycle when it is through with rule r.
After(r, won) == Cycle(worker.from, worker.claimed, worker.todo \ {r}, won)

\* The rule a cycle is at.
Turn(r) ==
  /\ worker.pc = "working"
  /\ r \in worker.todo
  /\ \A q \in worker.todo : r <= q

Trouble ==
  /\ spent["troubles"] < MaxTroubles
  /\ spent["cleanups"] + spent["troubles"] < MaxDisturbances
  /\ spent' = [spent EXCEPT !["troubles"] = @ + 1]
  /\ calm' = FALSE

-----------------------------------------------------------------------------
(* Which rules are due.                                                    *)

IsSlot(r, t) == t % Day \in Slots[r]

\* last_cron_slot: the slot itself at its own instant.
SlotOf(r, t) == CHOOSE s \in 0 .. t : /\ IsSlot(r, s)
                                      /\ \A u \in s + 1 .. t : ~IsSlot(r, u)

\* Mutant: the end of the window no longer belongs to it.
InWindowOpen(s, t) == t - s < Interval

InWindow(s, t) == t - s <= Interval

\* Mutant: earlier runs are not looked up.
NotHandled(r, s) == ~ \E e \in events : e.rule = r /\ e.at >= s

\* No run, and no event that was sent or suppressed, since the slot.
Unhandled(r, s) ==
  /\ ~ \E run \in runs : run.rule = r /\ run.at >= s
  /\ ~ \E e \in events : e.rule = r /\ e.at >= s

\* _is_rule_due
IsDue(r, t) ==
  \/ Slots[r] = {}
  \/ InWindow(SlotOf(r, t), t) /\ Unhandled(r, SlotOf(r, t))

-----------------------------------------------------------------------------
(* The worker's cycle.                                                     *)

\* _claim_due_rules, after the sleep or the start of the process.  The event loop, the
\* query of the lock and that of the rules come before it reads the clock.
Claim ==
  /\ worker.pc = "asleep"
  /\ now > worker.wake
  /\ LET due == {r \in Rules : IsDue(r, now)}
     IN worker' = Cycle(now, due, due, {})
  /\ UNCHANGED <<now, tables, histories, spent>>

\* The slot a run of the cycle is for; the claim found it due.
Slot(r) == SlotOf(r, worker.from)

Evaluated(r) ==
  IF Slots[r] = {} THEN evaluated ELSE evaluated \union {<<r, Slot(r)>>}

StoreRun(r, snap) ==
  /\ runs' = runs \union {[rule |-> r, at |-> now, snap |-> snap]}
  /\ evaluated' = Evaluated(r)

Candidate(r) == [rule |-> r, run |-> now, window |-> WindowOf(now)]

\* _evaluate_single_rule with a fresh forecast, and the commit after it.  The
\* rule holds or not.
Evaluate(r, holds) ==
  /\ Turn(r)
  /\ snapshots' = snapshots \union {[rule |-> r, at |-> now]}
  /\ StoreRun(r, TRUE)
  /\ worker' = After(r, IF holds THEN worker.won \union {Candidate(r)} ELSE worker.won)
  /\ UNCHANGED <<now, events, others, slept, told, calm, spent>>

\* _finish_forecast_refresh_failed: a run without a snapshot.
RefreshFails(r) ==
  /\ Turn(r)
  /\ Trouble
  /\ StoreRun(r, FALSE)
  /\ worker' = After(r, worker.won)
  /\ UNCHANGED <<now, snapshots, events, others, slept, told>>

\* The evaluation raises and is rolled back: there is no run.
EvaluationRaises(r) ==
  /\ Turn(r)
  /\ Trouble
  /\ worker' = After(r, worker.won)
  /\ UNCHANGED <<now, tables, slept, evaluated, told>>

\* Mutant: an event is a duplicate of one with the same verdict only.
AlreadyToldNow(c) ==
  \E e \in events : /\ e.rule = c.rule /\ e.window = c.window /\ e.run = c.run
                    /\ e.status = "sent"

\* create_event_once finds an event with the same rule and forecast window.
AlreadyTold(c) ==
  \E e \in events : e.rule = c.rule /\ e.window = c.window /\ e.status = "sent"

CoolingDown(c) ==
  \E e \in events : /\ e.rule = c.rule /\ e.status = "sent"
                    /\ e.at + Cooldown >= now

\* Mutant: the event keeps the status it was claimed with.
EventClaimed(c, status) ==
  [rule |-> c.rule, at |-> now, run |-> c.run, window |-> c.window, status |-> "sending"]

EventOf(c, status) ==
  [rule |-> c.rule, at |-> now, run |-> c.run, window |-> c.window, status |-> status]

\* The cycle takes no more than half an interval so far, the delay of its claim included.
Brisk == 2 * (now - worker.wake) <= Interval

\* The delivery loop and the end of the cycle.  Telegram refuses some messages.
Deliver(refused) ==
  LET fresh == {c \in worker.won : ~AlreadyTold(c)}
      tried == {c \in fresh : ~CoolingDown(c)}
      sent  == tried \ refused
  IN /\ worker.pc = "working"
     /\ worker.todo = {}
     /\ refused \subseteq tried
     /\ \/ refused = {} /\ calm' = (calm /\ Brisk)
                        /\ UNCHANGED spent
        \/ refused # {} /\ Trouble
     /\ events' = events \union {EventOf(c, "sent") : c \in sent}
                         \union {EventOf(c, "suppressed") : c \in fresh \ sent}
     /\ others' = others \union {[kind |-> "audit", at |-> now] : c \in fresh}
     /\ told' = told \union {[rule |-> c.rule, window |-> c.window, at |-> now] : c \in sent}
     /\ worker' = Asleep(now + Interval)
     /\ slept' = now
     /\ UNCHANGED <<now, snapshots, runs, evaluated>>

\* The process is killed before its delivery loop, and started again later.
Crash ==
  /\ worker.pc # "down"
  /\ Trouble
  /\ worker' = Resting("down", now)
  /\ UNCHANGED <<now, tables, slept, evaluated, told>>

Restart ==
  /\ worker.pc = "down"
  /\ now > worker.wake
  /\ worker' = Asleep(now)
  /\ slept' = now
  /\ UNCHANGED <<now, tables, evaluated, told, calm, spent>>

-----------------------------------------------------------------------------
(* Retention: nothing in src/ runs it, somebody does.                      *)

\* _cutoff: strictly older than the kind's days.
Expired(kind, at) == at < now - Keep[kind] * Day

OldSnapshots == {s \in snapshots : Expired("forecasts", s.at)}
OldRuns == {run \in runs : Expired("runs", run.at)}
OldEvents == {e \in events : Expired("events", e.at)}
OldOthers == {o \in others : Expired(o.kind, o.at)}

\* Mutant: a reference is not a reason to keep a run.
RaisesForSnapshots == \E s \in OldSnapshots, run \in runs : RunRefs(s, run)

\* The cleanups go forecasts, events, runs, and no reference is ON DELETE: a
\* snapshot must have no run left, a run no event but an old one.
CleanupRaises ==
  \/ \E s \in OldSnapshots, run \in runs : RunRefs(s, run)
  \/ \E run \in OldRuns, e \in events \ OldEvents : EventRefs(run, e)

Cleaning ==
  /\ spent["cleanups"] < MaxCleanups
  /\ spent["cleanups"] + spent["troubles"] < MaxDisturbances
  /\ spent' = [spent EXCEPT !["cleanups"] = @ + 1]
  /\ UNCHANGED <<now, worker, histories>>

\* run_all_cleanup in its caller's transaction.
RunAllCleanup ==
  /\ Cleaning
  /\ ~CleanupRaises
  /\ snapshots' = snapshots \ OldSnapshots
  /\ events' = events \ OldEvents
  /\ runs' = runs \ OldRuns
  /\ others' = others \ OldOthers

\* An exception at any of the six: the transaction is rolled back.
CleanupFails ==
  /\ Cleaning
  /\ CleanupRaises
  /\ UNCHANGED tables

\* One cleanup on its own.
CleanupRawForecasts ==
  /\ Cleaning
  /\ ~ \E s \in OldSnapshots, run \in runs : RunRefs(s, run)
  /\ snapshots' = snapshots \ OldSnapshots
  /\ UNCHANGED <<runs, events, others>>

CleanupTraceData ==
  /\ Cleaning
  /\ ~ \E run \in OldRuns, e \in events : EventRefs(run, e)
  /\ runs' = runs \ OldRuns
  /\ UNCHANGED <<snapshots, events, others>>

CleanupNotificationLog ==
  /\ Cleaning
  /\ events' = events \ OldEvents
  /\ UNCHANGED <<snapshots, runs, others>>

\* cleanup_thread_memory, cleanup_observations, cleanup_audit_log: no row refers to
\* theirs.
CleanupOther(kind) ==
  /\ Cleaning
  /\ others' = others \ {o \in OldOthers : o.kind = kind}
  /\ UNCHANGED <<snapshots, runs, events>>

\* explain_notification: what it reads besides the event and its rule, and says
\* nothing of if there is none.
Explanation(e) == {run \in runs : EventRefs(run, e)}

-----------------------------------------------------------------------------
(* Health.                                                                 *)

Newest(rows) == Max({row.at : row \in rows})

\* _freshness_status: rows is empty as long as nothing was recorded.
Fresh(rows, threshold) == rows # {} /\ now - Newest(rows) <= threshold

\* Mutant: one interval is taken to be enough.
OneInterval == Max({WorkerStale, Interval})

WorkerThreshold == Max({WorkerStale, 2 * Interval})

\* build_status of the worker, with a database that is up and migrated.
Ready == Fresh(runs, WorkerThreshold) /\ Fresh(snapshots, ForecastStale)

-----------------------------------------------------------------------------

\* A claim is late by a bounded delay, and a cycle is over in time.
Tick ==
  /\ now < MaxTime
  /\ worker.pc = "asleep" => now < worker.wake + MaxLatency
  /\ worker.pc = "working" => now < worker.from + MaxDuration
  /\ now' = now + 1
  /\ UNCHANGED <<worker, tables, histories, spent>>

\* The end of the bounded run.
Exhausted == now = MaxTime /\ UNCHANGED vars

Init ==
  /\ now = Start
  /\ worker = Asleep(Start)
  /\ snapshots = {}
  /\ runs = {}
  /\ events = {}
  /\ others = {[kind |-> kind, at |-> Start] : kind \in {"contexts", "observations"}}
  /\ slept = Start
  /\ evaluated = {}
  /\ told = {}
  /\ calm = TRUE
  /\ spent = [kind \in {"troubles", "cleanups"} |-> 0]

Work ==
  \/ Claim
  \/ \E r \in Rules :
       \/ \E holds \in BOOLEAN : Evaluate(r, holds)
       \/ RefreshFails(r)
       \/ EvaluationRaises(r)
  \/ \E refused \in SUBSET worker.won : Deliver(refused)
  \/ Crash
  \/ Restart

Cleanup ==
  \/ RunAllCleanup
  \/ CleanupFails
  \/ CleanupRawForecasts
  \/ CleanupTraceData
  \/ CleanupNotificationLog
  \/ \E kind \in {o.kind : o \in OldOthers} : CleanupOther(kind)

Next ==
  \/ Work
  \/ Cleanup
  \/ Tick
  \/ Exhausted

Spec == Init /\ [][Next]_vars

-----------------------------------------------------------------------------
(* Properties.                                                             *)

\* The types of the variables.
TypeOK ==
  /\ now \in Nat
  /\ worker \in Worker
  /\ snapshots \subseteq Snapshot
  /\ runs \subseteq Run
  /\ events \subseteq Event
  /\ others \subseteq Other
  /\ slept \in Nat
  /\ evaluated \subseteq Rules \X Nat
  /\ told \subseteq Message
  /\ calm \in BOOLEAN
  /\ spent \in [{"troubles", "cleanups"} -> Nat]

\* A slot is due for one interval, while two claims are a sleep of that length, a cycle
\* and a delay apart.  So slots are lost: those inside a cycle, after its claim, those
\* while the process is down, and those in the first instants of a sleep, which are too
\* old when the clock is read.  What a sleep loses is no more than the delay of the claim
\* after it: every later slot is claimed, unless the next one overtook it.
SleepLosesOnlyItsStart ==
  worker.pc = "working" /\ now = worker.from =>
    \A r \in Rules : \A s \in slept + MaxLatency .. worker.from :
      Slots[r] # {} /\ s = SlotOf(r, worker.from) => r \in worker.claimed

\* The evaluation of a slot is remembered by a row that the cleanups delete, and
\* still no slot is evaluated a second time.
SlotEvaluatedOnce ==
  worker.pc = "working" =>
    \A r \in worker.todo : Slots[r] # {} => <<r, Slot(r)>> \notin evaluated

\* A rule tells its chat at most once about a forecast window, however many of
\* its slots fall on a UTC day and whatever the cleanups delete meanwhile.  (So an
\* hourly rule is silent after its first message of the day, but for one in the
\* hour after midnight.)
OneMessagePerWindow ==
  \A m, n \in told : m.rule = n.rule /\ m.window = n.window => m = n

\* As long as an event is in the log it can be explained by the run behind it, and
\* that run by its forecast, after any order of cleanups.
LogExplainable ==
  /\ \A e \in events : Explanation(e) # {}
  /\ \A run \in runs : run.snap => \E s \in snapshots : RunRefs(s, run)

\* A worker with an unscheduled rule whose cycles go well, and from the end of the sleep
\* to the end of the cycle take at most half the interval, is never reported as not
\* ready: not between two cycles, and not when a cleanup deletes runs and forecasts.
ReadyWhileCalm ==
  calm /\ runs # {} /\ Brisk /\ (\E r \in Rules : Slots[r] = {}) => Ready

=============================================================================
