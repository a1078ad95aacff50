------------------------ MODULE NotificationDelivery ------------------------
(***************************************************************************)
(* The worker process: it claims the due rules, evaluates them against a   *)
(* fresh forecast, and delivers a Telegram message for every rule that     *)
(* holds (infrastructure/worker/rule_evaluator.py, with the event service  *)
(* and the deduplicator of domain/notifications).                          *)
(*                                                                         *)
(* The database is the committed state (enabled, live, expr, runs, events).*)
(* What a worker has written since its last commit is in rows[w], off[w];  *)
(* its Python locals are in mem[w].  Every SQL statement is READ COMMITTED:*)
(* it sees the committed state and the worker's own writes.                *)
(*                                                                         *)
(* Left out: the text of a message, metrics, traces, audit rows.  A        *)
(* forecast enters only through the verdict of the rule's expression and   *)
(* through its window.  snooze_until has no writer in src/ but a method of *)
(* the rule service that nothing calls, so it is a constant; dry_run has   *)
(* the same writer and no reader on the way to a message.                  *)
(***************************************************************************)
EXTENDS Integers, FiniteSets, Sequences

CONSTANTS
  Workers,      \* worker processes that share the database
  Rules,        \* rule ids, positive: list_all_enabled_rules orders by id
  Exprs,        \* rule expressions
  FirstExpr,    \* [Rules -> Exprs], the expression each rule starts with
  Kind,         \* [Rules -> {"none", "once", "cron"}], rule.schedule
  OnceAt,       \* [Rules -> Nat], when a once: rule falls due
  Twin,         \* [Rules -> Rules], equal for rules whose user, chat, thread,
                \* location, schedule and context are the same
  SnoozeUntil,  \* [Rules -> Nat], rule.snooze_until
  Legacy,       \* rules with an event row that migration 003 left 'pending'
  FirstId,      \* the first id of a new event row; legacy rows have their rule's
  CronPeriod,   \* distance of two slots of a cron: rule
  Interval,     \* settings.rule_evaluation_minutes
  Cooldown,     \* rule.cooldown_minutes
  Lease,        \* lease_timeout of create_event_once
  WindowLen,    \* how long a forecast request keeps the same dates
  Refusals,     \* may Telegram refuse a message?
  EvalErrors,   \* may the evaluation of a rule raise?
  MaxLosses,    \* bound: replies to delivered messages that are lost
  MaxAborts,    \* bound: database errors in the delivery loop
  MaxCrashes,   \* bound: crashes of worker processes
  MaxEdits,     \* bound: edits of rules by their users
  MaxTime       \* bound: the last instant

NoTime == 0     \* a NULL timestamp; the clock starts at 1
NoRun  == 0
NoRule == 0     \* notification_events.rule_id IS NULL

ASSUME ParamAssumption ==
  /\ Rules \subseteq Nat \ {NoRule}
  /\ FirstExpr \in [Rules -> Exprs]
  /\ Kind \in [Rules -> {"none", "once", "cron"}]
  /\ OnceAt \in [Rules -> Nat]
  /\ Twin \in [Rules -> Rules]
  /\ SnoozeUntil \in [Rules -> Nat]
  /\ Legacy \subseteq Rules
  /\ FirstId \in Nat
  /\ \A r \in Legacy : r < FirstId
  /\ CronPeriod \in Nat \ {0}
  /\ Interval \in Nat \ {0}
  /\ Cooldown \in Nat
  /\ Lease \in Nat
  /\ WindowLen \in Nat \ {0}
  /\ Refusals \in BOOLEAN
  /\ EvalErrors \in BOOLEAN
  /\ MaxLosses \in Nat
  /\ MaxAborts \in Nat
  /\ MaxCrashes \in Nat
  /\ MaxEdits \in Nat
  /\ MaxTime \in Nat

\* _scheduled_notification_key contains the schedule: twins share theirs.
ASSUME TwinAssumption ==
  \A r, q \in Rules :
    Twin[r] = Twin[q] => Kind[r] = Kind[q] /\ OnceAt[r] = OnceAt[q]

VARIABLES
  now,      \* the clock all processes read
  live,     \* rules that exist
  enabled,  \* rule.enabled, committed
  expr,     \* rule.expression, committed
  runs,     \* per rule: evaluated_at of its committed RuleEvaluationRuns
  events,   \* committed rows of notification_events
  nextId,   \* the id sequence of notification_events
  pc,       \* where each worker is
  wakeAt,   \* when asyncio.sleep of each worker ends
  mem,      \* each worker's local variables
  rows,     \* event rows written in each worker's open transaction
  off,      \* rules disabled in each worker's open transaction
  inbox,    \* history: the messages Telegram delivered, in order
  crashes, aborts, lost, edits   \* how often each bounded event has happened

db     == <<live, enabled, expr, runs, events, nextId>>
worker == <<pc, wakeAt, mem, rows, off>>
bounds == <<crashes, aborts, lost, edits>>
vars   == <<now, db, worker, inbox, bounds>>

-----------------------------------------------------------------------------
(* Rows, candidates and local variables.                                   *)

ActiveStatus == {"pending", "sending", "sent"}
Status       == ActiveStatus \union {"suppressed"}

EventRow ==
  [id : Nat, rule : Rules \union {NoRule}, expr : Exprs, win : Nat, run : Nat,
   status : Status, supp : BOOLEAN, sentAt : Nat, created : Nat, claimed : Nat]

\* EvaluationResult with notification_candidate = True.
Candidate == [rule : Rules, expr : Exprs, win : Nat, run : Nat]

\* snap is the NotificationRule objects read at the claim.
Mem ==
  [asOf : Nat, todo : SUBSET Rules, due : SUBSET Rules, snap : [Rules -> Exprs],
   cands : SUBSET Candidate, seen : SUBSET (Rules \X Exprs), sup : BOOLEAN,
   hold : Nat]

NoMem ==
  [asOf |-> NoTime, todo |-> {}, due |-> {}, snap |-> FirstExpr, cands |-> {},
   seen |-> {}, sup |-> FALSE, hold |-> 0]

Message == [rule : Rules, expr : Exprs, win : Nat, at : Nat]

DeliveryPc == {"pick", "look", "insert", "reclaim", "send", "disable"}
Pc         == {"sleep", "claim", "eval"} \union DeliveryPc

\* The dedupe key of compute_dedupe_key: rule, expression, forecast window.
\* (A rule never changes its location; NULL rule ids are never equal in SQL.)
SameKey(x, y) ==
  /\ x.rule # NoRule
  /\ x.rule = y.rule
  /\ x.expr = y.expr
  /\ x.win = y.win
Active(e)     == e.status \in ActiveStatus

\* The request names whole UTC days, and the window is its first and last point:
\* every forecast fetched in one period of WindowLen has the same one.  (A UTC day
\* is two periods, since the request begins an hour before now; see RuleHistory.)
WindowOf(t) == t \div WindowLen

\* Rules are handled in the order of their ids: the rule, and the candidate,
\* a loop over the rest S of the list is at.
FirstRule(S) == {r \in S : \A q \in S : r <= q}

\* Mutant: in the order of their runs, which differs from worker to worker.
FirstRun(S) ==
  {c \in S : \A d \in S : c.run < d.run \/ (c.run = d.run /\ c.rule <= d.rule)}

FirstCandidate(S) == {c \in S : \A d \in S : c.rule <= d.rule}

-----------------------------------------------------------------------------
(* The end of a cycle.                                                     *)

\* The session is closed (commit or rollback) and the locals are gone.
Idle(w, wake) ==
  /\ pc'     = [pc EXCEPT ![w] = "sleep"]
  /\ wakeAt' = [wakeAt EXCEPT ![w] = wake]
  /\ mem'    = [mem EXCEPT ![w] = NoMem]
  /\ rows'   = [rows EXCEPT ![w] = {}]
  /\ off'    = [off EXCEPT ![w] = {}]

EndCycle(w) == Idle(w, now + Interval)

-----------------------------------------------------------------------------
(* Claiming the due rules: _claim_due_rules under the advisory lock.       *)

LockHeld == \E v \in Workers : pc[v] = "claim"

\* pg_try_advisory_lock failed: the cycle is over.
LockBusy(w) ==
  /\ pc[w] = "sleep"
  /\ now >= wakeAt[w]
  /\ LockHeld
  /\ EndCycle(w)
  /\ UNCHANGED <<now, db, inbox, bounds>>

\* The lock is taken and list_all_enabled_rules reads the rules.
ListRules(w) ==
  /\ pc[w] = "sleep"
  /\ now >= wakeAt[w]
  /\ ~LockHeld
  /\ pc'  = [pc EXCEPT ![w] = "claim"]
  /\ mem' = [mem EXCEPT ![w].asOf = now,
                        ![w].todo = {r \in live : enabled[r]},
                        ![w].snap = expr]
  /\ UNCHANGED <<now, db, wakeAt, rows, off, inbox, bounds>>

\* last_cron_slot: the latest slot at or before t.
SlotOf(t) == t - (t % CronPeriod)

RunsSince(r, s)  == {i \in DOMAIN runs[r] : runs[r][i] >= s}
MarksSince(r, s) == {e \in events : /\ e.rule = r
                                    /\ e.created >= s
                                    /\ e.status \in {"sent", "suppressed"}}

InSlotWindow(t) == t - SlotOf(t) <= Interval

\* Mutant: the rule's earlier evaluations are not looked up.
IsDueIgnoringRuns(r, t) ==
  \/ Kind[r] = "none"
  \/ Kind[r] = "once" /\ t >= OnceAt[r]
  \/ Kind[r] = "cron" /\ InSlotWindow(t) /\ MarksSince(r, SlotOf(t)) = {}

\* _is_rule_due
IsDue(r, t) ==
  \/ Kind[r] = "none"
  \/ Kind[r] = "once" /\ t >= OnceAt[r]
  \/ /\ Kind[r] = "cron"
     /\ InSlotWindow(t)
     /\ RunsSince(r, SlotOf(t)) = {}
     /\ MarksSince(r, SlotOf(t)) = {}

\* scalar_one_or_none raises MultipleResultsFound on two rows.
DueRaises(r, t) ==
  /\ Kind[r] = "cron"
  /\ InSlotWindow(t)
  /\ \/ Cardinality(RunsSince(r, SlotOf(t))) > 1
     \/ /\ RunsSince(r, SlotOf(t)) = {}
        /\ Cardinality(MarksSince(r, SlotOf(t))) > 1

CheckDue(w, r) ==
  LET t == mem[w].asOf
  IN /\ pc[w] = "claim"
     /\ ~DueRaises(r, t)
     /\ mem' = [mem EXCEPT ![w].todo = @ \ {r},
                           ![w].due  = IF IsDue(r, t) THEN @ \union {r} ELSE @]
     /\ UNCHANGED <<now, db, pc, wakeAt, rows, off, inbox, bounds>>

\* The exception leaves evaluate_rules: no rule is evaluated in this cycle.
ClaimRaises(w, r) ==
  /\ pc[w] = "claim"
  /\ DueRaises(r, mem[w].asOf)
  /\ EndCycle(w)
  /\ UNCHANGED <<now, db, inbox, bounds>>

\* The lock is released before anything is evaluated.
ReleaseLock(w) ==
  /\ pc[w] = "claim"
  /\ mem[w].todo = {}
  /\ IF mem[w].due = {}
       THEN EndCycle(w)
       ELSE /\ pc'  = [pc EXCEPT ![w] = "eval"]
            /\ mem' = [mem EXCEPT ![w].todo = mem[w].due, ![w].due = {}]
            /\ UNCHANGED <<wakeAt, rows, off>>
  /\ UNCHANGED <<now, db, inbox, bounds>>


-----------------------------------------------------------------------------
(* Evaluating the claimed rules: one transaction per rule.                 *)

\* _save_evaluation_run and the commit after it.  The run of a false verdict
\* and that of a failed forecast refresh differ only in their detail.
Evaluated(w, r, holds) ==
  LET c == [rule |-> r, expr |-> mem[w].snap[r], win |-> WindowOf(now),
            run |-> Len(runs[r]) + 1]
  IN /\ r \in live
     /\ runs' = [runs EXCEPT ![r] = Append(@, now)]
     /\ mem'  = [mem EXCEPT ![w].todo  = @ \ {r},
                            ![w].cands = IF holds THEN @ \union {c} ELSE @]

\* The evaluation raises (a deleted rule violates the run's foreign key): the
\* rule's transaction is rolled back and the next rule is evaluated.
EvaluationFails(w, r) ==
  /\ EvalErrors \/ r \notin live
  /\ mem' = [mem EXCEPT ![w].todo = @ \ {r}]
  /\ UNCHANGED runs

Evaluate(w, r) ==
  /\ pc[w] = "eval"
  /\ \/ \E holds \in BOOLEAN : Evaluated(w, r, holds)
     \/ EvaluationFails(w, r)
  /\ pc' = [pc EXCEPT ![w] = IF mem[w].todo = {r} THEN "pick" ELSE @]
  /\ UNCHANGED <<now, live, enabled, expr, events, nextId, wakeAt, rows, off,
                 inbox, bounds>>

-----------------------------------------------------------------------------
(* The delivery loop: all candidates in one transaction.                   *)

\* What a statement of w reads: the committed rows, its own in their place.
Visible(w) ==
  rows[w] \union {e \in events : \A f \in rows[w] : f.id # e.id}

\* _scheduled_notification_key
ScheduledKey(c) == <<Twin[c.rule], c.expr>>
Scheduled(c)    == Kind[c.rule] # "none"
TwinDelivered(w, c) == Scheduled(c) /\ ScheduledKey(c) \in mem[w].seen

\* Mutant: the sent_at of the cutoff itself is no longer in the cooldown.
InCooldownExclusive(e) ==
  /\ ~e.supp
  /\ e.sentAt # NoTime
  /\ e.sentAt + Cooldown > now

InCooldown(e) ==
  /\ ~e.supp
  /\ e.sentAt # NoTime
  /\ e.sentAt + Cooldown >= now

\* should_suppress: snooze, cooldown, duplicate.  Its fourth check compares a
\* hash of the payload with hashes of dedupe keys, which are never equal.
ShouldSuppress(w, c) ==
  \/ SnoozeUntil[c.rule] > now
  \/ \E e \in Visible(w) : e.rule = c.rule /\ InCooldown(e)
  \/ \E e \in Visible(w) : SameKey(e, c) /\ e.status = "sent"

\* On to the candidate after c.
DropCandidate(m, c) ==
  [m EXCEPT !.cands = @ \ {c}, !.hold = 0, !.sup = FALSE]

Continue(w, next) ==
  /\ pc' = [pc EXCEPT ![w] = next]
  /\ UNCHANGED mem

\* Mutant: a once: rule stays enabled after its delivery.
FinishEnabled(w, c) ==
  /\ pc'  = [pc EXCEPT ![w] = "pick"]
  /\ mem' = [mem EXCEPT ![w] = DropCandidate(@, c)]

\* _deliver_notification returned.  A once: rule is disabled in any case.
Finish(w, c) ==
  \/ /\ Kind[c.rule] = "once"
     /\ Continue(w, "disable")
  \/ /\ Kind[c.rule] # "once"
     /\ pc'  = [pc EXCEPT ![w] = "pick"]
     /\ mem' = [mem EXCEPT ![w] = DropCandidate(@, c)]

\* A rule with the same scheduled key was delivered in this cycle.
SkipTwin(w, c) ==
  /\ pc[w] = "pick"
  /\ TwinDelivered(w, c)
  /\ Finish(w, c)
  /\ UNCHANGED <<now, db, wakeAt, rows, off, inbox, bounds>>

Decide(w, c) ==
  /\ pc[w] = "pick"
  /\ ~TwinDelivered(w, c)
  /\ pc'  = [pc EXCEPT ![w] = "look"]
  /\ mem' = [mem EXCEPT
               ![w].seen = IF Scheduled(c) THEN @ \union {ScheduledKey(c)} ELSE @,
               ![w].sup  = ShouldSuppress(w, c)]
  /\ UNCHANGED <<now, db, wakeAt, rows, off, inbox, bounds>>

\* Mutant: only the lease protects a row, whatever its status.
LeasedOnly(e) == now - e.claimed < Lease

\* The row is delivered, or some worker may be about to deliver it.
Settled(e) == e.status = "sent" \/ now - e.claimed < Lease

\* create_event_once: is there an active row of this key?
Look(w, c) ==
  LET found == {e \in Visible(w) : Active(e) /\ SameKey(e, c)}
  IN /\ pc[w] = "look"
     /\ \/ found = {} /\ Continue(w, "insert")
        \/ \E e \in found : Settled(e) /\ Finish(w, c)
        \/ \E e \in found :
             /\ ~Settled(e)
             /\ pc'  = [pc EXCEPT ![w] = "reclaim"]
             /\ mem' = [mem EXCEPT ![w].hold = e.id]
     /\ UNCHANGED <<now, db, wakeAt, rows, off, inbox, bounds>>

\* Mutant: no statement waits for another transaction.
KeyFreeAlways(w, k) == TRUE

\* Another open transaction has written a row of the key: the unique index
\* (and the row lock, which is on the same key) makes the statement wait.
KeyFree(w, k) ==
  \A v \in Workers \ {w} : \A e \in rows[v] : ~SameKey(e, k)

\* Mutant: there is no unique index.
TakenNever(w, k, id) == FALSE

\* uq_notification_events_rule_payload_active, as w's statement meets it
Taken(w, k, id) ==
  \E e \in Visible(w) : e.id # id /\ Active(e) /\ SameKey(e, k)

\* Mutant: sent_at is set and the status is forgotten.
SentAtOnly(e) == [e EXCEPT !.sentAt = now]

\* Mutant: a status the table does not know.
SuppressedAsFailed(e) == [e EXCEPT !.status = "failed", !.supp = TRUE]

\* mark_suppressed and mark_sent
Suppressed(e) == [e EXCEPT !.status = "suppressed", !.supp = TRUE]
Sent(e)       == [e EXCEPT !.status = "sent", !.sentAt = now]

\* The row is w's: it is suppressed at once or the message goes out next.
Hold(w, c, e) ==
  IF mem[w].sup
    THEN /\ rows' = [rows EXCEPT ![w] = @ \union {Suppressed(e)}]
         /\ Finish(w, c)
    ELSE /\ rows' = [rows EXCEPT ![w] = @ \union {e}]
         /\ pc'   = [pc EXCEPT ![w] = "send"]
         /\ mem'  = [mem EXCEPT ![w].hold = e.id]

\* The UPDATE of a stale row.  It waits for a transaction that has the row and
\* then overwrites the status that transaction committed.
Reclaim(w, c) ==
  /\ pc[w] = "reclaim"
  /\ \E e \in events :
       /\ e.id = mem[w].hold
       /\ KeyFree(w, e)
       /\ ~Taken(w, e, e.id)
       /\ Hold(w, c, [e EXCEPT !.status = "sending", !.claimed = now])
  /\ UNCHANGED <<now, db, wakeAt, off, inbox, bounds>>

\* The row was suppressed meanwhile and a new one has its key: making it active
\* again violates the index, and the exception ends the cycle.
ReclaimConflicts(w) ==
  /\ pc[w] = "reclaim"
  /\ \E e \in events :
       /\ e.id = mem[w].hold
       /\ KeyFree(w, e)
       /\ Taken(w, e, e.id)
  /\ EndCycle(w)
  /\ UNCHANGED <<now, db, inbox, bounds>>

\* The INSERT, in a savepoint.  On IntegrityError the active row is somebody
\* else's and nothing is delivered.
Insert(w, c) ==
  LET e == [id |-> nextId, rule |-> c.rule, expr |-> c.expr, win |-> c.win,
            run |-> c.run, status |-> "sending", supp |-> FALSE,
            sentAt |-> NoTime, created |-> now, claimed |-> now]
  IN /\ pc[w] = "insert"
     /\ KeyFree(w, c)
     /\ nextId' = nextId + 1
     /\ \/ Taken(w, c, nextId) /\ Finish(w, c) /\ UNCHANGED rows
        \/ ~Taken(w, c, nextId) /\ Hold(w, c, e)
     /\ UNCHANGED <<now, live, enabled, expr, runs, events, wakeAt, off, inbox,
                    bounds>>

Replace(w, e, marked) ==
  rows' = [rows EXCEPT ![w] = (@ \ {e}) \union {marked}]

\* Mutant: the sender's result is not looked at.
RefusedAsSent(w, e) ==
  Refusals /\ Replace(w, e, Sent(e)) /\ UNCHANGED <<inbox, lost>>

\* The outcomes of HttpTelegramSender.send, with mark_sent or mark_suppressed
\* of the row e that w holds.
Refused(w, e) ==
  Refusals /\ Replace(w, e, Suppressed(e)) /\ UNCHANGED <<inbox, lost>>

Delivered(w, c, e) ==
  /\ inbox' = Append(inbox, [rule |-> c.rule, expr |-> c.expr, win |-> c.win,
                             at |-> now])
  /\ \/ Replace(w, e, Sent(e)) /\ UNCHANGED lost
     \/ /\ lost < MaxLosses    \* the reply is lost
        /\ lost' = lost + 1
        /\ Replace(w, e, Suppressed(e))

Send(w, c) ==
  /\ pc[w] = "send"
  /\ \E e \in rows[w] :
       /\ e.id = mem[w].hold
       /\ Delivered(w, c, e) \/ Refused(w, e)
  /\ Finish(w, c)
  /\ UNCHANGED <<now, db, wakeAt, off, crashes, aborts, edits>>

\* disable_rule: waits for another open transaction that updates the rule.  (The
\* rule still exists: a candidate has a run, and DeleteRule excludes that.)
Disable(w, c) ==
  /\ pc[w] = "disable"
  /\ \A v \in Workers \ {w} : c.rule \notin off[v]
  /\ off' = [off EXCEPT ![w] = @ \union {c.rule}]
  /\ pc'  = [pc EXCEPT ![w] = "pick"]
  /\ mem' = [mem EXCEPT ![w] = DropCandidate(@, c)]
  /\ UNCHANGED <<now, db, wakeAt, rows, inbox, bounds>>

Commit(w) ==
  /\ pc[w] = "pick"
  /\ mem[w].cands = {}
  /\ events'  = Visible(w)
  /\ enabled' = [r \in Rules |-> enabled[r] /\ r \notin off[w]]
  /\ EndCycle(w)
  /\ UNCHANGED <<now, live, expr, runs, nextId, inbox, bounds>>

-----------------------------------------------------------------------------
(* What goes wrong, what the users do, and time.                           *)

\* A database error in the delivery loop: run_loop rolls everything back.
Abort(w) ==
  /\ pc[w] \in DeliveryPc
  /\ aborts < MaxAborts
  /\ aborts' = aborts + 1
  /\ EndCycle(w)
  /\ UNCHANGED <<now, db, inbox, crashes, lost, edits>>

\* The process dies and is restarted (restart: unless-stopped): the open
\* transaction is rolled back, and the new process begins with a cycle.
Crash(w) ==
  /\ crashes < MaxCrashes
  /\ crashes' = crashes + 1
  /\ Idle(w, now)
  /\ UNCHANGED <<now, db, inbox, aborts, lost, edits>>

\* _confirm_notification, action edit: update_rule with a new expression.
EditRule(r, x) ==
  /\ r \in live
  /\ x # expr[r]
  /\ edits < MaxEdits
  /\ \A w \in Workers : r \notin off[w]
  /\ expr'  = [expr EXCEPT ![r] = x]
  /\ edits' = edits + 1
  /\ UNCHANGED <<now, live, enabled, runs, events, nextId, worker, inbox,
                 crashes, aborts, lost>>

\* delete_rule.  Its runs refer to it without ON DELETE: the DELETE of a rule
\* that was ever evaluated fails.  Its events keep NULL for the rule.
DeleteRule(r) ==
  /\ r \in live
  /\ runs[r] = <<>>
  /\ live'   = live \ {r}
  /\ events' = {IF e.rule = r THEN [e EXCEPT !.rule = NoRule] ELSE e : e \in events}
  /\ UNCHANGED <<now, enabled, expr, runs, nextId, worker, inbox, bounds>>

Tick ==
  /\ now < MaxTime
  /\ now' = now + 1
  /\ UNCHANGED <<db, worker, inbox, bounds>>

\* The bounded run is over: all workers sleep beyond the last instant.
Horizon ==
  /\ now = MaxTime
  /\ \A w \in Workers : pc[w] = "sleep" /\ wakeAt[w] > now
  /\ UNCHANGED vars

\* A worker's own progress, as opposed to what happens to it.
Step(w) ==
  \/ LockBusy(w) \/ ListRules(w) \/ ReleaseLock(w) \/ ReclaimConflicts(w)
  \/ Commit(w)
  \/ \E r \in FirstRule(mem[w].todo) :
       CheckDue(w, r) \/ ClaimRaises(w, r) \/ Evaluate(w, r)
  \/ \E c \in FirstCandidate(mem[w].cands) :
       \/ SkipTwin(w, c) \/ Decide(w, c) \/ Look(w, c) \/ Reclaim(w, c)
       \/ Insert(w, c) \/ Send(w, c) \/ Disable(w, c)

Init ==
  /\ now     = 1
  /\ live    = Rules
  /\ enabled = [r \in Rules |-> TRUE]
  /\ expr    = FirstExpr
  /\ runs    = [r \in Rules |-> <<>>]
  /\ events  = {[id |-> r, rule |-> r, expr |-> FirstExpr[r], win |-> WindowOf(1),
                 run |-> NoRun, status |-> "pending", supp |-> FALSE,
                 sentAt |-> NoTime, created |-> 0, claimed |-> 0] : r \in Legacy}
  /\ nextId  = FirstId
  /\ pc      = [w \in Workers |-> "sleep"]
  /\ wakeAt  = [w \in Workers |-> 1]
  /\ mem     = [w \in Workers |-> NoMem]
  /\ rows    = [w \in Workers |-> {}]
  /\ off     = [w \in Workers |-> {}]
  /\ inbox   = <<>>
  /\ crashes = 0
  /\ aborts  = 0
  /\ lost    = 0
  /\ edits   = 0

Next ==
  \/ \E w \in Workers : Step(w) \/ Abort(w) \/ Crash(w)
  \/ \E r \in Rules : DeleteRule(r) \/ \E x \in Exprs : EditRule(r, x)
  \/ Tick
  \/ Horizon

Spec == Init /\ [][Next]_vars

\* asyncio and PostgreSQL let every running worker make progress; crashes,
\* database errors, the users and the clock are under no obligation.
Fairness == \A w \in Workers : WF_vars(Step(w))
FairSpec == Spec /\ Fairness

-----------------------------------------------------------------------------
(* Properties.                                                             *)

TypeOK ==
  /\ now \in Nat
  /\ live \subseteq Rules
  /\ enabled \in [Rules -> BOOLEAN]
  /\ expr \in [Rules -> Exprs]
  /\ runs \in [Rules -> Seq(Nat)]
  /\ events \subseteq EventRow
  /\ nextId \in Nat
  /\ pc \in [Workers -> Pc]
  /\ wakeAt \in [Workers -> Nat]
  /\ mem \in [Workers -> Mem]
  /\ rows \in [Workers -> SUBSET EventRow]
  /\ off \in [Workers -> SUBSET Rules]
  /\ inbox \in Seq(Message)
  /\ crashes \in Nat
  /\ aborts \in Nat
  /\ lost \in Nat
  /\ edits \in Nat

\* However the transactions of the workers interleave, abort or die, there is
\* at most one committed pending, sending or sent row per rule, expression and
\* window (the partial unique index, and the waits it causes).
ActiveKeyUnique ==
  \A e, f \in events : Active(e) /\ Active(f) /\ SameKey(e, f) => e = f

\* A row in status 'sending' is never committed: its transaction also settles
\* it.  The lease and the reclaim of create_event_once can therefore only ever
\* meet the rows that migration 003 left 'pending'.
SettledAtCommit ==
  \A e \in events : Active(e) /\ e.status # "sent" => e.run = NoRun

\* Telegram never receives the same rule, expression and window twice: with two
\* workers, refused messages and rules edited while a cycle runs, but without
\* crashes, database errors and lost replies (the dedupe key's purpose).
DeliveredOnce ==
  \A i, j \in DOMAIN inbox : SameKey(inbox[i], inbox[j]) => i = j

\* The other workers can each overwrite, with what they read before it was
\* settled, a row that migration 003 left 'pending'; if its key has an active row
\* again the UPDATE fails, and the messages of its transaction lose their records.
Overwrites == Cardinality(Legacy) * (Cardinality(Workers) - 1)

\* Every message that is sent again has its own reason: a transaction that was
\* rolled back after the message had gone out, by a crash or a database error; a
\* reply that was lost; or a legacy row another worker had settled meanwhile.  Of
\* all retries, leases and later cycles nothing else repeats a message.
ResendsExplained ==
  \A i \in DOMAIN inbox :
    Cardinality({j \in DOMAIN inbox : SameKey(inbox[i], inbox[j])})
      <= 1 + crashes + aborts + lost + Overwrites

InFlight == UNION {rows[w] : w \in Workers}

\* The ledger and the chat agree at every instant: a message has a sent row of
\* its key and time, committed or in the open transaction of its worker, and
\* a sent row has its message (the result of send decides between mark_sent
\* and mark_suppressed, and nothing undoes it).
LedgerMatchesInbox ==
  LET recorded == {[rule |-> e.rule, expr |-> e.expr, win |-> e.win,
                    at |-> e.sentAt] :
                     e \in {f \in events \union InFlight : f.status = "sent"}}
  IN recorded = {inbox[i] : i \in DOMAIN inbox}

\* A once: rule stops being enabled in the very commit that records its event;
\* and it is never disabled without a record of it or of its twin that was
\* delivered in its place (evaluate_rules disables it for either).
OnceSettled ==
  \A r \in live : Kind[r] = "once" =>
    LET marked(q) == \E e \in events : e.rule = q /\ e.run # NoRun
    IN /\ marked(r) => ~enabled[r]
       /\ ~enabled[r] => \E q \in Rules : Twin[q] = Twin[r] /\ marked(q)

\* The lock is held during the claim only, so several workers may all find a
\* slot due; but each of them evaluates it at most once, since every later claim
\* sees a run (or raises, with two of them).
SlotRunsBounded ==
  \A r \in Rules : Kind[r] = "cron" =>
    \A s \in 0..MaxTime :
      Cardinality({i \in DOMAIN runs[r] : SlotOf(runs[r][i]) = s})
        <= Cardinality(Workers)

\* With one worker, two messages of a rule are more than its cooldown apart,
\* whatever their expressions and windows.
CooldownRespected ==
  \A i, j \in DOMAIN inbox :
    i < j /\ inbox[i].rule = inbox[j].rule => inbox[i].at + Cooldown < inbox[j].at

\* A sent row is final: no later cycle suppresses it or claims it again, even
\* when its lease is over.
SentIsFinal ==
  [][\A e \in events : e.status = "sent" => e \in events']_vars

\* Every cycle ends: the workers never wait for each other's rows for ever, and
\* the delivery loop terminates.
CycleEnds == \A w \in Workers : (pc[w] # "sleep") ~> (pc[w] = "sleep")

-----------------------------------------------------------------------------
(* Why ActiveKeyUnique and SettledAtCommit hold: what is true of the open  *)
(* transactions whenever one of them may commit.                           *)

Final(e) == e.status \in {"sent", "suppressed"}

\* Ids come from the sequence, and a transaction sees one row per id.
IdsFresh ==
  /\ \A e \in events : e.id < nextId
  /\ \A w \in Workers : \A e \in rows[w] : e.id < nextId

IdsUnique ==
  /\ \A e, f \in events : e.id = f.id => e = f
  /\ \A w \in Workers : \A e, f \in rows[w] : e.id = f.id => e = f

\* Only the row a worker is sending is not final yet.
RowsFinal ==
  \A w \in Workers : \A e \in rows[w] :
    IF pc[w] = "send" /\ e.id = mem[w].hold THEN e.status = "sending" ELSE Final(e)

\* The row a worker is about to reclaim is not one it has written.
ReclaimForeign ==
  \A w \in Workers : pc[w] = "reclaim" => \A e \in rows[w] : e.id # mem[w].hold

\* Two open transactions never hold rows of one key.
KeysExclusive ==
  \A v, w \in Workers : v # w =>
    \A e \in rows[v], f \in rows[w] : ~SameKey(e, f)

\* No active row a worker has written has a second one in its sight.
KeysVisible ==
  \A w \in Workers : \A e \in rows[w], f \in Visible(w) :
    Active(e) /\ Active(f) /\ SameKey(e, f) => e.id = f.id

\* The inductive invariant: the open transactions of the workers never disagree
\* about a row, a key or an id, so that any of them may commit at any time
\* (create_event_once, the unique index, and mark_sent or mark_suppressed in
\* the transaction that wrote the row).
TransactionsAgree ==
  /\ IdsFresh
  /\ IdsUnique
  /\ RowsFinal
  /\ ReclaimForeign
  /\ KeysExclusive
  /\ KeysVisible
  /\ ActiveKeyUnique
  /\ SettledAtCommit

-----------------------------------------------------------------------------
(* The abstract promise, seen through the chat and the committed ledger.   *)

Key       == [rule : Rules, expr : Exprs, win : 0..WindowOf(MaxTime)]
KeyRec(x) == [rule |-> x.rule, expr |-> x.expr, win |-> x.win]

Contract == INSTANCE NotificationContract WITH
  Keys      <- Key,
  delivered <- [i \in DOMAIN inbox |-> KeyRec(inbox[i])],
  recorded  <- {KeyRec(e) : e \in {f \in events : f.status = "sent"}}

\* The workers implement the contract where nothing crashes and no reply is
\* lost: no key is delivered twice or recorded without having been delivered,
\* no record is taken back, and every delivery is eventually recorded.
ImplementsContract == Contract!FairSpec
=============================================================================
