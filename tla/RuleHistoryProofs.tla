-------------------------- MODULE RuleHistoryProofs --------------------------
(***************************************************************************)
(* Proofs about RuleHistory, for any rules, schedules, intervals and       *)
(* retention settings.                                                     *)
(*                                                                         *)
(* IInv is inductive.  What it adds to the properties is why deleting old  *)
(* rows is harmless: a cycle is shorter than a day, so that the runs it    *)
(* still needs are too young for any cleanup (InTime, Backed); a slot      *)
(* counts as evaluated by a run that is kept until the slot itself is more *)
(* than a day old, and the last slot never is (Remembered); and a message  *)
(* has its event until no forecast can have the message's window any more  *)
(* (Accounted).                                                            *)
(***************************************************************************)
EXTENDS RuleHistory, WellFoundedInduction, TLAPS

Started == now >= Day

\* A cycle knows the instant of its claim, less than MaxDuration ago.
InTime ==
  worker.pc = "working" => /\ worker.from \in Day .. now
                           /\ now <= worker.from + MaxDuration

\* A candidate of the delivery loop has a run of this cycle behind it.
Backed ==
  \A c \in worker.won :
    /\ worker.pc = "working"
    /\ c.rule \notin worker.todo
    /\ c.run \in worker.from .. now
    /\ c.window = WindowOf(c.run)
    /\ \E run \in runs : run.rule = c.rule /\ run.at = c.run

OnePerRule == \A c, d \in worker.won : c.rule = d.rule => c = d

Remembered ==
  \A p \in evaluated :
    \/ p[2] + Day < now
    \/ \E run \in runs : run.rule = p[1] /\ run.at >= p[2]

\* A message is as old as its window at the most.
Dated == \A m \in told : m.at <= now /\ m.window.last * Day <= m.at

Accounted ==
  \A m \in told :
    \/ m.at + 2 * Day < now
    \/ \E e \in events : /\ e.rule = m.rule /\ e.window = m.window
                          /\ e.status = "sent" /\ e.at >= m.at

Ledger == Keep["events"] >= 2 => Accounted /\ OneMessagePerWindow

IInv ==
  /\ TypeOK
  /\ Started
  /\ InTime
  /\ Backed
  /\ OnePerRule
  /\ LogExplainable
  /\ Remembered
  /\ SlotEvaluatedOnce
  /\ Dated
  /\ Ledger

-----------------------------------------------------------------------------
(* The clock.                                                              *)

\* Division of the clock into days.
LEMMA DayParts ==
  ASSUME NEW t \in Nat
  PROVE  /\ DayOf(t) \in Nat
         /\ DayOf(t) * Day <= t
         /\ t < DayOf(t) * Day + Day
         /\ t % Day \in 0 .. Day - 1
         /\ t = DayOf(t) * Day + (t % Day)
BY HistoryAssumption DEF DayOf

LEMMA HourOfDay ==
  ASSUME NEW h \in 0 .. Day - 1, NEW q \in Nat
  PROVE  (q * Day + h) % Day = h
<1>1. q * Day \in Nat
  BY HistoryAssumption
<1>2. PICK t \in Nat : t = q * Day + h
  BY <1>1, HistoryAssumption
<1>3. PICK p \in Nat : p = DayOf(t)
  BY DayParts
<1>4. PICK k \in 0 .. Day - 1 : k = t % Day
  BY DayParts
<1>5. t = p * Day + k
  BY <1>3, <1>4, DayParts
<1>6. q = p
  <2>1. CASE q < p
    <3>1. q + 1 <= p
      BY <2>1
    <3>2. (q + 1) * Day <= p * Day
      BY <3>1, HistoryAssumption
    <3> QED
      BY <3>2, <1>1, <1>2, <1>5, HistoryAssumption
  <2>2. CASE p < q
    <3>1. (p + 1) * Day <= q * Day
      BY <2>2, HistoryAssumption
    <3> QED
      BY <3>1, <1>1, <1>2, <1>5, HistoryAssumption
  <2> QED
    BY <2>1, <2>2
<1> QED
  BY <1>1, <1>2, <1>4, <1>5, <1>6, HistoryAssumption

\* A cron: rule has a last slot, less than a day ago.
LEMMA LastSlot ==
  ASSUME NEW r \in Rules, Slots[r] # {}, NEW t \in Nat, t >= Day
  PROVE  /\ SlotOf(r, t) \in 0 .. t
         /\ IsSlot(r, SlotOf(r, t))
         /\ t - SlotOf(r, t) < Day
<1> DEFINE T == {d \in 0 .. t : IsSlot(r, t - d)}
<1>1. PICK h \in Slots[r] : TRUE
  OBVIOUS
<1>2. h \in 0 .. Day - 1
  BY HistoryAssumption
<1>3. t - h \in Nat
  BY <1>2, HistoryAssumption
<1>4. PICK d \in 0 .. Day - 1 : t - h = DayOf(t - h) * Day + d
  BY <1>3, DayParts
<1>5. t - d = DayOf(t - h) * Day + h
  <2>1. DayOf(t - h) * Day \in Int
    BY <1>3, DayParts, HistoryAssumption
  <2> QED
    BY <1>2, <1>4, <2>1, HistoryAssumption
<1>6. (t - d) % Day = h
  BY <1>2, <1>3, <1>5, DayParts, HourOfDay
<1>7. d \in T
  BY <1>4, <1>6, HistoryAssumption DEF IsSlot
<1>8. PICK m \in T : \A k \in T : ~(<<k, m>> \in OpToRel(<, Nat))
  <2>1. T \subseteq Nat /\ T # {}
    BY <1>7
  <2> QED
    BY <2>1, WFMin, NatLessThanWellFounded, Zenon
<1>9. \A k \in T : k >= m
  <2>1. T \subseteq Nat
    OBVIOUS
  <2>2. SUFFICES ASSUME NEW k \in T, k < m PROVE FALSE
    BY <2>1
  <2>3. <<k, m>> \in OpToRel(<, Nat)
    BY <2>1, <2>2 DEF OpToRel
  <2> QED
    BY <2>3, <1>8
<1>10. m <= d
  BY <1>7, <1>9
<1>11. /\ t - m \in 0 .. t
       /\ IsSlot(r, t - m)
       /\ \A u \in t - m + 1 .. t : ~IsSlot(r, u)
  <2>1. SUFFICES ASSUME NEW u \in t - m + 1 .. t, IsSlot(r, u) PROVE FALSE
    OBVIOUS
  <2>2. t - u \in 0 .. t /\ t - (t - u) = u /\ t - u < m
    BY HistoryAssumption
  <2>3. t - u \in T
    BY <2>1, <2>2
  <2> QED
    BY <2>2, <2>3, <1>9
<1>12. PICK s : s = SlotOf(r, t)
  OBVIOUS
<1>13. /\ s \in 0 .. t
       /\ IsSlot(r, s)
       /\ \A u \in s + 1 .. t : ~IsSlot(r, u)
  BY <1>11, <1>12 DEF SlotOf
<1>14. s >= t - m
  <2> SUFFICES ASSUME s < t - m PROVE FALSE
    BY <1>13
  <2>1. t - m \in s + 1 .. t
    BY <1>13
  <2> QED
    BY <2>1, <1>11, <1>13
<1> QED
  BY <1>4, <1>10, <1>12, <1>13, <1>14, HistoryAssumption

\* The window of a forecast begins and ends at days.
LEMMA WindowType ==
  ASSUME NEW t \in Nat, t >= Day
  PROVE  /\ WindowOf(t) \in Window
         /\ WindowOf(t).last * Day <= t
         /\ t < WindowOf(t).last * Day + Day
<1>1. t - Lookback \in Nat
  BY HistoryAssumption
<1> QED
  BY <1>1, DayParts DEF WindowOf, Window

\* What is kept for k days is kept for k * Day.
LEMMA KeptDays ==
  ASSUME NEW kind \in Kinds
  PROVE  /\ Keep[kind] * Day >= Day
         /\ Keep[kind] >= 2 => Keep[kind] * Day >= 2 * Day
<1>1. PICK k \in Nat \ {0} : k = Keep[kind]
  BY KeepAssumption
<1>2. k * Day >= Day
  BY HistoryAssumption
<1>3. k >= 2 => k * Day >= 2 * Day
  BY HistoryAssumption
<1> QED
  BY <1>1, <1>2, <1>3

\* A run of the cycle at hand is too young for a cleanup.
LEMMA YoungRun ==
  ASSUME IInv, worker.pc = "working", NEW at \in worker.from .. now, NEW kind \in Kinds
  PROVE  ~Expired(kind, at)
<1>1. /\ now \in Nat /\ worker.from \in Nat /\ at \in Nat
      /\ now <= worker.from + MaxDuration
  BY DEF IInv, TypeOK, InTime, Worker
<1>2. Keep[kind] * Day \in Nat
  BY KeepAssumption, HistoryAssumption
<1> QED
  BY <1>1, <1>2, KeptDays, HistoryAssumption DEF Expired

-----------------------------------------------------------------------------
(* The worker's steps.                                                     *)

\* The process between two cycles, or down.
LEMMA RestingStep ==
  ASSUME TypeOK, NEW pc \in {"down", "asleep"}, NEW wake \in Nat, worker' = Resting(pc, wake)
  PROVE  worker' \in Worker /\ worker'.pc # "working" /\ worker'.won = {}
BY DEF Resting, Worker

LEMMA TroubleType ==
  ASSUME TypeOK, Trouble
  PROVE  calm' \in BOOLEAN /\ spent' \in [{"troubles", "cleanups"} -> Nat]
<1>1. spent["troubles"] + 1 \in Nat
  BY DEF TypeOK
<1> QED
  BY <1>1 DEF TypeOK, Trouble

\* The claim: a rule found due has not had its slot evaluated.
LEMMA ClaimStep ==
  ASSUME IInv, Claim
  PROVE  IInv'
<1> DEFINE due == {r \in Rules : IsDue(r, now)}
<1>1. /\ worker'.pc = "working" /\ worker'.from = now /\ worker'.todo = due
      /\ worker'.won = {} /\ worker' \in Worker
  BY DEF Claim, Cycle, Worker, IInv, TypeOK
<1>2. UNCHANGED <<now, tables, histories, spent>>
  BY DEF Claim
<1> USE <1>2 DEF IInv, tables, histories
<1>3. TypeOK'
  BY <1>1 DEF TypeOK
<1>4. InTime' /\ Started'
  BY <1>1, HistoryAssumption DEF InTime, Started, TypeOK
<1>5. Backed' /\ OnePerRule'
  BY <1>1 DEF Backed, OnePerRule
<1>6. SlotEvaluatedOnce'
  <2> SUFFICES ASSUME NEW r \in due, Slots[r] # {}, <<r, SlotOf(r, now)>> \in evaluated
               PROVE  FALSE
    BY <1>1 DEF SlotEvaluatedOnce, Slot
  <2>1. now \in Nat /\ now >= Day
    BY DEF TypeOK, Started
  <2>2. SlotOf(r, now) \in 0 .. now /\ now - SlotOf(r, now) < Day
    BY <2>1, LastSlot
  <2>3. ~ \E run \in runs : run.rule = r /\ run.at >= SlotOf(r, now)
    BY DEF IsDue, Unhandled
  <2>4. ~ (SlotOf(r, now) + Day < now)
    BY <2>1, <2>2, HistoryAssumption
  <2> QED
    BY <2>3, <2>4 DEF Remembered
<1>7. LogExplainable' /\ Remembered' /\ Dated' /\ Ledger'
  BY DEF LogExplainable, Explanation, Remembered, Dated, Ledger, Accounted, OneMessagePerWindow
<1> QED
  BY <1>3, <1>4, <1>5, <1>6, <1>7

\* The cycle goes on without the rule it was at.
LEMMA AfterStep ==
  ASSUME IInv, NEW r \in Rules, Turn(r), NEW won, worker' = After(r, won)
  PROVE  /\ worker.pc = "working" /\ r \in worker.todo
         /\ worker'.pc = "working" /\ worker'.from = worker.from
         /\ worker'.todo = worker.todo \ {r} /\ worker'.won = won
         /\ won \subseteq [rule : Rules, run : Nat, window : Window] => worker' \in Worker
BY DEF IInv, TypeOK, Worker, Turn, After, Cycle

\* A run stored at the turn of a rule: the slot it is for is evaluated now.
LEMMA StoreStep ==
  ASSUME IInv, NEW r \in Rules, Turn(r), NEW snap \in BOOLEAN, StoreRun(r, snap),
         NEW won, worker' = After(r, won), UNCHANGED now
  PROVE  /\ runs' \subseteq Run
         /\ evaluated' \subseteq Rules \X Nat
         /\ Remembered'
         /\ SlotEvaluatedOnce'
<1>1. /\ worker.pc = "working" /\ r \in worker.todo
      /\ worker'.pc = "working" /\ worker'.from = worker.from
      /\ worker'.todo = worker.todo \ {r}
  BY AfterStep
<1>2. /\ now \in Nat /\ worker.from \in Nat /\ worker.from >= Day
      /\ worker.from <= now
  BY <1>1, HistoryAssumption DEF IInv, TypeOK, InTime, Worker
<1>3. Slots[r] # {} => Slot(r) \in Nat /\ Slot(r) <= now
  <2>1. Slots[r] # {} => SlotOf(r, worker.from) \in 0 .. worker.from
    BY <1>2, LastSlot
  <2> QED
    BY <1>2, <2>1 DEF Slot
<1> DEFINE row == [rule |-> r, at |-> now, snap |-> snap]
<1>4. runs' = runs \union {row}
  BY DEF StoreRun
<1>5. evaluated' = evaluated \union (IF Slots[r] = {} THEN {} ELSE {<<r, Slot(r)>>})
  BY DEF StoreRun, Evaluated
<1>6. runs' \subseteq Run
  BY <1>2, <1>4 DEF Run, IInv, TypeOK
<1>7. evaluated' \subseteq Rules \X Nat
  BY <1>3, <1>5 DEF IInv, TypeOK
<1>8. Remembered'
  <2> SUFFICES ASSUME NEW p \in evaluated'
               PROVE  \/ p[2] + Day < now
                      \/ \E run \in runs' : run.rule = p[1] /\ run.at >= p[2]
    BY DEF Remembered
  <2>1. CASE p \in evaluated
    BY <1>4, <2>1 DEF IInv, Remembered
  <2>2. CASE p = <<r, Slot(r)>> /\ Slots[r] # {}
    <3>1. row \in runs' /\ row.rule = r /\ row.at = now
      BY <1>4
    <3> QED
      BY <1>2, <1>3, <2>2, <3>1
  <2> QED
    BY <1>5, <2>1, <2>2
<1>9. SlotEvaluatedOnce'
  <2> SUFFICES ASSUME NEW q \in worker.todo \ {r}, Slots[q] # {}
               PROVE  <<q, SlotOf(q, worker.from)>> \notin evaluated'
    BY <1>1 DEF SlotEvaluatedOnce, Slot
  <2>1. <<q, SlotOf(q, worker.from)>> \notin evaluated
    BY <1>1 DEF IInv, SlotEvaluatedOnce, Slot
  <2> QED
    BY <1>5, <2>1
<1> QED
  BY <1>6, <1>7, <1>8, <1>9

LEMMA EvaluateStep ==
  ASSUME IInv, NEW r \in Rules, NEW holds \in BOOLEAN, Evaluate(r, holds)
  PROVE  IInv'
<1> DEFINE won == IF holds THEN worker.won \union {Candidate(r)} ELSE worker.won
           row == [rule |-> r, at |-> now, snap |-> TRUE]
<1>1. /\ Turn(r) /\ StoreRun(r, TRUE) /\ worker' = After(r, won)
      /\ snapshots' = snapshots \union {[rule |-> r, at |-> now]}
      /\ UNCHANGED <<now, events, others, slept, told, calm, spent>>
  BY DEF Evaluate
<1>2. /\ worker.pc = "working" /\ r \in worker.todo
      /\ worker'.pc = "working" /\ worker'.from = worker.from
      /\ worker'.todo = worker.todo \ {r} /\ worker'.won = won
      /\ won \subseteq [rule : Rules, run : Nat, window : Window] => worker' \in Worker
  BY <1>1, AfterStep
<1>3. /\ now \in Nat /\ now >= Day /\ worker.from \in Nat /\ worker.from <= now
  BY <1>2 DEF IInv, TypeOK, Started, InTime, Worker
<1>4. /\ runs' \subseteq Run /\ evaluated' \subseteq Rules \X Nat
      /\ Remembered' /\ SlotEvaluatedOnce'
  BY <1>1, StoreStep
<1>5. runs' = runs \union {row} /\ row \in runs' /\ row.rule = r /\ row.at = now /\ row.snap
  BY <1>1 DEF StoreRun
<1> HIDE DEF row
<1>6. /\ Candidate(r) \in [rule : Rules, run : Nat, window : Window]
      /\ Candidate(r).rule = r /\ Candidate(r).run = now
      /\ Candidate(r).window = WindowOf(now)
  BY <1>3, WindowType DEF Candidate
<1>7. won \subseteq worker.won \union {Candidate(r)}
  OBVIOUS
<1> HIDE DEF won
<1>8. TypeOK'
  <2>1. worker' \in Worker
    BY <1>2, <1>6, <1>7 DEF IInv, TypeOK, Worker
  <2>2. snapshots' \subseteq Snapshot
    BY <1>1, <1>3 DEF IInv, TypeOK, Snapshot
  <2> QED
    BY <1>1, <1>4, <2>1, <2>2 DEF IInv, TypeOK
<1>9. InTime' /\ Started'
  BY <1>1, <1>2 DEF IInv, InTime, Started
<1>10. Backed'
  <2> SUFFICES ASSUME NEW c \in won
               PROVE  /\ c.rule \notin worker.todo \ {r}
                      /\ c.run \in worker.from .. now
                      /\ c.window = WindowOf(c.run)
                      /\ \E run \in runs' : run.rule = c.rule /\ run.at = c.run
    BY <1>1, <1>2 DEF Backed, WindowOf, DayOf
  <2>1. CASE c \in worker.won
    BY <1>5, <2>1 DEF IInv, Backed
  <2>2. CASE c = Candidate(r)
    BY <1>3, <1>5, <1>6, <2>2
  <2> QED
    BY <1>7, <2>1, <2>2
<1>11. OnePerRule'
  <2>1. \A c \in worker.won : c.rule # r
    BY <1>2 DEF IInv, Backed
  <2> QED
    BY <1>2, <1>6, <1>7, <2>1 DEF IInv, OnePerRule
<1>12. LogExplainable'
  <2>1. \A e \in events : Explanation(e)' # {}
    BY <1>5 DEF IInv, LogExplainable, Explanation, EventRefs
  <2>2. \A run \in runs' : run.snap => \E s \in snapshots' : RunRefs(s, run)
    <3>1. PICK s \in snapshots' : s = [rule |-> r, at |-> now]
      BY <1>1
    <3>2. RunRefs(s, row)
      BY <1>5, <3>1 DEF RunRefs
    <3> QED
      BY <1>1, <1>5, <3>2 DEF IInv, LogExplainable
  <2> QED
    BY <1>1, <2>1, <2>2 DEF LogExplainable, Explanation
<1>13. Dated' /\ Ledger'
  BY <1>1 DEF IInv, Dated, Ledger, Accounted, OneMessagePerWindow
<1> QED
  BY <1>4, <1>8, <1>9, <1>10, <1>11, <1>12, <1>13 DEF IInv

LEMMA RefreshFailsStep ==
  ASSUME IInv, NEW r \in Rules, RefreshFails(r)
  PROVE  IInv'
<1> DEFINE row == [rule |-> r, at |-> now, snap |-> FALSE]
<1>1. /\ Turn(r) /\ StoreRun(r, FALSE) /\ worker' = After(r, worker.won) /\ Trouble
      /\ UNCHANGED <<now, snapshots, events, others, slept, told>>
  BY DEF RefreshFails
<1>2. /\ worker.pc = "working" /\ r \in worker.todo
      /\ worker'.pc = "working" /\ worker'.from = worker.from
      /\ worker'.todo = worker.todo \ {r} /\ worker'.won = worker.won
      /\ worker.won \subseteq [rule : Rules, run : Nat, window : Window] => worker' \in Worker
  BY <1>1, AfterStep
<1>3. /\ runs' \subseteq Run /\ evaluated' \subseteq Rules \X Nat
      /\ Remembered' /\ SlotEvaluatedOnce'
  BY <1>1, StoreStep
<1>4. runs' = runs \union {row} /\ ~row.snap
  BY <1>1 DEF StoreRun
<1> HIDE DEF row
<1>5. TypeOK'
  <2>1. worker' \in Worker
    BY <1>2 DEF IInv, TypeOK, Worker
  <2> QED
    BY <1>1, <1>3, <2>1, TroubleType DEF IInv, TypeOK
<1>6. InTime' /\ Started'
  BY <1>1, <1>2 DEF IInv, InTime, Started
<1>7. Backed' /\ OnePerRule'
  BY <1>1, <1>2, <1>4 DEF IInv, Backed, OnePerRule, WindowOf, DayOf
<1>8. LogExplainable'
  BY <1>1, <1>4 DEF IInv, LogExplainable, Explanation, EventRefs, RunRefs
<1>9. Dated' /\ Ledger'
  BY <1>1 DEF IInv, Dated, Ledger, Accounted, OneMessagePerWindow
<1> QED
  BY <1>3, <1>5, <1>6, <1>7, <1>8, <1>9 DEF IInv

LEMMA EvaluationRaisesStep ==
  ASSUME IInv, NEW r \in Rules, EvaluationRaises(r)
  PROVE  IInv'
<1>1. /\ Turn(r) /\ worker' = After(r, worker.won) /\ Trouble
      /\ UNCHANGED <<now, tables, slept, evaluated, told>>
  BY DEF EvaluationRaises
<1>2. /\ worker.pc = "working" /\ r \in worker.todo
      /\ worker'.pc = "working" /\ worker'.from = worker.from
      /\ worker'.todo = worker.todo \ {r} /\ worker'.won = worker.won
      /\ worker.won \subseteq [rule : Rules, run : Nat, window : Window] => worker' \in Worker
  BY <1>1, AfterStep
<1> USE <1>1 DEF IInv, tables
<1>3. TypeOK'
  <2>1. worker' \in Worker
    BY <1>2 DEF TypeOK, Worker
  <2> QED
    BY <2>1, TroubleType DEF TypeOK
<1>4. InTime' /\ Started'
  BY <1>2 DEF InTime, Started
<1>5. Backed' /\ OnePerRule'
  BY <1>2 DEF Backed, OnePerRule, WindowOf, DayOf
<1>6. SlotEvaluatedOnce'
  BY <1>2 DEF SlotEvaluatedOnce, Slot
<1>7. LogExplainable' /\ Remembered'
  BY DEF LogExplainable, Explanation, Remembered
<1>8. Dated' /\ Ledger'
  BY DEF Dated, Ledger, Accounted, OneMessagePerWindow
<1> QED
  BY <1>3, <1>4, <1>5, <1>6, <1>7, <1>8

\* The delivery loop: a message has an event of its own, and no earlier one has
\* its window.
LEMMA DeliverStep ==
  ASSUME IInv, NEW refused \in SUBSET worker.won, Deliver(refused)
  PROVE  IInv'
<1> DEFINE fresh == {c \in worker.won : ~AlreadyTold(c)}
           tried == {c \in fresh : ~CoolingDown(c)}
           sent  == tried \ refused
           MessageOf(c) == [rule |-> c.rule, window |-> c.window, at |-> now]
<1>1. /\ events' = events \union {EventOf(c, "sent") : c \in sent}
                         \union {EventOf(c, "suppressed") : c \in fresh \ sent}
      /\ others' = others \union {[kind |-> "audit", at |-> now] : c \in fresh}
      /\ told' = told \union {MessageOf(c) : c \in sent}
      /\ worker' = Asleep(now + Interval)
      /\ slept' = now
      /\ UNCHANGED <<now, snapshots, runs, evaluated>>
  BY DEF Deliver
<1>2. /\ worker.pc = "working" /\ now \in Nat /\ now >= Day
      /\ worker.from \in Nat /\ worker.from <= now
      /\ now <= worker.from + MaxDuration
      /\ worker.won \subseteq [rule : Rules, run : Nat, window : Window]
  BY DEF IInv, TypeOK, Started, InTime, Worker, Deliver
<1>3. sent \subseteq fresh /\ fresh \subseteq worker.won
  OBVIOUS
<1>4. \A c \in sent : ~AlreadyTold(c)
  OBVIOUS
<1> HIDE DEF fresh, tried, sent
<1>5. worker' \in Worker /\ worker'.pc # "working" /\ worker'.won = {}
  <2>1. now + Interval \in Nat
    BY <1>2, HistoryAssumption
  <2> QED
    BY <1>1, <2>1, RestingStep DEF Asleep, IInv
<1>6. calm' \in BOOLEAN /\ spent' \in [{"troubles", "cleanups"} -> Nat]
  <2>1. CASE UNCHANGED spent /\ calm' = (calm /\ Brisk)
    BY <2>1 DEF IInv, TypeOK
  <2>2. CASE Trouble
    BY <2>2, TroubleType DEF IInv
  <2> QED
    BY <2>1, <2>2 DEF Deliver
<1>7. \A c \in worker.won, status \in {"sent", "suppressed"} :
        /\ EventOf(c, status) \in Event
        /\ EventOf(c, status).rule = c.rule /\ EventOf(c, status).run = c.run
        /\ EventOf(c, status).window = c.window /\ EventOf(c, status).at = now
        /\ EventOf(c, status).status = status
  BY <1>2 DEF EventOf, Event
<1>8. \A c \in worker.won :
        /\ MessageOf(c) \in Message
        /\ MessageOf(c).rule = c.rule /\ MessageOf(c).window = c.window
        /\ MessageOf(c).at = now
  BY <1>2 DEF Message
<1>9. \A c \in worker.won :
        /\ c.run \in Nat /\ c.run >= Day /\ c.run <= now /\ now <= c.run + Day
        /\ c.window.last \in Nat
        /\ c.window.last * Day <= c.run
        /\ c.run < c.window.last * Day + Day
  <2> SUFFICES ASSUME NEW c \in worker.won
               PROVE  /\ c.run \in Nat /\ c.run >= Day /\ c.run <= now /\ now <= c.run + Day
                      /\ c.window.last \in Nat
                      /\ c.window.last * Day <= c.run
                      /\ c.run < c.window.last * Day + Day
    OBVIOUS
  <2>1. /\ c.run \in Nat /\ c.run \in worker.from .. now /\ c.window = WindowOf(c.run)
        /\ worker.from >= Day
    BY <1>2 DEF IInv, Backed, InTime
  <2>2. c.run >= Day /\ c.run <= now /\ now <= c.run + Day
    BY <1>2, <2>1, HistoryAssumption
  <2>3. /\ WindowOf(c.run) \in Window
        /\ WindowOf(c.run).last * Day <= c.run
        /\ c.run < WindowOf(c.run).last * Day + Day
    BY <2>1, <2>2, WindowType
  <2> QED
    BY <2>1, <2>2, <2>3 DEF Window
<1> HIDE DEF MessageOf
<1>10. TypeOK'
  <2>1. events' \subseteq Event
    BY <1>1, <1>3, <1>7 DEF IInv, TypeOK
  <2>2. others' \subseteq Other
    BY <1>1, <1>2 DEF IInv, TypeOK, Other
  <2>3. told' \subseteq Message
    BY <1>1, <1>3, <1>8 DEF IInv, TypeOK
  <2> QED
    BY <1>1, <1>5, <1>6, <2>1, <2>2, <2>3 DEF IInv, TypeOK
<1>11. Started' /\ InTime' /\ Backed' /\ OnePerRule' /\ SlotEvaluatedOnce'
  BY <1>1, <1>5 DEF IInv, Started, InTime, Backed, OnePerRule, SlotEvaluatedOnce
<1>12. LogExplainable'
  <2>1. \A c \in worker.won : \E run \in runs : run.rule = c.rule /\ run.at = c.run
    BY DEF IInv, Backed
  <2>2. \A e \in events' : \E run \in runs : EventRefs(run, e)
    <3> SUFFICES ASSUME NEW e \in events' PROVE \E run \in runs : EventRefs(run, e)
      OBVIOUS
    <3>1. CASE e \in events
      BY <3>1 DEF IInv, LogExplainable, Explanation
    <3>2. CASE \E c \in worker.won, status \in {"sent", "suppressed"} : e = EventOf(c, status)
      BY <1>7, <2>1, <3>2 DEF EventRefs
    <3> QED
      BY <1>1, <1>3, <3>1, <3>2
  <2> QED
    BY <1>1, <2>2 DEF IInv, LogExplainable, Explanation
<1>13. Remembered'
  BY <1>1 DEF IInv, Remembered
<1>14. Dated'
  <2> SUFFICES ASSUME NEW m \in told' PROVE m.at <= now /\ m.window.last * Day <= m.at
    BY <1>1 DEF Dated
  <2>1. CASE m \in told
    BY <2>1 DEF IInv, Dated
  <2>2. CASE \E c \in sent : m = MessageOf(c)
    <3>1. PICK c \in worker.won : m = MessageOf(c)
      BY <1>3, <2>2
    <3>2. c.window.last * Day \in Nat
      BY <1>9, HistoryAssumption
    <3> QED
      BY <1>2, <1>8, <1>9, <3>1, <3>2
  <2> QED
    BY <1>1, <2>1, <2>2
<1>15. ASSUME Keep["events"] >= 2
       PROVE  Accounted' /\ OneMessagePerWindow'
  <2>1. Accounted /\ OneMessagePerWindow
    BY <1>15 DEF IInv, Ledger
  <2>2. Accounted'
    <3> SUFFICES ASSUME NEW m \in told'
                 PROVE  \/ m.at + 2 * Day < now
                        \/ \E e \in events' : /\ e.rule = m.rule /\ e.window = m.window
                                               /\ e.status = "sent" /\ e.at >= m.at
      BY <1>1 DEF Accounted
    <3>1. CASE m \in told
      BY <1>1, <2>1, <3>1 DEF Accounted
    <3>2. CASE \E c \in sent : m = MessageOf(c)
      <4>1. PICK c \in sent : m = MessageOf(c)
        BY <3>2
      <4>2. EventOf(c, "sent") \in events' /\ c \in worker.won
        BY <1>1, <1>3
      <4> QED
        BY <1>2, <1>7, <1>8, <4>1, <4>2
    <3> QED
      BY <1>1, <3>1, <3>2
  <2>3. \A m \in told, c \in sent : ~(m.rule = c.rule /\ m.window = c.window)
    <3> SUFFICES ASSUME NEW m \in told, NEW c \in sent, m.rule = c.rule, m.window = c.window
                 PROVE  FALSE
      OBVIOUS
    <3>1. ~ \E e \in events : e.rule = c.rule /\ e.window = c.window /\ e.status = "sent"
      BY <1>4 DEF AlreadyTold
    <3>2. m.at + 2 * Day < now
      BY <2>1, <3>1 DEF Accounted
    <3>3. m.at \in Nat /\ c.window.last * Day <= m.at
      BY DEF IInv, TypeOK, Message, Dated
    <3>4. PICK d \in Nat : d = c.window.last * Day
      BY <1>3, <1>9, HistoryAssumption
    <3>5. c.run \in Nat /\ now <= c.run + Day /\ c.run < d + Day
      BY <1>3, <1>9, <3>4
    <3> QED
      BY <1>2, <3>2, <3>3, <3>4, <3>5, HistoryAssumption
  <2>4. \A c, d \in sent : MessageOf(c).rule = MessageOf(d).rule => c = d
    BY <1>3, <1>8 DEF IInv, OnePerRule
  <2>5. OneMessagePerWindow'
    <3> SUFFICES ASSUME NEW m \in told', NEW n \in told', m.rule = n.rule, m.window = n.window
                 PROVE  m = n
      BY DEF OneMessagePerWindow
    <3>1. \A c \in sent : MessageOf(c).rule = c.rule /\ MessageOf(c).window = c.window
      BY <1>3, <1>8
    <3>2. CASE m \in told /\ n \in told
      BY <2>1, <3>2 DEF OneMessagePerWindow
    <3>3. CASE (\E c \in sent : m = MessageOf(c)) /\ (\E c \in sent : n = MessageOf(c))
      BY <2>4, <3>3
    <3>4. CASE m \in told /\ \E c \in sent : n = MessageOf(c)
      BY <2>3, <3>1, <3>4
    <3>5. CASE n \in told /\ \E c \in sent : m = MessageOf(c)
      BY <2>3, <3>1, <3>5
    <3> QED
      BY <1>1, <3>2, <3>3, <3>4, <3>5
  <2> QED
    BY <2>2, <2>5
<1> QED
  BY <1>10, <1>11, <1>12, <1>13, <1>14, <1>15 DEF IInv, Ledger

\* What follows from the process being between two cycles afterwards.
LEMMA IdleStep ==
  ASSUME IInv, worker' \in Worker, worker'.pc # "working", worker'.won = {},
         slept' \in Nat, calm' \in BOOLEAN,
         spent' \in [{"troubles", "cleanups"} -> Nat],
         UNCHANGED <<now, tables, evaluated, told>>
  PROVE  IInv'
<1> USE DEF IInv, tables
<1>1. TypeOK'
  BY DEF TypeOK
<1>2. Started' /\ InTime' /\ Backed' /\ OnePerRule' /\ SlotEvaluatedOnce'
  BY DEF Started, InTime, Backed, OnePerRule, SlotEvaluatedOnce
<1>3. LogExplainable' /\ Remembered'
  BY DEF LogExplainable, Explanation, Remembered
<1>4. Dated' /\ Ledger'
  BY DEF Dated, Ledger, Accounted, OneMessagePerWindow
<1> QED
  BY <1>1, <1>2, <1>3, <1>4

LEMMA CrashStep ==
  ASSUME IInv, Crash
  PROVE  IInv'
<1>1. worker' \in Worker /\ worker'.pc # "working" /\ worker'.won = {}
  BY RestingStep DEF IInv, TypeOK, Crash
<1>2. calm' \in BOOLEAN /\ spent' \in [{"troubles", "cleanups"} -> Nat]
  BY TroubleType DEF IInv, Crash
<1> QED
  BY <1>1, <1>2, IdleStep DEF Crash, IInv, TypeOK

LEMMA RestartStep ==
  ASSUME IInv, Restart
  PROVE  IInv'
<1>1. worker' \in Worker /\ worker'.pc # "working" /\ worker'.won = {}
  BY RestingStep DEF IInv, TypeOK, Restart, Asleep
<1> QED
  BY <1>1, IdleStep DEF Restart, IInv, TypeOK

-----------------------------------------------------------------------------
(* The cleanups.                                                           *)

\* Whatever a cleanup deletes is old; and what is old is no longer needed.
LEMMA DeletionStep ==
  ASSUME IInv, UNCHANGED <<now, worker, histories>>,
         spent' \in [{"troubles", "cleanups"} -> Nat],
         snapshots' \subseteq snapshots, others' \subseteq others,
         runs' \subseteq runs, runs \ runs' \subseteq OldRuns,
         events' \subseteq events, events \ events' \subseteq OldEvents,
         LogExplainable'
  PROVE  IInv'
<1> USE DEF histories
<1>1. now \in Nat /\ {"runs", "events"} \subseteq Kinds
  BY DEF IInv, TypeOK, Kinds
<1>2. /\ Keep["runs"] * Day \in Nat /\ Keep["runs"] * Day >= Day
      /\ Keep["events"] * Day \in Nat
      /\ Keep["events"] >= 2 => Keep["events"] * Day >= 2 * Day
  BY <1>1, KeptDays, KeepAssumption, HistoryAssumption
<1>3. TypeOK' /\ Started' /\ InTime'
  BY DEF IInv, TypeOK, Started, InTime
<1>4. Backed'
  <2> SUFFICES ASSUME NEW c \in worker.won
               PROVE  \E run \in runs' : run.rule = c.rule /\ run.at = c.run
    BY DEF IInv, Backed, WindowOf, DayOf
  <2>1. PICK run \in runs : run.rule = c.rule /\ run.at = c.run
    BY DEF IInv, Backed
  <2>2. ~Expired("runs", run.at)
    BY <1>1, <2>1, YoungRun DEF IInv, Backed
  <2> QED
    BY <2>1, <2>2 DEF OldRuns
<1>5. OnePerRule' /\ SlotEvaluatedOnce' /\ Dated'
  BY DEF IInv, OnePerRule, SlotEvaluatedOnce, Slot, Dated
<1>6. Remembered'
  <2> SUFFICES ASSUME NEW p \in evaluated, ~(p[2] + Day < now)
               PROVE  \E run \in runs' : run.rule = p[1] /\ run.at >= p[2]
    BY DEF Remembered
  <2>1. PICK run \in runs : run.rule = p[1] /\ run.at >= p[2]
    BY DEF IInv, Remembered
  <2>2. p[2] \in Nat /\ run.at \in Nat
    BY DEF IInv, TypeOK, Run
  <2>3. ~Expired("runs", run.at)
    BY <1>1, <1>2, <2>1, <2>2, HistoryAssumption DEF Expired
  <2> QED
    BY <2>1, <2>3 DEF OldRuns
<1>7. Ledger'
  <2> SUFFICES ASSUME Keep["events"] >= 2, NEW m \in told, ~(m.at + 2 * Day < now)
               PROVE  \E e \in events' : /\ e.rule = m.rule /\ e.window = m.window
                                         /\ e.status = "sent" /\ e.at >= m.at
    BY DEF IInv, Ledger, Accounted, OneMessagePerWindow
  <2>1. PICK e \in events : /\ e.rule = m.rule /\ e.window = m.window
                            /\ e.status = "sent" /\ e.at >= m.at
    BY DEF IInv, Ledger, Accounted
  <2>2. m.at \in Nat /\ e.at \in Nat
    BY DEF IInv, TypeOK, Message, Event
  <2>3. ~Expired("events", e.at)
    BY <1>1, <1>2, <2>1, <2>2, HistoryAssumption DEF Expired
  <2> QED
    BY <2>1, <2>3 DEF OldEvents
<1> QED
  BY <1>3, <1>4, <1>5, <1>6, <1>7 DEF IInv

LEMMA CleaningType ==
  ASSUME TypeOK, Cleaning
  PROVE  spent' \in [{"troubles", "cleanups"} -> Nat]
<1>1. spent["cleanups"] + 1 \in Nat
  BY DEF TypeOK
<1> QED
  BY <1>1 DEF TypeOK, Cleaning

\* What goes together leaves no reference behind.
LEMMA RunAllCleanupStep ==
  ASSUME IInv, RunAllCleanup
  PROVE  IInv'
<1>1. LogExplainable'
  <2>1. \A e \in events' : \E run \in runs' : EventRefs(run, e)
    <3> SUFFICES ASSUME NEW e \in events \ OldEvents
                 PROVE  \E run \in runs \ OldRuns : EventRefs(run, e)
      BY DEF RunAllCleanup
    <3>1. PICK run \in runs : EventRefs(run, e)
      BY DEF IInv, LogExplainable, Explanation
    <3>2. run \notin OldRuns
      BY <3>1 DEF RunAllCleanup, CleanupRaises
    <3> QED
      BY <3>1, <3>2
  <2>2. \A run \in runs' : run.snap => \E s \in snapshots' : RunRefs(s, run)
    <3> SUFFICES ASSUME NEW run \in runs, run.snap
                 PROVE  \E s \in snapshots \ OldSnapshots : RunRefs(s, run)
      BY DEF RunAllCleanup
    <3>1. PICK s \in snapshots : RunRefs(s, run)
      BY DEF IInv, LogExplainable
    <3>2. s \notin OldSnapshots
      BY <3>1 DEF RunAllCleanup, CleanupRaises
    <3> QED
      BY <3>1, <3>2
  <2> QED
    BY <2>1, <2>2 DEF LogExplainable, Explanation
<1>2. runs' = runs \ OldRuns /\ events' = events \ OldEvents
      /\ snapshots' = snapshots \ OldSnapshots /\ others' = others \ OldOthers
      /\ Cleaning
  BY DEF RunAllCleanup
<1>3. UNCHANGED <<now, worker, histories>> /\ spent' \in [{"troubles", "cleanups"} -> Nat]
  BY <1>2, CleaningType DEF Cleaning, IInv
<1> QED
  BY <1>1, <1>2, <1>3, DeletionStep

LEMMA CleanupRawForecastsStep ==
  ASSUME IInv, CleanupRawForecasts
  PROVE  IInv'
<1>1. /\ snapshots' = snapshots \ OldSnapshots /\ UNCHANGED <<runs, events, others>>
      /\ ~ \E s \in OldSnapshots, run \in runs : RunRefs(s, run)
      /\ Cleaning
  BY DEF CleanupRawForecasts
<1>2. LogExplainable'
  BY <1>1 DEF IInv, LogExplainable, Explanation
<1>3. UNCHANGED <<now, worker, histories>> /\ spent' \in [{"troubles", "cleanups"} -> Nat]
  BY <1>1, CleaningType DEF Cleaning, IInv
<1> QED
  BY <1>1, <1>2, <1>3, DeletionStep

LEMMA CleanupTraceDataStep ==
  ASSUME IInv, CleanupTraceData
  PROVE  IInv'
<1>1. /\ runs' = runs \ OldRuns /\ UNCHANGED <<snapshots, events, others>>
      /\ ~ \E run \in OldRuns, e \in events : EventRefs(run, e)
      /\ Cleaning
  BY DEF CleanupTraceData
<1>2. LogExplainable'
  BY <1>1 DEF IInv, LogExplainable, Explanation
<1>3. UNCHANGED <<now, worker, histories>> /\ spent' \in [{"troubles", "cleanups"} -> Nat]
  BY <1>1, CleaningType DEF Cleaning, IInv
<1> QED
  BY <1>1, <1>2, <1>3, DeletionStep

LEMMA CleanupNotificationLogStep ==
  ASSUME IInv, CleanupNotificationLog
  PROVE  IInv'
<1>1. /\ events' = events \ OldEvents /\ UNCHANGED <<snapshots, runs, others>>
      /\ Cleaning
  BY DEF CleanupNotificationLog
<1>2. LogExplainable'
  BY <1>1 DEF IInv, LogExplainable, Explanation
<1>3. UNCHANGED <<now, worker, histories>> /\ spent' \in [{"troubles", "cleanups"} -> Nat]
  BY <1>1, CleaningType DEF Cleaning, IInv
<1> QED
  BY <1>1, <1>2, <1>3, DeletionStep

LEMMA CleanupOtherStep ==
  ASSUME IInv, NEW kind, CleanupOther(kind)
  PROVE  IInv'
<1>1. /\ others' \subseteq others /\ UNCHANGED <<snapshots, runs, events>>
      /\ Cleaning
  BY DEF CleanupOther
<1>2. LogExplainable'
  BY <1>1 DEF IInv, LogExplainable, Explanation
<1>3. UNCHANGED <<now, worker, histories>> /\ spent' \in [{"troubles", "cleanups"} -> Nat]
  BY <1>1, CleaningType DEF Cleaning, IInv
<1> QED
  BY <1>1, <1>2, <1>3, DeletionStep

LEMMA CleanupFailsStep ==
  ASSUME IInv, CleanupFails
  PROVE  IInv'
<1>1. UNCHANGED tables /\ Cleaning
  BY DEF CleanupFails
<1>2. LogExplainable'
  BY <1>1 DEF IInv, LogExplainable, Explanation, tables
<1>3. UNCHANGED <<now, worker, histories>> /\ spent' \in [{"troubles", "cleanups"} -> Nat]
  BY <1>1, CleaningType DEF Cleaning, IInv
<1> QED
  BY <1>1, <1>2, <1>3, DeletionStep DEF tables

-----------------------------------------------------------------------------

LEMMA TickStep ==
  ASSUME IInv, Tick
  PROVE  IInv'
<1>1. /\ now' = now + 1 /\ UNCHANGED <<worker, tables, histories, spent>>
      /\ worker.pc = "working" => now < worker.from + MaxDuration
  BY DEF Tick
<1>2. now \in Nat
  BY DEF IInv, TypeOK
<1> USE <1>1 DEF tables, histories
<1>3. TypeOK' /\ Started'
  BY <1>2, HistoryAssumption DEF IInv, TypeOK, Started
<1>4. InTime'
  BY <1>2, HistoryAssumption DEF IInv, InTime, TypeOK, Worker
<1>5. Backed'
  <2> SUFFICES ASSUME NEW c \in worker.won PROVE c.run \in worker.from .. now + 1
    BY DEF IInv, Backed, WindowOf, DayOf
  <2>1. c.run \in worker.from .. now /\ worker.from \in Nat
    BY DEF IInv, Backed, TypeOK, Worker
  <2> QED
    BY <1>2, <2>1
<1>6. OnePerRule' /\ SlotEvaluatedOnce' /\ LogExplainable'
  BY DEF IInv, OnePerRule, SlotEvaluatedOnce, Slot, LogExplainable, Explanation
<1>7. Remembered'
  <2> SUFFICES ASSUME NEW p \in evaluated, p[2] + Day < now PROVE p[2] + Day < now + 1
    BY DEF IInv, Remembered
  <2>1. p[2] \in Nat
    BY DEF IInv, TypeOK
  <2> QED
    BY <1>2, <2>1, HistoryAssumption
<1>8. \A m \in told : m.at \in Nat
  BY DEF IInv, TypeOK, Message
<1>9. Dated'
  BY <1>2, <1>8 DEF IInv, Dated
<1>10. Ledger'
  <2> SUFFICES ASSUME NEW m \in told, m.at + 2 * Day < now PROVE m.at + 2 * Day < now + 1
    BY DEF IInv, Ledger, Accounted, OneMessagePerWindow
  <2> QED
    BY <1>2, <1>8, HistoryAssumption
<1> QED
  BY <1>3, <1>4, <1>5, <1>6, <1>7, <1>9, <1>10 DEF IInv

LEMMA StutterStep ==
  ASSUME IInv, UNCHANGED vars
  PROVE  IInv'
<1>1. LogExplainable'
  BY DEF IInv, LogExplainable, Explanation, vars, tables
<1> QED
  BY <1>1, DeletionStep DEF IInv, TypeOK, vars, tables

LEMMA InitialState ==
  ASSUME Init
  PROVE  IInv
<1> USE DEF Init
<1>1. TypeOK
  BY HistoryAssumption DEF TypeOK, Worker, Asleep, Resting, Start, Snapshot, Run, Event, Other
<1>2. Started /\ InTime /\ Backed /\ OnePerRule /\ SlotEvaluatedOnce
  BY HistoryAssumption
  DEF Started, InTime, Backed, OnePerRule, SlotEvaluatedOnce, Asleep, Resting, Start
<1>3. LogExplainable /\ Remembered /\ Dated /\ Ledger
  BY DEF LogExplainable, Remembered, Dated, Ledger, Accounted, OneMessagePerWindow
<1> QED
  BY <1>1, <1>2, <1>3 DEF IInv

LEMMA InvariantStep ==
  ASSUME IInv, [Next]_vars
  PROVE  IInv'
<1>1. CASE Work
  BY <1>1, ClaimStep, EvaluateStep, RefreshFailsStep, EvaluationRaisesStep, DeliverStep,
     CrashStep, RestartStep DEF Work
<1>2. CASE Cleanup
  BY <1>2, RunAllCleanupStep, CleanupFailsStep, CleanupRawForecastsStep,
     CleanupTraceDataStep, CleanupNotificationLogStep, CleanupOtherStep DEF Cleanup
<1>3. CASE Tick
  BY <1>3, TickStep
<1>4. CASE Exhausted
  BY <1>4, StutterStep DEF Exhausted
<1>5. CASE UNCHANGED vars
  BY <1>5, StutterStep
<1> QED
  BY <1>1, <1>2, <1>3, <1>4, <1>5 DEF Next

LEMMA Invariance == Spec => []IInv
<1> QED
  BY InitialState, InvariantStep, PTL DEF Spec

\* Type correctness.
THEOREM TypeCorrect == Spec => []TypeOK
<1>1. IInv => TypeOK
  BY DEF IInv
<1> QED
  BY <1>1, Invariance, PTL

\* No slot of a cron: rule is evaluated twice, although the runs that say so are
\* deleted: whatever the retention settings, the interval and the schedule.
THEOREM SlotEvaluatedOnceCorrect == Spec => []SlotEvaluatedOnce
<1>1. IInv => SlotEvaluatedOnce
  BY DEF IInv
<1> QED
  BY <1>1, Invariance, PTL

\* No order of cleanups leaves an event without its run, or a run without its
\* forecast.
THEOREM LogExplainableCorrect == Spec => []LogExplainable
<1>1. IInv => LogExplainable
  BY DEF IInv
<1> QED
  BY <1>1, Invariance, PTL

\* Events kept for two days are enough for a rule never to tell its chat twice of
\* one forecast window, for any number of slots a day.
THEOREM OneMessagePerWindowCorrect ==
  ASSUME Keep["events"] >= 2
  PROVE  Spec => []OneMessagePerWindow
<1>1. IInv => OneMessagePerWindow
  BY DEF IInv, Ledger
<1> QED
  BY <1>1, Invariance, PTL

-----------------------------------------------------------------------------
(* What holds because of when things happen.  A sleep of the worker loses  *)
(* the slots of its first instants only, and the health endpoint does not  *)
(* report a worker that is well.                                           *)
(*                                                                         *)
(* TInv is inductive together with IInv.  It says how old the rows can be: *)
(* a sleeping worker claims an interval and a delay after its last cycle   *)
(* (Rested) and writes nothing before (Past); as long as nothing went wrong, that cycle *)
(* has left a run that is half an interval older than its end at the most  *)
(* (Recent), and the next one leaves another before it ends (Covered).     *)

Rows == runs \union events

Rested ==
  /\ slept <= now
  /\ worker.pc # "down" => worker.wake <= slept + Interval
  /\ worker.pc = "asleep" => now <= worker.wake + MaxLatency
  /\ worker.pc = "working" => worker.wake < worker.from

Past ==
  \A row \in Rows : row.at <= now /\ (worker.pc = "asleep" => row.at <= slept)

SnapshotsPast == \A s \in snapshots : s.at <= now

\* Nothing goes wrong: no crash, and a forecast for every run.
Smooth == calm => worker.pc # "down" /\ \A run \in runs : run.snap

RunSince(r, t) == \E run \in runs : run.rule = r /\ run.at >= t

\* The cycle is through with an unscheduled rule when it has stored its run.
Covered ==
  calm /\ worker.pc = "working" =>
    \A r \in Rules \ worker.todo : Slots[r] = {} => RunSince(r, worker.from)

\* There is a run less than half an interval before t.
HalfOld(t) == \E run \in runs : 2 * run.at + Interval >= 2 * t

\* The same, an interval later.
OneAndHalfOld(t) == \E run \in runs : 2 * run.at + 3 * Interval >= 2 * t

Unscheduled == \E r \in Rules : Slots[r] = {}

Recent ==
  calm /\ Unscheduled /\ runs # {} =>
    /\ worker.pc = "asleep" => HalfOld(slept)
    /\ worker.pc = "working" => OneAndHalfOld(worker.wake)

TInv ==
  /\ Rested
  /\ Past
  /\ SnapshotsPast
  /\ SleepLosesOnlyItsStart
  /\ Smooth
  /\ Covered
  /\ Recent

-----------------------------------------------------------------------------
(* The rows and their instants.                                            *)

\* The types that the arithmetic needs.
LEMMA Instants ==
  ASSUME IInv
  PROVE  /\ now \in Nat /\ slept \in Nat
         /\ worker.wake \in Nat /\ worker.from \in Nat
         /\ \A row \in Rows : row.at \in Nat
         /\ \A s \in snapshots : s.at \in Nat
         /\ worker.pc \in {"down", "asleep", "working"}
BY DEF IInv, TypeOK, Worker, Rows, Run, Event, Snapshot

\* The newest of rows that are all in the past.
LEMMA NewestRow ==
  ASSUME now \in Nat, NEW rows, rows # {}, \A row \in rows : row.at \in 0 .. now
  PROVE  /\ Newest(rows) \in Nat
         /\ \A row \in rows : row.at <= Newest(rows)
<1> DEFINE T == {row.at : row \in rows}
           D == {now - t : t \in T}
<1>1. T # {} /\ T \subseteq 0 .. now
  OBVIOUS
<1>2. PICK d \in D : \A k \in D : ~(<<k, d>> \in OpToRel(<, Nat))
  <2>1. D \subseteq Nat /\ D # {}
    BY <1>1
  <2> QED
    BY <2>1, WFMin, NatLessThanWellFounded, Zenon
<1>3. PICK m \in T : d = now - m
  BY <1>2
<1> HIDE DEF T
<1>4. \A t \in T : m >= t
  <2> SUFFICES ASSUME NEW t \in T, m < t PROVE FALSE
    BY <1>1
  <2>1. now - t \in Nat /\ d \in Nat /\ now - t < d
    BY <1>1, <1>3
  <2>2. <<now - t, d>> \in OpToRel(<, Nat)
    BY <2>1 DEF OpToRel
  <2> QED
    BY <1>2, <2>2
<1>5. Max(T) \in T /\ \A t \in T : Max(T) >= t
  BY <1>4 DEF Max
<1>6. PICK n : n = Newest(rows)
  OBVIOUS
<1>7. n \in T /\ \A t \in T : n >= t
  BY <1>5, <1>6 DEF T, Newest
<1>8. n \in Nat /\ \A t \in T : t <= n
  BY <1>1, <1>7
<1>9. \A row \in rows : row.at \in T
  BY DEF T
<1> QED
  BY <1>6, <1>8, <1>9

\* Rows of the past that hold a recent one are fresh.
LEMMA FreshRows ==
  ASSUME now \in Nat, NEW rows, \A row \in rows : row.at \in 0 .. now,
         NEW row \in rows, NEW threshold \in Nat, now - row.at <= threshold
  PROVE  Fresh(rows, threshold)
<1>1. /\ Newest(rows) \in Nat
      /\ \A q \in rows : q.at <= Newest(rows)
  BY NewestRow
<1>2. row.at <= Newest(rows) /\ row.at \in 0 .. now
  BY <1>1
<1> QED
  BY <1>1, <1>2 DEF Fresh

-----------------------------------------------------------------------------
(* The worker's steps.                                                     *)

\* The claim: a slot of the sleep, but for the first instants, is in the window of a rule
\* that is due, and no row is as young as the slot.
LEMMA ClaimTime ==
  ASSUME IInv, TInv, Claim
  PROVE  TInv'
<1> DEFINE due == {r \in Rules : IsDue(r, now)}
<1>1. /\ worker.pc = "asleep" /\ now > worker.wake
      /\ worker'.pc = "working" /\ worker'.from = now /\ worker'.wake = worker.wake
      /\ worker'.todo = due /\ worker'.claimed = due
      /\ UNCHANGED <<now, snapshots, runs, events, slept, calm>>
  BY DEF Claim, Cycle, tables, histories
<1>2. /\ now \in Nat /\ slept \in Nat /\ worker.wake \in Nat
      /\ worker.wake <= slept + Interval /\ now <= worker.wake + MaxLatency
      /\ \A row \in Rows : row.at \in Nat /\ row.at <= slept
  BY <1>1, Instants DEF TInv, Rested, Past
<1>3. Rested' /\ Past' /\ SnapshotsPast' /\ Smooth'
  BY <1>1, <1>2 DEF TInv, Rested, Past, Rows, SnapshotsPast, Smooth
<1>4. SleepLosesOnlyItsStart'
  <2> SUFFICES ASSUME NEW r \in Rules, NEW s \in slept + MaxLatency .. now,
                      Slots[r] # {}, s = SlotOf(r, now)
               PROVE  r \in due
    BY <1>1 DEF SleepLosesOnlyItsStart
  <2>1. InWindow(s, now)
    BY <1>2, HistoryAssumption DEF InWindow
  <2>2. \A row \in Rows : row.at < s
    BY <1>2, HistoryAssumption
  <2>3. \A row \in Rows : ~(row.at >= s)
    BY <1>2, <2>2, HistoryAssumption
  <2>4. Unhandled(r, s)
    BY <2>3 DEF Unhandled, Rows
  <2> QED
    BY <2>1, <2>4 DEF IsDue
<1>5. Covered'
  BY <1>1 DEF Covered, IsDue
<1>6. Recent'
  <2> SUFFICES ASSUME calm, Unscheduled, runs # {} PROVE OneAndHalfOld(worker.wake)
    BY <1>1 DEF Recent, OneAndHalfOld
  <2>1. PICK run \in runs : 2 * run.at + Interval >= 2 * slept
    BY <1>1 DEF TInv, Recent, HalfOld
  <2>2. run.at \in Nat
    BY <1>2 DEF Rows
  <2>3. 2 * run.at + 3 * Interval >= 2 * worker.wake
    BY <1>2, <2>1, <2>2, HistoryAssumption
  <2> QED
    BY <2>3 DEF OneAndHalfOld
<1> QED
  BY <1>3, <1>4, <1>5, <1>6 DEF TInv

\* The turn of a rule, with a run if "stored".
LEMMA TurnTime ==
  ASSUME IInv, TInv, NEW r \in Rules, Turn(r), NEW won, worker' = After(r, won),
         UNCHANGED <<now, events, slept>>, runs \subseteq runs',
         \A run \in runs' : run \in runs \/ (run.at = now /\ (calm' => run.snap)),
         \A s \in snapshots' : s \in snapshots \/ s.at = now,
         calm' => calm /\ \E run \in runs' : run.rule = r /\ run.at = now,
         calm' \in BOOLEAN
  PROVE  TInv'
<1>1. /\ worker.pc = "working" /\ r \in worker.todo
      /\ worker'.pc = "working" /\ worker'.from = worker.from
      /\ worker'.todo = worker.todo \ {r} /\ worker'.wake = worker.wake
      /\ worker'.claimed = worker.claimed
  BY DEF Turn, After, Cycle, IInv, TypeOK, Worker
<1>2. /\ now \in Nat /\ worker.from \in Nat /\ worker.from <= now
      /\ worker.wake \in Nat /\ worker.wake < worker.from
  BY <1>1, Instants DEF IInv, InTime, TInv, Rested
<1>3. Rested' /\ Past' /\ SnapshotsPast'
  BY <1>1, <1>2 DEF TInv, Rested, Past, Rows, SnapshotsPast
<1>4. SleepLosesOnlyItsStart'
  BY <1>1 DEF TInv, SleepLosesOnlyItsStart
<1>5. Smooth'
  BY <1>1 DEF TInv, Smooth
<1>6. Covered'
  <2> SUFFICES ASSUME calm', NEW q \in Rules, q \notin worker.todo \/ q = r, Slots[q] = {}
               PROVE  \E run \in runs' : run.rule = q /\ run.at >= worker.from
    BY <1>1 DEF Covered, RunSince
  <2>1. CASE q \notin worker.todo
    BY <1>1, <2>1 DEF TInv, Covered, RunSince
  <2>2. CASE q = r
    <3>1. PICK run \in runs' : run.rule = r /\ run.at = now
      OBVIOUS
    <3> QED
      BY <1>2, <2>2, <3>1
  <2> QED
    BY <2>1, <2>2
<1>7. Recent'
  <2> SUFFICES ASSUME calm' PROVE \E run \in runs' : 2 * run.at + 3 * Interval >= 2 * worker.wake
    BY <1>1 DEF Recent, OneAndHalfOld
  <2>1. PICK run \in runs' : run.rule = r /\ run.at = now
    OBVIOUS
  <2> QED
    BY <1>2, <2>1, HistoryAssumption
<1> QED
  BY <1>3, <1>4, <1>5, <1>6, <1>7 DEF TInv

LEMMA EvaluateTime ==
  ASSUME IInv, TInv, NEW r \in Rules, NEW holds \in BOOLEAN, Evaluate(r, holds)
  PROVE  TInv'
<1> DEFINE row == [rule |-> r, at |-> now, snap |-> TRUE]
           won == IF holds THEN worker.won \union {Candidate(r)} ELSE worker.won
<1>1. /\ Turn(r) /\ worker' = After(r, won)
      /\ snapshots' = snapshots \union {[rule |-> r, at |-> now]}
      /\ runs' = runs \union {row}
      /\ UNCHANGED <<now, events, slept, calm>>
  BY DEF Evaluate, StoreRun
<1>2. row.rule = r /\ row.at = now /\ row.snap
  OBVIOUS
<1> HIDE DEF row, won
<1>3. calm \in BOOLEAN
  BY DEF IInv, TypeOK
<1>4. \A s \in snapshots' : s \in snapshots \/ s.at = now
  BY <1>1
<1>5. /\ runs \subseteq runs'
      /\ \A run \in runs' : run \in runs \/ (run.at = now /\ (calm' => run.snap))
      /\ \E run \in runs' : run.rule = r /\ run.at = now
  BY <1>1, <1>2
<1>6. /\ UNCHANGED <<now, events, slept>>
      /\ calm' => calm /\ \E run \in runs' : run.rule = r /\ run.at = now
      /\ calm' \in BOOLEAN
  BY <1>1, <1>3, <1>5
<1>7. Turn(r) /\ worker' = After(r, won)
  BY <1>1
<1> HIDE <1>1
<1> QED
  BY <1>4, <1>5, <1>6, <1>7, TurnTime
\* A run without a forecast, or none at all, ends the calm.
LEMMA TroubledTurnTime ==
  ASSUME IInv, TInv, NEW r \in Rules, RefreshFails(r) \/ EvaluationRaises(r)
  PROVE  TInv'
<1>1. /\ Turn(r) /\ worker' = After(r, worker.won) /\ calm' = FALSE
      /\ UNCHANGED <<now, snapshots, events, slept>>
  BY DEF RefreshFails, EvaluationRaises, Trouble, tables
<1>2. \/ UNCHANGED runs
      \/ runs' = runs \union {[rule |-> r, at |-> now, snap |-> FALSE]}
  BY DEF RefreshFails, EvaluationRaises, StoreRun, tables
<1>3. /\ runs \subseteq runs'
      /\ \A run \in runs' : run \in runs \/ (run.at = now /\ (calm' => run.snap))
  BY <1>1, <1>2
<1>4. /\ \A s \in snapshots' : s \in snapshots \/ s.at = now
      /\ calm' => calm /\ \E run \in runs' : run.rule = r /\ run.at = now
      /\ calm' \in BOOLEAN
  BY <1>1
<1> QED
  BY <1>1, <1>3, <1>4, TurnTime

\* The end of a cycle: the runs it has stored are as old as itself at the most.
LEMMA DeliverTime ==
  ASSUME IInv, TInv, NEW refused \in SUBSET worker.won, Deliver(refused)
  PROVE  TInv'
<1>1. /\ worker.pc = "working" /\ worker.todo = {}
      /\ worker'.pc = "asleep" /\ worker'.wake = now + Interval
      /\ slept' = now
      /\ UNCHANGED <<now, snapshots, runs>>
  BY DEF Deliver, Asleep, Resting
<1>2. /\ now \in Nat /\ now + Interval \in Nat /\ worker.from \in Nat
      /\ worker.wake \in Nat /\ worker.wake < worker.from
      /\ \A row \in Rows : row.at \in Nat /\ row.at <= now
  BY <1>1, Instants, HistoryAssumption DEF TInv, Past, Rested
<1>3. calm' => calm /\ 2 * (now - worker.wake) <= Interval
  BY DEF Deliver, Trouble, Brisk
<1>4. \A e \in events' : e \in events \/ e.at = now
  BY DEF Deliver, EventOf
<1>5. Rested' /\ SnapshotsPast' /\ Smooth' /\ SleepLosesOnlyItsStart' /\ Covered'
  BY <1>1, <1>2, <1>3, HistoryAssumption
  DEF TInv, Rested, SnapshotsPast, Smooth, SleepLosesOnlyItsStart, Covered
<1>6. Past'
  BY <1>1, <1>2, <1>4 DEF Past, Rows
<1>7. Recent'
  <2> SUFFICES ASSUME calm', Unscheduled PROVE HalfOld(now)
    BY <1>1 DEF Recent, HalfOld
  <2>1. PICK r \in Rules : Slots[r] = {}
    BY DEF Unscheduled
  <2>2. RunSince(r, worker.from)
    BY <1>1, <1>3, <2>1 DEF TInv, Covered
  <2>3. PICK run \in runs : run.at >= worker.from
    BY <2>2 DEF RunSince
  <2>4. run.at \in Nat
    BY <1>2 DEF Rows
  <2>5. 2 * run.at + Interval >= 2 * now
    BY <1>2, <1>3, <2>3, <2>4, HistoryAssumption
  <2> QED
    BY <2>5 DEF HalfOld
<1> QED
  BY <1>5, <1>6, <1>7 DEF TInv

LEMMA CrashTime ==
  ASSUME IInv, TInv, Crash
  PROVE  TInv'
<1>1. /\ worker'.pc = "down" /\ calm' = FALSE
      /\ UNCHANGED <<now, snapshots, runs, events, slept>>
  BY DEF Crash, Trouble, Resting, tables
<1> QED
  BY <1>1 DEF TInv, Rested, Past, Rows, SnapshotsPast, SleepLosesOnlyItsStart, Smooth, Covered, Recent

\* The process starts with what is in the database from before.
LEMMA RestartTime ==
  ASSUME IInv, TInv, Restart
  PROVE  TInv'
<1>1. /\ worker.pc = "down"
      /\ worker'.pc = "asleep" /\ worker'.wake = now /\ slept' = now
      /\ UNCHANGED <<now, snapshots, runs, events, calm>>
  BY DEF Restart, Asleep, Resting, tables
<1>2. now \in Nat
  BY Instants
<1>3. ~calm
  BY <1>1 DEF TInv, Smooth
<1> QED
  BY <1>1, <1>2, <1>3, HistoryAssumption
  DEF TInv, Rested, Past, Rows, SnapshotsPast, SleepLosesOnlyItsStart, Smooth, Covered, Recent

-----------------------------------------------------------------------------
(* The cleanups.                                                           *)

\* A cleanup deletes by age.
LEMMA CleanupEffect ==
  ASSUME Cleanup \/ UNCHANGED vars
  PROVE  /\ UNCHANGED <<now, worker, slept, calm>>
         /\ snapshots' \subseteq snapshots
         /\ runs' = runs \/ runs' = runs \ OldRuns
         /\ events' \subseteq events /\ events \ events' \subseteq OldEvents
BY DEF Cleanup, RunAllCleanup, CleanupFails, CleanupRawForecasts, CleanupTraceData,
       CleanupNotificationLog, CleanupOther, Cleaning, histories, tables, vars

\* When a run is deleted, those that are left are newer.
LEMMA CleanupTime ==
  ASSUME IInv, TInv, Cleanup \/ UNCHANGED vars
  PROVE  TInv'
<1>1. /\ UNCHANGED <<now, worker, slept, calm>>
      /\ snapshots' \subseteq snapshots
      /\ runs' = runs \/ runs' = runs \ OldRuns
      /\ events' \subseteq events /\ events \ events' \subseteq OldEvents
  BY CleanupEffect
<1>2. /\ now \in Nat /\ slept \in Nat /\ worker.from \in Nat /\ worker.wake \in Nat
      /\ \A row \in Rows : row.at \in Nat /\ row.at <= now
  BY Instants DEF TInv, Past
<1>3. {"runs", "events"} \subseteq Kinds
  BY DEF Kinds
<1>4. Rested' /\ Past' /\ SnapshotsPast' /\ Smooth'
  BY <1>1 DEF TInv, Rested, Past, Rows, SnapshotsPast, Smooth
<1>5. SleepLosesOnlyItsStart'
  BY <1>1 DEF TInv, SleepLosesOnlyItsStart
<1>6. Covered'
  <2> SUFFICES ASSUME calm, worker.pc = "working", NEW r \in Rules \ worker.todo, Slots[r] = {}
               PROVE  \E run \in runs' : run.rule = r /\ run.at >= worker.from
    BY <1>1 DEF Covered, RunSince
  <2>1. PICK run \in runs : run.rule = r /\ run.at >= worker.from
    BY DEF TInv, Covered, RunSince
  <2>2. run.at \in worker.from .. now
    BY <1>2, <2>1 DEF Rows
  <2>3. ~Expired("runs", run.at)
    BY <1>3, <2>2, YoungRun
  <2> QED
    BY <1>1, <2>1, <2>3 DEF OldRuns
<1>7. ASSUME NEW run \in runs, runs' # {}
      PROVE  \E left \in runs' : left.at >= run.at
  <2>1. CASE run \in runs'
    BY <1>2, <2>1 DEF Rows
  <2>2. CASE run \notin runs'
    <3>1. PICK left \in runs' : TRUE
      BY <1>7
    <3>2. Expired("runs", run.at)
      BY <1>1, <2>2 DEF OldRuns
    <3>3. CASE left.at >= run.at
      BY <3>3
    <3>4. CASE left.at < run.at
      <4>1. /\ Keep["runs"] * Day \in Nat
            /\ run.at \in Nat /\ left.at \in Nat
        BY <1>1, <1>2, <1>3, KeepAssumption, HistoryAssumption DEF Rows
      <4>2. Expired("runs", left.at)
        BY <1>2, <3>2, <3>4, <4>1 DEF Expired
      <4> QED
        BY <1>1, <2>2, <3>1, <4>2 DEF OldRuns
    <3>5. left.at \in Nat /\ run.at \in Nat
      BY <1>1, <1>2, <3>1 DEF Rows
    <3> QED
      BY <3>1, <3>3, <3>4, <3>5
  <2> QED
    BY <2>1, <2>2
<1>8. Recent'
  <2> SUFFICES ASSUME calm, Unscheduled, runs' # {}
               PROVE  /\ worker.pc = "asleep" => HalfOld(slept)'
                      /\ worker.pc = "working" => OneAndHalfOld(worker.wake)'
    BY <1>1 DEF Recent, HalfOld, OneAndHalfOld
  <2>1. runs # {} /\ \A run \in runs \union runs' : run.at \in Nat
    BY <1>1, <1>2 DEF Rows
  <2>2. ASSUME worker.pc = "asleep" PROVE HalfOld(slept)'
    <3>1. PICK run \in runs : 2 * run.at + Interval >= 2 * slept
      BY <2>1, <2>2 DEF TInv, Recent, HalfOld
    <3>2. PICK left \in runs' : left.at >= run.at
      BY <1>7
    <3>3. 2 * left.at + Interval >= 2 * slept
      BY <1>2, <2>1, <3>1, <3>2, HistoryAssumption
    <3> QED
      BY <1>1, <3>3 DEF HalfOld
  <2>3. ASSUME worker.pc = "working" PROVE OneAndHalfOld(worker.wake)'
    <3>1. PICK run \in runs : 2 * run.at + 3 * Interval >= 2 * worker.wake
      BY <2>1, <2>3 DEF TInv, Recent, OneAndHalfOld
    <3>2. PICK left \in runs' : left.at >= run.at
      BY <1>7
    <3>3. 2 * left.at + 3 * Interval >= 2 * worker.wake
      BY <1>2, <2>1, <3>1, <3>2, HistoryAssumption
    <3> QED
      BY <1>1, <3>3 DEF OneAndHalfOld
  <2> QED
    BY <2>2, <2>3
<1> QED
  BY <1>4, <1>5, <1>6, <1>8 DEF TInv

-----------------------------------------------------------------------------

\* A sleep ends in time: the delay of the claim is bounded.
LEMMA TickTime ==
  ASSUME IInv, TInv, Tick
  PROVE  TInv'
<1>1. /\ now' = now + 1 /\ UNCHANGED <<worker, snapshots, runs, events, slept, calm>>
      /\ worker.pc = "asleep" => now < worker.wake + MaxLatency
  BY DEF Tick, tables, histories
<1>2. /\ now \in Nat /\ slept \in Nat /\ worker.wake \in Nat /\ worker.from \in Nat
      /\ \A row \in Rows : row.at \in Nat
      /\ \A s \in snapshots : s.at \in Nat
  BY Instants
<1>3. Rested' /\ Past' /\ SnapshotsPast'
  BY <1>1, <1>2, HistoryAssumption DEF TInv, Rested, Past, Rows, SnapshotsPast
<1>4. worker.pc = "working" => now' # worker.from
  BY <1>1, <1>2 DEF IInv, InTime
<1>5. SleepLosesOnlyItsStart'
  BY <1>1, <1>4 DEF SleepLosesOnlyItsStart
<1>6. Smooth' /\ Covered' /\ Recent'
  BY <1>1 DEF TInv, Smooth, Covered, RunSince, Recent, HalfOld, OneAndHalfOld
<1> QED
  BY <1>3, <1>5, <1>6 DEF TInv

LEMMA InitialTime ==
  ASSUME Init
  PROVE  TInv
<1>1. /\ Start \in Nat /\ Start <= Start + Interval
      /\ Start <= Start + MaxLatency
  BY HistoryAssumption DEF Start
<1> QED
  BY <1>1
  DEF Init, Asleep, Resting, TInv, Rested, Past, Rows, SnapshotsPast, SleepLosesOnlyItsStart,
      Smooth, Covered, Recent

LEMMA TimeStep ==
  ASSUME IInv, TInv, [Next]_vars
  PROVE  TInv'
<1>1. CASE Work
  BY <1>1, ClaimTime, EvaluateTime, TroubledTurnTime, DeliverTime, CrashTime, RestartTime
  DEF Work
<1>2. CASE Cleanup \/ UNCHANGED vars
  BY <1>2, CleanupTime
<1>3. CASE Tick
  BY <1>3, TickTime
<1> QED
  BY <1>1, <1>2, <1>3 DEF Next, Exhausted

LEMMA TimeInvariance == Spec => [](IInv /\ TInv)
<1>1. IInv /\ TInv /\ [Next]_vars => (IInv /\ TInv)'
  BY InvariantStep, TimeStep
<1> QED
  BY <1>1, InitialState, InitialTime, PTL DEF Spec

\* Whatever the schedule, the interval and the delay of the claims: a sleep loses no slot
\* but those of its first instants, for as long as the claim after it is late.  No row can
\* hide a later one: a sleeping worker has written none since it fell asleep.
THEOREM SleepLosesOnlyItsStartCorrect == Spec => []SleepLosesOnlyItsStart
<1>1. TInv => SleepLosesOnlyItsStart
  BY DEF TInv
<1> QED
  BY <1>1, TimeInvariance, PTL

\* A forecast may be as old as a run may be: with a threshold of two intervals for
\* the forecasts too (the defaults are 15 and 120 minutes), for any retention and
\* any threshold of the worker's, a worker that is well is reported as ready.
THEOREM ReadyWhileCalmCorrect ==
  ASSUME ForecastStale >= 2 * Interval
  PROVE  Spec => []ReadyWhileCalm
<1>1. ASSUME IInv, TInv PROVE ReadyWhileCalm
  <2> SUFFICES ASSUME calm, runs # {}, Unscheduled, 2 * (now - worker.wake) <= Interval
               PROVE  Ready
    BY DEF ReadyWhileCalm, Unscheduled, Brisk
  <2>1. /\ now \in Nat /\ slept \in Nat /\ worker.wake \in Nat /\ worker.from \in Nat
        /\ \A row \in Rows : row.at \in Nat
        /\ \A s \in snapshots : s.at \in Nat
        /\ worker.pc \in {"down", "asleep", "working"}
    BY <1>1, Instants
  <2>2. /\ \A row \in runs : row.at \in 0 .. now
        /\ \A s \in snapshots : s.at \in 0 .. now
    BY <1>1, <2>1 DEF TInv, Past, SnapshotsPast, Rows
  <2>3. PICK run \in runs : now - run.at <= 2 * Interval
    <3>1. CASE worker.pc = "asleep"
      <4>1. worker.wake <= slept + Interval
        BY <1>1, <2>1, <3>1, HistoryAssumption DEF TInv, Rested
      <4>2. PICK run \in runs : 2 * run.at + Interval >= 2 * slept
        BY <1>1, <3>1 DEF TInv, Recent, HalfOld
      <4> QED
        BY <2>1, <2>2, <4>1, <4>2, HistoryAssumption
    <3>2. CASE worker.pc = "working"
      <4>1. PICK run \in runs : 2 * run.at + 3 * Interval >= 2 * worker.wake
        BY <1>1, <3>2 DEF TInv, Recent, OneAndHalfOld
      <4> QED
        BY <2>1, <2>2, <3>2, <4>1, HistoryAssumption
    <3> QED
      BY <1>1, <2>1, <3>1, <3>2 DEF TInv, Smooth
  <2>4. PICK s \in snapshots : s.at = run.at
    BY <1>1 DEF TInv, Smooth, IInv, LogExplainable, RunRefs
  <2>5. WorkerThreshold \in Nat /\ 2 * Interval <= WorkerThreshold
    <3>1. /\ WorkerStale \in Nat /\ 2 * Interval \in Nat
          /\ WorkerStale >= 2 * Interval \/ 2 * Interval >= WorkerStale
      BY HistoryAssumption
    <3> DEFINE T == {WorkerStale, 2 * Interval}
    <3>2. \E m \in T : \A t \in T : m >= t
      BY <3>1
    <3>3. Max(T) \in T /\ \A t \in T : Max(T) >= t
      BY <3>2 DEF Max
    <3> QED
      BY <3>1, <3>3 DEF WorkerThreshold
  <2>6. Fresh(runs, WorkerThreshold)
    <3>1. now - run.at <= WorkerThreshold
      BY <2>1, <2>2, <2>3, <2>5, HistoryAssumption
    <3> QED
      BY <2>1, <2>2, <2>5, <3>1, FreshRows
  <2>7. Fresh(snapshots, ForecastStale)
    <3>1. ForecastStale \in Nat /\ now - s.at <= ForecastStale
      BY <2>1, <2>2, <2>3, <2>4, HistoryAssumption
    <3> QED
      BY <2>1, <2>2, <3>1, FreshRows
  <2> QED
    BY <2>6, <2>7 DEF Ready
<1> QED
  BY <1>1, TimeInvariance, PTL

=============================================================================
