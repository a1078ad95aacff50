----------------------- MODULE NotificationOnceProofs -----------------------
(***************************************************************************)
(* Why a sent row stays, why a message is repeated only for a reason, why  *)
(* no key is delivered twice without one, why the workers implement        *)
(* NotificationContract, and why one worker keeps the cooldown: for any    *)
(* rules, expressions, edits and timing.  The first two hold whatever      *)
(* crashes, fails or is lost; the others where no process crashes, no      *)
(* statement of the delivery loop fails and no reply of Telegram is lost,  *)
(* each of which can resend a key; see the README.                         *)
(***************************************************************************)
EXTENDS NotificationDeliveryProofs, SequenceTheorems

\* No two workers find a row that migration 003 left: each would reclaim it,
\* and the later UPDATE overwrites what the earlier one has committed.
LegacyAlone == Legacy = {} \/ \A v, w \in Workers : v = w

Faultless ==
  /\ MaxCrashes = 0
  /\ MaxAborts = 0
  /\ MaxLosses = 0
  /\ LegacyAlone

-----------------------------------------------------------------------------
(* The inductive invariant: who holds what, whatever fails.                *)

\* A row that migration 003 left, as long as nobody has claimed it.
Waiting(e) == Legacy # {} /\ e.status = "pending"

\* Rows are open during the delivery only, candidates from the evaluation on.
Quiet(w) ==
  /\ pc[w] \notin DeliveryPc => rows[w] = {}
  /\ pc[w] \in {"sleep", "claim"} => mem[w].cands = {}

\* A cycle evaluates a rule once, so its candidates are of different rules.
OnePerRule(w) ==
  \A c \in mem[w].cands :
    /\ c.rule \notin mem[w].todo
    /\ \A d \in mem[w].cands : c.rule = d.rule => c = d

\* The row a worker is sending has the key of the candidate it is at.
HeldKey(w) ==
  pc[w] = "send" =>
    \A c \in FirstCandidate(mem[w].cands), e \in rows[w] :
      e.id = mem[w].hold => SameKey(e, c)

\* So has the one it is about to reclaim, which nobody else has touched.
ReclaimKey(w) ==
  pc[w] = "reclaim" =>
    \E e \in events :
      /\ e.id = mem[w].hold
      /\ Waiting(e)
      /\ \A c \in FirstCandidate(mem[w].cands) : SameKey(e, c)

RanHere(w) ==
  /\ \A e \in rows[w] : Ran(e.rule)
  /\ \A c \in mem[w].cands : Ran(c.rule)

WorkerSteady(w) ==
  Quiet(w) /\ OnePerRule(w) /\ HeldKey(w) /\ ReclaimKey(w) /\ RanHere(w)

\* A committed row waits to be claimed, or it is final and its rule stays.
EventsSteady == \A e \in events : Waiting(e) \/ (Final(e) /\ Ran(e.rule))

\* An open row is a new one, or the new version of one that waits.
RowsNew ==
  \A w \in Workers : \A e \in rows[w] :
    /\ \A f \in events : f.id = e.id => Waiting(f)
    /\ \A v \in Workers \ {w} : \A f \in rows[v] : f.id # e.id

Steady ==
  /\ \A w \in Workers : WorkerSteady(w)
  /\ EventsSteady
  /\ RowsNew

\* Where nothing fails, the ledger is that of the chat besides.
Once ==
  /\ Steady
  /\ LedgerMatchesInbox
  /\ DeliveredOnce

\* What a row that waits is not.
LEMMA WaitingNotFinal ==
  ASSUME NEW e, Waiting(e)
  PROVE  ~Final(e) /\ e.status # "sent" /\ Active(e)
BY DEF Waiting, Final, Active, ActiveStatus

LEMMA FirstEvents ==
  ASSUME Init
  PROVE  /\ \A e \in events : Waiting(e) /\ e.supp = FALSE
         /\ inbox = <<>>
         /\ \A w \in Workers : pc[w] = "sleep" /\ rows[w] = {} /\ mem[w].cands = {}
<1>1. ASSUME NEW e \in events PROVE Waiting(e) /\ e.supp = FALSE
  <2>1. PICK r \in Legacy :
          e = [id |-> r, rule |-> r, expr |-> FirstExpr[r], win |-> WindowOf(1),
               run |-> NoRun, status |-> "pending", supp |-> FALSE,
               sentAt |-> NoTime, created |-> 0, claimed |-> 0]
    BY DEF Init
  <2>2. e.status = "pending" /\ e.supp = FALSE
    BY <2>1
  <2> QED
    BY <2>2 DEF Waiting
<1> QED
  BY <1>1 DEF Init, NoMem

LEMMA SteadyInit ==
  ASSUME Init
  PROVE  Steady
BY FirstEvents DEF Steady, WorkerSteady, Quiet, OnePerRule, HeldKey, ReclaimKey, RanHere,
  EventsSteady, RowsNew

LEMMA OnceInit ==
  ASSUME Init
  PROVE  Once
<1>1. InFlight = {}
  BY FirstEvents DEF InFlight
<1>2. inbox = <<>> /\ \A e \in events : e.status # "sent"
  BY FirstEvents, WaitingNotFinal
<1>3. LedgerMatchesInbox
  BY <1>1, <1>2 DEF LedgerMatchesInbox
<1> QED
  BY <1>2, <1>3, SteadyInit DEF Once, DeliveredOnce

-----------------------------------------------------------------------------
(* Steps that write no row.                                                *)

\* A step of w that keeps the rows and the table.
LEMMA SteadyFrame ==
  ASSUME Steady, NEW w \in Workers, UNCHANGED <<rows, events>>,
         \A v \in Workers \ {w} : pc'[v] = pc[v] /\ mem'[v] = mem[v],
         \A r \in Rules : runs[r] # <<>> => runs'[r] # <<>>,
         WorkerSteady(w)'
  PROVE  Steady'
<1>1. \A v \in Workers \ {w} : WorkerSteady(v)'
  BY DEF Steady, WorkerSteady, Quiet, OnePerRule, HeldKey, ReclaimKey, SameKey, Waiting,
    RanHere, Ran, FirstCandidate
<1>2. EventsSteady' /\ RowsNew'
  BY DEF Steady, EventsSteady, RowsNew, Ran, Final, Waiting
<1> QED
  BY <1>1, <1>2 DEF Steady

\* A step that changes nothing any worker's invariant reads.
LEMMA SteadyUnchanged ==
  ASSUME Steady, UNCHANGED <<rows, events, pc, mem, runs>>
  PROVE  Steady'
<1>1. \A v \in Workers : WorkerSteady(v)'
  BY DEF Steady, WorkerSteady, Quiet, OnePerRule, HeldKey, ReclaimKey, SameKey, Waiting,
    RanHere, Ran, FirstCandidate
<1>2. EventsSteady' /\ RowsNew'
  BY DEF Steady, EventsSteady, RowsNew, Ran, Final, Waiting
<1> QED
  BY <1>1, <1>2 DEF Steady

\* The worker v, while another one writes; if that changes the table, v is not
\* about to reclaim a row of it.
LEMMA OthersSteady ==
  ASSUME NEW v \in Workers, WorkerSteady(v), UNCHANGED runs,
         rows'[v] = rows[v], pc'[v] = pc[v], mem'[v] = mem[v],
         events' = events \/ pc[v] # "reclaim"
  PROVE  WorkerSteady(v)'
BY DEF WorkerSteady, Quiet, OnePerRule, HeldKey, ReclaimKey, SameKey, Waiting, RanHere,
  Ran, FirstCandidate

\* Within the delivery, before the next row is held.
LEMMA WorkerMoves ==
  ASSUME NEW w \in Workers, WorkerSteady(w), UNCHANGED runs,
         pc'[w] \in {"pick", "look", "insert", "disable"},
         mem'[w].cands \subseteq mem[w].cands, mem'[w].todo = mem[w].todo,
         \A e \in rows'[w] : Ran(e.rule)
  PROVE  WorkerSteady(w)'
<1>1. Quiet(w)' /\ HeldKey(w)' /\ ReclaimKey(w)'
  BY DEF Quiet, HeldKey, ReclaimKey, DeliveryPc
<1>2. OnePerRule(w)' /\ RanHere(w)'
  BY DEF WorkerSteady, OnePerRule, RanHere, Ran
<1> QED
  BY <1>1, <1>2 DEF WorkerSteady

\* A worker at rest or about to be: it holds nothing.
LEMMA WorkerEmpty ==
  ASSUME NEW w \in Workers, rows'[w] = {}, mem'[w].cands = {},
         pc'[w] \in {"sleep", "claim", "eval"}
  PROVE  WorkerSteady(w)'
BY DEF WorkerSteady, Quiet, OnePerRule, HeldKey, ReclaimKey, RanHere

\* A cycle that ends without a commit, however far it was: its rows are gone.
LEMMA SteadyIdle ==
  ASSUME TypeOK, Steady, NEW w \in Workers, NEW wake, Idle(w, wake),
         UNCHANGED <<events, runs>>
  PROVE  Steady'
<1>1. /\ rows'[w] = {} /\ pc'[w] = "sleep" /\ mem'[w] = NoMem
      /\ \A v \in Workers \ {w} :
           rows'[v] = rows[v] /\ pc'[v] = pc[v] /\ mem'[v] = mem[v]
  BY DEF Idle, TypeOK
<1>2. mem'[w].cands = {}
  BY <1>1 DEF NoMem
<1>3. \A v \in Workers : WorkerSteady(v)'
  BY <1>1, <1>2, WorkerEmpty, OthersSteady DEF Steady
<1>4. EventsSteady'
  BY DEF Steady, EventsSteady, Ran, Final, Waiting
<1>5. RowsNew'
  BY <1>1 DEF Steady, RowsNew, Waiting
<1> QED
  BY <1>3, <1>4, <1>5 DEF Steady

LEMMA SteadyClaim ==
  ASSUME TypeOK, Steady, NEW w \in Workers,
         \/ LockBusy(w) \/ ListRules(w) \/ ReleaseLock(w)
         \/ \E r \in FirstRule(mem[w].todo) : CheckDue(w, r) \/ ClaimRaises(w, r)
  PROVE  Steady'
<1>1. /\ pc[w] \in {"sleep", "claim"}
      /\ UNCHANGED <<events, runs>>
  BY DEF LockBusy, ListRules, ReleaseLock, CheckDue, ClaimRaises, db
<1>2. rows[w] = {} /\ mem[w].cands = {}
  BY <1>1 DEF Steady, WorkerSteady, Quiet, DeliveryPc
<1>m. mem[w] \in Mem
  BY DEF TypeOK
<1>3. CASE EndCycle(w)
  BY <1>1, <1>3, SteadyIdle DEF EndCycle
<1>4. CASE ListRules(w) \/ \E r \in FirstRule(mem[w].todo) : CheckDue(w, r)
  <2>a. ASSUME ListRules(w)
        PROVE  /\ rows' = rows /\ pc'[w] = "claim" /\ mem'[w].cands = {}
               /\ \A v \in Workers \ {w} : pc'[v] = pc[v] /\ mem'[v] = mem[v]
    BY <1>2, <1>m, <2>a DEF ListRules, TypeOK, Mem
  <2>b. ASSUME NEW r \in FirstRule(mem[w].todo), CheckDue(w, r)
        PROVE  /\ rows' = rows /\ pc'[w] = "claim" /\ mem'[w].cands = {}
               /\ \A v \in Workers \ {w} : pc'[v] = pc[v] /\ mem'[v] = mem[v]
    BY <1>2, <1>m, <2>b DEF CheckDue, TypeOK, Mem
  <2>1. /\ rows' = rows /\ pc'[w] = "claim" /\ mem'[w].cands = {}
        /\ \A v \in Workers \ {w} : pc'[v] = pc[v] /\ mem'[v] = mem[v]
    BY <1>4, <2>a, <2>b
  <2> QED
    BY <1>1, <1>2, <2>1, WorkerEmpty, SteadyFrame
<1>5. CASE ReleaseLock(w) /\ mem[w].due # {}
  <2>1. /\ rows' = rows /\ pc'[w] = "eval" /\ mem'[w].cands = {}
        /\ \A v \in Workers \ {w} : pc'[v] = pc[v] /\ mem'[v] = mem[v]
    <3> DEFINE m == [mem[w] EXCEPT !.todo = mem[w].due, !.due = {}]
    <3>1. mem' = [mem EXCEPT ![w] = m]
      BY <1>5 DEF ReleaseLock
    <3>2. m.cands = {}
      BY <1>2, <1>m DEF Mem
    <3> HIDE DEF m
    <3> QED
      BY <1>5, <3>1, <3>2 DEF ReleaseLock, TypeOK
  <2> QED
    BY <1>1, <1>2, <2>1, WorkerEmpty, SteadyFrame
<1> QED
  BY <1>3, <1>4, <1>5 DEF LockBusy, ClaimRaises, ReleaseLock

\* A new candidate is of the rule that leaves the list, and has its run.
LEMMA SteadyEvaluate ==
  ASSUME TypeOK, Steady, NEW w \in Workers, NEW r \in FirstRule(mem[w].todo),
         Evaluate(w, r)
  PROVE  Steady'
<1>1. /\ mem[w] \in Mem /\ r \in Rules /\ r \in mem[w].todo
      /\ runs[r] \in Seq(Nat) /\ now \in Nat
  BY DEF TypeOK, FirstRule, Mem
<1>2. /\ UNCHANGED <<rows, events>>
      /\ pc[w] = "eval" /\ pc'[w] \in {"eval", "pick"}
      /\ \A v \in Workers \ {w} : pc'[v] = pc[v]
  BY DEF Evaluate, bounds, TypeOK
<1>3. rows[w] = {}
  BY <1>2 DEF Steady, WorkerSteady, Quiet, DeliveryPc
<1>q. Quiet(w)' /\ HeldKey(w)' /\ ReclaimKey(w)'
  BY <1>2, <1>3 DEF Quiet, HeldKey, ReclaimKey
<1>4. ASSUME NEW holds \in BOOLEAN, Evaluated(w, r, holds)
      PROVE  Steady'
  <2> DEFINE c == [rule |-> r, expr |-> mem[w].snap[r], win |-> WindowOf(now),
                   run |-> Len(runs[r]) + 1]
  <2>1. /\ runs' = [runs EXCEPT ![r] = Append(@, now)]
        /\ mem' = [mem EXCEPT ![w].todo  = @ \ {r},
                              ![w].cands = IF holds THEN @ \union {c} ELSE @]
    BY <1>4 DEF Evaluated
  <2>2. c.rule = r
    OBVIOUS
  <2> HIDE DEF c
  <2>3. /\ mem'[w].todo = mem[w].todo \ {r}
        /\ mem'[w].cands \subseteq mem[w].cands \union {c}
        /\ \A v \in Workers \ {w} : mem'[v] = mem[v]
    BY <1>1, <2>1 DEF TypeOK, Mem
  <2>4. /\ runs'[r] # <<>>
        /\ \A q \in Rules : runs[q] # <<>> => runs'[q] # <<>>
    <3>1. Append(runs[r], now) # <<>>
      BY <1>1
    <3> QED
      BY <1>1, <2>1, <3>1 DEF TypeOK
  <2>5. OnePerRule(w)'
    BY <1>1, <2>2, <2>3 DEF Steady, WorkerSteady, OnePerRule
  <2>6. RanHere(w)'
    BY <1>1, <1>2, <1>3, <2>2, <2>3, <2>4
    DEF Steady, WorkerSteady, RanHere, Ran
  <2>7. WorkerSteady(w)'
    BY <1>q, <2>5, <2>6 DEF WorkerSteady
  <2> QED
    BY <1>2, <2>3, <2>4, <2>7, SteadyFrame
<1>5. ASSUME EvaluationFails(w, r)
      PROVE  Steady'
  <2>1. /\ UNCHANGED runs
        /\ mem'[w].todo \subseteq mem[w].todo /\ mem'[w].cands = mem[w].cands
        /\ \A v \in Workers \ {w} : mem'[v] = mem[v]
    BY <1>1, <1>5 DEF EvaluationFails, TypeOK, Mem
  <2>2. OnePerRule(w)' /\ RanHere(w)'
    BY <1>2, <2>1 DEF Steady, WorkerSteady, OnePerRule, RanHere, Ran
  <2>3. WorkerSteady(w)'
    BY <1>q, <2>2 DEF WorkerSteady
  <2> QED
    BY <1>2, <2>1, <2>3, SteadyFrame
<1> QED
  BY <1>4, <1>5 DEF Evaluate

-----------------------------------------------------------------------------
(* The delivery loop.                                                      *)

\* The candidate a worker is at is the only first one.
LEMMA FirstOne ==
  ASSUME TypeOK, NEW w \in Workers, OnePerRule(w),
         NEW c \in FirstCandidate(mem[w].cands),
         NEW d \in FirstCandidate(mem[w].cands)
  PROVE  c = d
<1>1. mem[w] \in Mem
  BY DEF TypeOK
<1>2. c.rule \in Nat /\ d.rule \in Nat
  BY <1>1, ParamAssumption DEF FirstCandidate, Mem, Candidate
<1>3. c.rule = d.rule
  BY <1>2 DEF FirstCandidate
<1> QED
  BY <1>3 DEF OnePerRule, FirstCandidate

\* The candidate is passed on or dropped.
LEMMA SteadyPass ==
  ASSUME TypeOK, Steady, NEW w \in Workers, UNCHANGED <<rows, events, runs>>,
         pc'[w] \in {"pick", "look", "insert", "disable"},
         mem'[w].cands \subseteq mem[w].cands, mem'[w].todo = mem[w].todo,
         \A v \in Workers \ {w} : pc'[v] = pc[v] /\ mem'[v] = mem[v]
  PROVE  Steady'
<1>1. WorkerSteady(w) /\ \A e \in rows'[w] : Ran(e.rule)
  BY DEF Steady, WorkerSteady, RanHere
<1>2. WorkerSteady(w)'
  BY <1>1, WorkerMoves
<1> QED
  BY <1>2, SteadyFrame

\* What create_event_once finds is sent, or it waits: a row that the worker has
\* written itself is final by now.
LEMMA FoundSettled ==
  ASSUME TransactionsAgree, Steady, NEW w \in Workers, pc[w] = "look",
         NEW e \in Visible(w), Active(e)
  PROVE  Settled(e) \/ (e \in events /\ Waiting(e))
<1>1. Final(e) \/ (e \in events /\ Waiting(e))
  BY DEF TransactionsAgree, RowsFinal, Steady, EventsSteady, Visible
<1> QED
  BY <1>1 DEF Final, Active, ActiveStatus, Settled

LEMMA SteadyUndelivered ==
  ASSUME TypeOK, TransactionsAgree, Steady,
         NEW w \in Workers, NEW c \in FirstCandidate(mem[w].cands),
         SkipTwin(w, c) \/ Decide(w, c) \/ Look(w, c) \/ Disable(w, c)
  PROVE  Steady'
<1>1. UNCHANGED <<rows, events, runs>>
  BY DEF SkipTwin, Decide, Look, Disable, db
<1>m. mem[w] \in Mem
  BY DEF TypeOK
<1>2. CASE Finish(w, c)
  BY <1>1, <1>2, FinishMoves, SteadyPass
<1>3. CASE Continue(w, "insert")
  BY <1>1, <1>3, SteadyPass DEF Continue, TypeOK
<1>4. CASE Decide(w, c)
  <2> DEFINE seen == IF Scheduled(c) THEN mem[w].seen \union {ScheduledKey(c)}
                                     ELSE mem[w].seen
             m == [mem[w] EXCEPT !.seen = seen, !.sup = ShouldSuppress(w, c)]
  <2>1. mem' = [mem EXCEPT ![w] = m] /\ pc' = [pc EXCEPT ![w] = "look"]
    BY <1>4 DEF Decide
  <2>2. m.cands = mem[w].cands /\ m.todo = mem[w].todo
    BY <1>m DEF Mem
  <2> HIDE DEF m
  <2> QED
    BY <1>1, <2>1, <2>2, SteadyPass DEF TypeOK
<1>5. CASE Disable(w, c)
  <2>1. /\ DropCandidate(mem[w], c).cands \subseteq mem[w].cands
        /\ DropCandidate(mem[w], c).todo = mem[w].todo
    BY <1>m DEF DropCandidate, Mem
  <2> QED
    BY <1>1, <1>5, <2>1, SteadyPass DEF Disable, TypeOK
<1>6. ASSUME pc[w] = "look", NEW e \in Visible(w), Active(e), SameKey(e, c), ~Settled(e),
             pc' = [pc EXCEPT ![w] = "reclaim"], mem' = [mem EXCEPT ![w].hold = e.id]
      PROVE  Steady'
  <2>1. e \in events /\ Waiting(e)
    BY <1>6, FoundSettled
  <2>2. /\ pc'[w] = "reclaim" /\ mem'[w].hold = e.id
        /\ mem'[w].cands = mem[w].cands /\ mem'[w].todo = mem[w].todo
        /\ \A v \in Workers \ {w} : pc'[v] = pc[v] /\ mem'[v] = mem[v]
    BY <1>6, <1>m DEF TypeOK, Mem
  <2>3. \A d \in FirstCandidate(mem[w].cands) : SameKey(e, d)
    BY <1>6, FirstOne DEF Steady, WorkerSteady
  <2>4. ReclaimKey(w)'
    BY <1>1, <2>1, <2>2, <2>3 DEF ReclaimKey, Waiting, SameKey, FirstCandidate
  <2>5. Quiet(w)' /\ HeldKey(w)' /\ OnePerRule(w)' /\ RanHere(w)'
    BY <1>1, <2>2 DEF Steady, WorkerSteady, Quiet, HeldKey, OnePerRule, RanHere, Ran,
      DeliveryPc
  <2> QED
    BY <1>1, <2>2, <2>4, <2>5, SteadyFrame DEF WorkerSteady
<1> QED
  BY <1>2, <1>3, <1>4, <1>5, <1>6 DEF SkipTwin, Look

\* A row that w takes: the new one, or the next version of one that waits.
LEMMA SteadyHold ==
  ASSUME TypeOK, Steady, NEW w \in Workers, NEW c \in FirstCandidate(mem[w].cands),
         NEW e \in EventRow, e.status = "sending", SameKey(e, c), Hold(w, c, e),
         UNCHANGED <<events, runs>>,
         \A f \in events : f.id = e.id => Waiting(f),
         \A v \in Workers : \A f \in rows[v] : f.id # e.id
  PROVE  /\ Steady'
         /\ \E g : /\ g.status # "sent"
                   /\ rows'[w] = rows[w] \union {g}
                   /\ \A v \in Workers \ {w} : rows'[v] = rows[v]
<1>m. mem[w] \in Mem /\ c \in mem[w].cands
  BY DEF TypeOK, FirstCandidate, Mem
<1>1. PICK g \in {e, Suppressed(e)} :
        /\ rows' = [rows EXCEPT ![w] = @ \union {g}]
        /\ \/ Finish(w, c)
           \/ /\ g = e
              /\ pc'  = [pc EXCEPT ![w] = "send"]
              /\ mem' = [mem EXCEPT ![w].hold = e.id]
  BY DEF Hold
<1>2. g.id = e.id /\ g.rule = e.rule /\ g.status # "sent"
  BY <1>1 DEF Suppressed, EventRow
<1>3. /\ rows'[w] = rows[w] \union {g}
      /\ \A v \in Workers \ {w} : rows'[v] = rows[v]
  BY <1>1 DEF TypeOK
<1>4. \A f \in rows'[w] : Ran(f.rule)
  BY <1>m, <1>2, <1>3 DEF Steady, WorkerSteady, RanHere, SameKey
<1>5. /\ \A v \in Workers \ {w} : pc'[v] = pc[v] /\ mem'[v] = mem[v]
      /\ WorkerSteady(w)'
  <2>1. CASE Finish(w, c)
    BY <1>4, <2>1, FinishMoves, WorkerMoves DEF Steady
  <2>2. CASE /\ g = e
             /\ pc'  = [pc EXCEPT ![w] = "send"]
             /\ mem' = [mem EXCEPT ![w].hold = e.id]
    <3>1. /\ pc'[w] = "send"
          /\ mem'[w].cands = mem[w].cands /\ mem'[w].todo = mem[w].todo
          /\ mem'[w].hold = e.id
          /\ \A v \in Workers \ {w} : pc'[v] = pc[v] /\ mem'[v] = mem[v]
      BY <1>m, <2>2 DEF TypeOK, Mem
    <3>2. OnePerRule(w)' /\ RanHere(w)' /\ Quiet(w)' /\ ReclaimKey(w)'
      BY <1>4, <3>1
      DEF Steady, WorkerSteady, OnePerRule, RanHere, Ran, Quiet, ReclaimKey, DeliveryPc
    <3>3. HeldKey(w)'
      <4> SUFFICES ASSUME NEW d \in FirstCandidate(mem[w].cands),
                          NEW f \in rows'[w], f.id = e.id
                   PROVE  SameKey(f, d)
        BY <3>1 DEF HeldKey, SameKey, FirstCandidate
      <4>1. d = c
        BY FirstOne DEF Steady, WorkerSteady
      <4>2. f = g
        BY <1>3
      <4> QED
        BY <2>2, <4>1, <4>2
    <3> QED
      BY <3>1, <3>2, <3>3 DEF WorkerSteady
  <2> QED
    BY <1>1, <2>1, <2>2
<1>6. \A v \in Workers : WorkerSteady(v)'
  <2> SUFFICES ASSUME NEW v \in Workers, v # w PROVE WorkerSteady(v)'
    BY <1>5
  <2> QED
    BY <1>3, <1>5, OthersSteady DEF Steady
<1>7. EventsSteady'
  BY DEF Steady, EventsSteady, Ran, Final, Waiting
<1>8. RowsNew'
  BY <1>2, <1>3 DEF Steady, RowsNew, Waiting
<1> QED
  BY <1>2, <1>3, <1>6, <1>7, <1>8 DEF Steady

\* A step of w that delivers nothing and leaves the rows or adds one.
Quietly(w) ==
  \/ UNCHANGED rows
  \/ \E g : /\ g.status # "sent"
            /\ rows'[w] = rows[w] \union {g}
            /\ \A v \in Workers \ {w} : rows'[v] = rows[v]

\* The INSERT of a new row, under an id no other row has.
LEMMA SteadyInsert ==
  ASSUME TypeOK, TransactionsAgree, Steady,
         NEW w \in Workers, NEW c \in FirstCandidate(mem[w].cands), Insert(w, c)
  PROVE  Steady' /\ Quietly(w)
<1> DEFINE e == [id |-> nextId, rule |-> c.rule, expr |-> c.expr, win |-> c.win,
                 run |-> c.run, status |-> "sending", supp |-> FALSE,
                 sentAt |-> NoTime, created |-> now, claimed |-> now]
<1>1. /\ UNCHANGED <<events, runs>>
      /\ \/ Finish(w, c) /\ UNCHANGED rows
         \/ Hold(w, c, e)
  BY DEF Insert
<1>m. c \in Candidate /\ nextId \in Nat
  BY DEF TypeOK, FirstCandidate, Mem
<1>2. CASE Finish(w, c) /\ UNCHANGED rows
  BY <1>1, <1>2, FinishMoves, SteadyPass DEF Quietly
<1>3. CASE Hold(w, c, e)
  <2>1. e \in EventRow
    BY <1>m DEF Candidate, EventRow, Status, ActiveStatus, TypeOK, NoTime
  <2>2. e.id = nextId /\ e.status = "sending" /\ SameKey(e, c)
    BY <1>m, ParamAssumption DEF SameKey, Candidate
  <2>3. /\ \A f \in events : f.id # nextId
        /\ \A v \in Workers : \A f \in rows[v] : f.id # nextId
    BY <1>m DEF TransactionsAgree, IdsFresh, TypeOK, EventRow
  <2> HIDE DEF e
  <2> QED
    BY <1>1, <1>3, <2>1, <2>2, <2>3, SteadyHold DEF Quietly
<1> QED
  BY <1>1, <1>2, <1>3

\* The UPDATE of the row that waits.
LEMMA SteadyReclaim ==
  ASSUME LegacyAlone, TypeOK, TransactionsAgree, Steady,
         NEW w \in Workers, NEW c \in FirstCandidate(mem[w].cands), Reclaim(w, c)
  PROVE  Steady' /\ Quietly(w)
<1>1. PICK e \in events :
        /\ e.id = mem[w].hold
        /\ Hold(w, c, [e EXCEPT !.status = "sending", !.claimed = now])
  BY DEF Reclaim
<1>2. pc[w] = "reclaim" /\ UNCHANGED <<events, runs>>
  BY DEF Reclaim, db
<1>3. Waiting(e) /\ SameKey(e, c)
  BY <1>1, <1>2 DEF Steady, WorkerSteady, ReclaimKey, TransactionsAgree, IdsUnique
<1> DEFINE g == [e EXCEPT !.status = "sending", !.claimed = now]
<1>5. e \in EventRow /\ now \in Nat
  BY DEF TypeOK
<1>4. g \in EventRow
  BY <1>5 DEF EventRow, Status, ActiveStatus
<1>6. g.id = e.id /\ g.status = "sending" /\ SameKey(g, c)
  BY <1>3, <1>5 DEF SameKey, EventRow
<1>7. \A f \in events : f.id = e.id => Waiting(f)
  BY <1>3 DEF TransactionsAgree, IdsUnique
<1>8. \A v \in Workers : \A f \in rows[v] : f.id # e.id
  BY <1>1, <1>2, <1>3 DEF LegacyAlone, Waiting, TransactionsAgree, ReclaimForeign
<1>9. Hold(w, c, g)
  BY <1>1
<1> HIDE DEF g
<1> QED
  BY <1>2, <1>4, <1>6, <1>7, <1>8, <1>9, SteadyHold DEF Quietly

\* No row of the key of the one that is being sent is sent: neither in this
\* transaction nor in another one nor in the table.
LEMMA KeyUnsent ==
  ASSUME TypeOK, TransactionsAgree, Steady, NEW w \in Workers, pc[w] = "send",
         NEW e \in rows[w], e.id = mem[w].hold,
         NEW f \in events \union InFlight, f.status = "sent"
  PROVE  ~SameKey(e, f)
<1> SUFFICES ASSUME SameKey(e, f) PROVE FALSE
  OBVIOUS
<1>1. e.status = "sending"
  BY DEF TransactionsAgree, RowsFinal
<1>2. Active(e) /\ Active(f)
  BY <1>1 DEF Active, ActiveStatus
<1>3. CASE f \in Visible(w)
  <2>1. e.id = f.id
    BY <1>2, <1>3 DEF TransactionsAgree, KeysVisible
  <2>2. f \notin events
    BY <2>1, WaitingNotFinal DEF Steady, RowsNew
  <2>3. e = f
    BY <2>1, <2>2, <1>3 DEF TransactionsAgree, IdsUnique, Visible
  <2> QED
    BY <1>1, <2>3
<1>4. ASSUME NEW v \in Workers, f \in rows[v] PROVE FALSE
  <2>1. CASE v = w
    BY <1>3, <1>4, <2>1 DEF Visible
  <2>2. CASE v # w
    BY <1>4, <2>2 DEF TransactionsAgree, KeysExclusive
  <2> QED
    BY <2>1, <2>2
<1>5. CASE f \in events
  BY <1>3, <1>5, WaitingNotFinal DEF Steady, RowsNew, Visible
<1> QED
  BY <1>4, <1>5 DEF InFlight

\* A send settles the row it is about, as it was or was not answered.
LEMMA SteadySend ==
  ASSUME TypeOK, TransactionsAgree, Steady,
         NEW w \in Workers, NEW c \in FirstCandidate(mem[w].cands), Send(w, c)
  PROVE  Steady'
<1>1. PICK e \in rows[w] :
        e.id = mem[w].hold /\ (Delivered(w, c, e) \/ Refused(w, e))
  BY DEF Send
<1>2. Finish(w, c) /\ UNCHANGED <<events, runs>>
  BY DEF Send, db
<1>3. PICK g \in {Sent(e), Suppressed(e)} : Replace(w, e, g)
  BY <1>1 DEF Delivered, Refused
<1>4. e \in EventRow
  BY DEF TypeOK
<1>5. g.id = e.id /\ g.rule = e.rule
  BY <1>3, <1>4 DEF Sent, Suppressed, EventRow
<1>6. /\ rows'[w] = (rows[w] \ {e}) \union {g}
      /\ \A v \in Workers \ {w} : rows'[v] = rows[v]
  BY <1>3 DEF Replace, TypeOK
<1>7. \A v \in Workers : WorkerSteady(v)'
  <2>1. \A f \in rows'[w] : Ran(f.rule)
    BY <1>5, <1>6 DEF Steady, WorkerSteady, RanHere
  <2>2. WorkerSteady(w)'
    BY <1>2, <2>1, FinishMoves, WorkerMoves DEF Steady
  <2> QED
    BY <1>2, <1>6, <2>2, FinishMoves, OthersSteady DEF Steady
<1>8. EventsSteady'
  BY <1>2 DEF Steady, EventsSteady, Ran, Final, Waiting
<1>9. RowsNew'
  BY <1>2, <1>5, <1>6 DEF Steady, RowsNew, Waiting
<1> QED
  BY <1>7, <1>8, <1>9 DEF Steady

\* The commit moves w's rows to the table, each beside the others or in the
\* place of one that waited.
LEMMA SteadyCommit ==
  ASSUME LegacyAlone, TypeOK, TransactionsAgree, Steady, NEW w \in Workers, Commit(w)
  PROVE  /\ Steady'
         /\ rows'[w] = {} /\ \A v \in Workers \ {w} : rows'[v] = rows[v]
         /\ UNCHANGED inbox
<1>1. /\ rows'[w] = {} /\ pc'[w] = "sleep" /\ mem'[w] = NoMem
      /\ \A v \in Workers \ {w} :
           rows'[v] = rows[v] /\ pc'[v] = pc[v] /\ mem'[v] = mem[v]
      /\ UNCHANGED <<inbox, runs>>
  BY DEF Commit, EndCycle, Idle, TypeOK
<1>2. events' = Visible(w)
  BY DEF Commit
<1>3. \A v \in Workers : WorkerSteady(v)'
  <2>1. mem'[w].cands = {}
    BY <1>1 DEF NoMem
  <2>2. WorkerSteady(w)'
    BY <1>1, <2>1, WorkerEmpty
  <2>3. \A v \in Workers \ {w} : pc[v] # "reclaim"
    BY DEF Steady, WorkerSteady, ReclaimKey, Waiting, LegacyAlone
  <2> QED
    BY <1>1, <2>2, <2>3, OthersSteady DEF Steady
<1>4. EventsSteady'
  <2>1. \A e \in rows[w] : Final(e) /\ Ran(e.rule)
    BY DEF Commit, TransactionsAgree, RowsFinal, Steady, WorkerSteady, RanHere
  <2> QED
    BY <1>1, <1>2, <2>1 DEF Steady, EventsSteady, Ran, Final, Waiting, Visible
<1>5. RowsNew'
  BY <1>1, <1>2 DEF Steady, RowsNew, Waiting, Visible
<1> QED
  BY <1>1, <1>3, <1>4, <1>5 DEF Steady

\* The rule of a final row has runs, so a rule that can be deleted has at most
\* rows that wait, and those are no longer found.
LEMMA DeletedRows ==
  ASSUME TypeOK, Steady, NEW r \in Rules, DeleteRule(r)
  PROVE  /\ \A e \in events : Final(e) => e.rule # r /\ e \in events'
         /\ \A f \in events' : f \in events \/ Waiting(f)
         /\ \A f \in events' : \E e \in events : e.id = f.id /\ (f = e \/ Waiting(e))
         /\ \A e \in events : e.rule # r => e \in events'
<1>1. events' = {IF e.rule = r THEN [e EXCEPT !.rule = NoRule] ELSE e : e \in events}
  BY DEF DeleteRule
<1>2. \A e \in events : Final(e) => e.rule # r
  BY DEF DeleteRule, Steady, EventsSteady, Ran, Waiting, Final
<1>3. \A e \in events : e.rule # r => e \in events'
  BY <1>1
<1>4. ASSUME NEW f \in events'
      PROVE  \E e \in events : e.id = f.id /\ (f = e \/ (Waiting(e) /\ Waiting(f)))
  <2>1. PICK e \in events : f = IF e.rule = r THEN [e EXCEPT !.rule = NoRule] ELSE e
    BY <1>1
  <2>2. CASE e.rule # r
    BY <2>1, <2>2
  <2>3. CASE e.rule = r
    <3>1. e \in EventRow /\ Waiting(e)
      BY <1>2, <2>3 DEF TypeOK, Steady, EventsSteady
    <3>2. f.id = e.id /\ f.status = e.status
      BY <2>1, <2>3, <3>1 DEF EventRow
    <3> QED
      BY <3>1, <3>2 DEF Waiting
  <2> QED
    BY <2>2, <2>3
<1> QED
  BY <1>2, <1>3, <1>4

LEMMA SteadyDelete ==
  ASSUME TypeOK, Steady, NEW r \in Rules, DeleteRule(r)
  PROVE  Steady'
<1>1. UNCHANGED <<rows, pc, mem, runs>> /\ runs[r] = <<>>
  BY DEF DeleteRule, worker
<1>2. ASSUME NEW v \in Workers PROVE WorkerSteady(v)'
  <2>1. WorkerSteady(v)
    BY DEF Steady
  <2>2. ReclaimKey(v)'
    <3> SUFFICES ASSUME pc[v] = "reclaim" PROVE ReclaimKey(v)'
      BY <1>1 DEF ReclaimKey
    <3>1. PICK e \in events :
            /\ e.id = mem[v].hold
            /\ Waiting(e)
            /\ \A c \in FirstCandidate(mem[v].cands) : SameKey(e, c)
      BY <2>1 DEF WorkerSteady, ReclaimKey
    <3>2. \A c \in FirstCandidate(mem[v].cands) : c.rule # r
      BY <1>1, <2>1 DEF WorkerSteady, RanHere, Ran, FirstCandidate
    <3>3. CASE e.rule # r
      <4>1. e \in events'
        BY <3>3, DeletedRows
      <4> QED
        BY <1>1, <3>1, <4>1 DEF ReclaimKey, Waiting, SameKey, FirstCandidate
    <3>4. CASE e.rule = r
      <4>1. FirstCandidate(mem[v].cands) = {}
        BY <3>1, <3>2, <3>4 DEF SameKey
      <4>2. [e EXCEPT !.rule = NoRule] \in events'
        BY <3>4 DEF DeleteRule
      <4>3. e \in EventRow
        BY DEF TypeOK
      <4>4. /\ [e EXCEPT !.rule = NoRule].id = e.id
            /\ [e EXCEPT !.rule = NoRule].status = e.status
        BY <4>3 DEF EventRow
      <4> QED
        BY <1>1, <3>1, <4>1, <4>2, <4>4 DEF ReclaimKey, Waiting, FirstCandidate
    <3> QED
      BY <3>3, <3>4
  <2> QED
    BY <1>1, <2>1, <2>2
    DEF WorkerSteady, Quiet, OnePerRule, HeldKey, SameKey, RanHere, Ran, FirstCandidate
<1>3. EventsSteady'
  BY <1>1, DeletedRows DEF Steady, EventsSteady, Waiting, Final, Ran
<1>4. RowsNew'
  <2>1. ASSUME NEW w \in Workers, NEW e \in rows[w], NEW f \in events', f.id = e.id
        PROVE  Waiting(f)
    <3>1. PICK g \in events : g.id = f.id /\ (f = g \/ Waiting(g))
      BY DeletedRows
    <3>2. Waiting(g)
      BY <2>1, <3>1 DEF Steady, RowsNew
    <3>3. f \in events \/ Waiting(f)
      BY DeletedRows
    <3> QED
      BY <2>1, <3>2, <3>3 DEF Steady, RowsNew
  <2> QED
    BY <1>1, <2>1 DEF Steady, RowsNew, Waiting
<1> QED
  BY <1>2, <1>3, <1>4 DEF Steady

LEMMA SteadyStep ==
  ASSUME LegacyAlone, TypeOK, TransactionsAgree, Steady, [Next]_vars
  PROVE  Steady'
<1>1. ASSUME NEW w \in Workers, Step(w)
      PROVE  Steady'
  <2>1. CASE ReclaimConflicts(w)
    BY <2>1, SteadyIdle DEF ReclaimConflicts, EndCycle, db
  <2> QED
    BY <1>1, <2>1, SteadyClaim, SteadyEvaluate, SteadyUndelivered, SteadyInsert,
      SteadyReclaim, SteadySend, SteadyCommit DEF Step
<1>2. ASSUME NEW w \in Workers, Abort(w) \/ Crash(w)
      PROVE  Steady'
  BY <1>2, SteadyIdle DEF Abort, Crash, EndCycle, db
<1>3. ASSUME NEW r \in Rules, NEW x \in Exprs, EditRule(r, x)
      PROVE  Steady'
  BY <1>3, SteadyUnchanged DEF EditRule, worker
<1>4. CASE Tick \/ Horizon \/ UNCHANGED vars
  BY <1>4, SteadyUnchanged DEF Tick, Horizon, vars, db, worker
<1> QED
  BY <1>1, <1>2, <1>3, <1>4, SteadyDelete DEF Next

\* The table of events loses no sent row: what is written in the place of another
\* was waiting, and a rule with a final event is not deleted.
LEMMA SentStays ==
  ASSUME TypeOK, Steady, [Next]_vars, NEW e \in events, e.status = "sent"
  PROVE  e \in events'
<1>1. ASSUME NEW w \in Workers, Commit(w)
      PROVE  e \in events'
  BY <1>1, WaitingNotFinal DEF Commit, Visible, Steady, RowsNew
<1>2. ASSUME NEW r \in Rules, DeleteRule(r)
      PROVE  e \in events'
  BY <1>2, DeletedRows DEF Final
<1>3. ASSUME NEW w \in Workers, Step(w) \/ Abort(w) \/ Crash(w), ~Commit(w)
      PROVE  events' = events
  BY <1>3 DEF Step, LockBusy, ListRules, ReleaseLock, ReclaimConflicts, CheckDue,
    ClaimRaises, Evaluate, SkipTwin, Decide, Look, Reclaim, Insert, Send, Disable,
    Abort, Crash, db
<1>4. ASSUME NEW r \in Rules, NEW x \in Exprs, EditRule(r, x)
      PROVE  events' = events
  BY <1>4 DEF EditRule
<1>5. CASE Tick \/ Horizon \/ UNCHANGED vars
  BY <1>5 DEF Tick, Horizon, vars, db
<1> QED
  BY <1>1, <1>2, <1>3, <1>4, <1>5 DEF Next

\* No later cycle, of whichever worker, takes a sent row back: not after a crash, an
\* aborted delivery loop or a lost reply either, which leave no row to reclaim.
THEOREM SentIsFinalCorrect ==
  ASSUME LegacyAlone
  PROVE  Spec => SentIsFinal
<1>1. Init => Steady
  BY SteadyInit
<1>2. TypeOK /\ TransactionsAgree /\ Steady /\ [Next]_vars => Steady'
  BY SteadyStep
<1>3. TypeOK /\ Steady /\ [Next]_vars
        => [\A e \in events : e.status = "sent" => e \in events']_vars
  BY SentStays
<1> QED
  BY <1>1, <1>2, <1>3, TypeCorrect, TransactionsAgreeCorrect, PTL
  DEF Spec, SentIsFinal

-----------------------------------------------------------------------------
(* The chat and the ledger, where nothing fails.                           *)

\* A row that waits can be claimed: no active one has its key.
LEMMA NoConflict ==
  ASSUME TransactionsAgree, Steady, NEW w \in Workers
  PROVE  ~ReclaimConflicts(w)
<1> SUFFICES ASSUME ReclaimConflicts(w) PROVE FALSE
  OBVIOUS
<1>1. PICK e \in events : e.id = mem[w].hold /\ Taken(w, e, e.id)
  BY DEF ReclaimConflicts
<1>2. pc[w] = "reclaim"
  BY DEF ReclaimConflicts
<1>3. Active(e)
  BY <1>1, <1>2, WaitingNotFinal
  DEF Steady, WorkerSteady, ReclaimKey, TransactionsAgree, IdsUnique
<1>4. PICK f \in Visible(w) : f.id # e.id /\ Active(f) /\ SameKey(f, e)
  BY <1>1 DEF Taken
<1>5. CASE f \in events
  BY <1>3, <1>4, <1>5 DEF TransactionsAgree, ActiveKeyUnique
<1>6. CASE f \in rows[w]
  <2>1. e \in Visible(w)
    BY <1>1, <1>2 DEF TransactionsAgree, ReclaimForeign, Visible
  <2> QED
    BY <1>3, <1>4, <1>6, <2>1 DEF TransactionsAgree, KeysVisible
<1> QED
  BY <1>4, <1>5, <1>6 DEF Visible

\* A step that delivers nothing and takes no sent row.
LEMMA ChatQuiet ==
  ASSUME Once, NEW w \in Workers, Quietly(w), UNCHANGED <<events, inbox>>
  PROVE  LedgerMatchesInbox' /\ DeliveredOnce'
<1> DEFINE Lines == {f \in events \union InFlight : f.status = "sent"}
<1>1. Lines' = Lines
  BY DEF Quietly, InFlight
<1> QED
  BY <1>1 DEF Once, LedgerMatchesInbox, DeliveredOnce, SameKey

\* A send adds a message of a new key and marks its row, or it does neither.
LEMMA OnceSend ==
  ASSUME Faultless, TypeOK, TransactionsAgree, Once,
         NEW w \in Workers, NEW c \in FirstCandidate(mem[w].cands), Send(w, c)
  PROVE  Once'
<1>1. PICK e \in rows[w] :
        e.id = mem[w].hold /\ (Delivered(w, c, e) \/ Refused(w, e))
  BY DEF Send
<1>2. pc[w] = "send" /\ UNCHANGED events
  BY DEF Send, db
<1>m. /\ e \in EventRow /\ now \in Nat /\ inbox \in Seq(Message)
      /\ mem[w] \in Mem /\ c \in Candidate
  BY DEF TypeOK, FirstCandidate, Mem
<1>5. \A v \in Workers \ {w} : rows'[v] = rows[v]
  BY <1>1 DEF Delivered, Refused, Replace, TypeOK
<1>6. Steady'
  BY SteadySend DEF Once
<1>9. e.status = "sending"
  BY <1>1, <1>2 DEF TransactionsAgree, RowsFinal
<1>10. SameKey(e, c)
  BY <1>1, <1>2 DEF Once, Steady, WorkerSteady, HeldKey
<1> DEFINE lines == {f \in events \union InFlight : f.status = "sent"}
<1>11. CASE Refused(w, e)
  <2>1. rows'[w] = (rows[w] \ {e}) \union {Suppressed(e)} /\ inbox' = inbox
    BY <1>11 DEF Refused, Replace, TypeOK
  <2>2. Suppressed(e).status # "sent"
    BY <1>m DEF Suppressed, EventRow
  <2>3. lines' = lines
    BY <1>2, <1>5, <1>9, <2>1, <2>2 DEF InFlight
  <2>4. LedgerMatchesInbox'
    BY <2>1, <2>3 DEF Once, LedgerMatchesInbox
  <2>5. DeliveredOnce'
    BY <2>1 DEF Once, DeliveredOnce, SameKey
  <2> QED
    BY <1>6, <2>4, <2>5 DEF Once
<1>12. CASE Delivered(w, c, e)
  <2> DEFINE m == [rule |-> c.rule, expr |-> c.expr, win |-> c.win, at |-> now]
             Line(f) == [rule |-> f.rule, expr |-> f.expr, win |-> f.win,
                         at |-> f.sentAt]
  <2>1. /\ inbox' = Append(inbox, m)
        /\ rows'[w] = (rows[w] \ {e}) \union {Sent(e)}
    BY <1>12 DEF Delivered, Replace, TypeOK, Faultless
  <2>2. Sent(e).status = "sent" /\ Line(Sent(e)) = m
    BY <1>m, <1>10 DEF Sent, EventRow, SameKey
  <2>3. lines' = lines \union {Sent(e)}
    BY <1>2, <1>5, <1>9, <2>1, <2>2 DEF InFlight
  <2>4. m \in Message
    BY <1>m DEF Candidate, Message
  <2>5. m.rule = c.rule /\ m.expr = c.expr /\ m.win = c.win
    OBVIOUS
  <2> HIDE DEF m
  <2>6. /\ Len(inbox) \in Nat
        /\ DOMAIN inbox = 1..Len(inbox)
        /\ DOMAIN inbox' = 1..(Len(inbox) + 1)
        /\ \A i \in DOMAIN inbox : inbox'[i] = inbox[i]
        /\ inbox'[Len(inbox) + 1] = m
    BY <1>m, <2>1, <2>4
  <2> DEFINE texts == {inbox[i] : i \in DOMAIN inbox}
  <2>7. texts' = texts \union {m}
    BY <2>6
  <2>8. {Line(f) : f \in lines} = texts
    BY DEF Once, LedgerMatchesInbox
  <2> HIDE DEF lines, texts
  <2>9. {Line(f) : f \in lines'} = {Line(f) : f \in lines} \union {Line(Sent(e))}
    BY <2>3
  <2>10. LedgerMatchesInbox'
    BY <2>2, <2>7, <2>8, <2>9 DEF LedgerMatchesInbox, lines, texts
  <2>11. \A i \in DOMAIN inbox : ~SameKey(inbox[i], m)
    <3> SUFFICES ASSUME NEW i \in DOMAIN inbox, SameKey(inbox[i], m) PROVE FALSE
      OBVIOUS
    <3>1. PICK f \in lines : Line(f) = inbox[i]
      BY <2>8 DEF texts
    <3>2. f.rule = inbox[i].rule /\ f.expr = inbox[i].expr /\ f.win = inbox[i].win
      BY <3>1
    <3>3. SameKey(e, f)
      BY <1>10, <2>5, <3>2 DEF SameKey
    <3> QED
      BY <1>1, <1>2, <3>3, KeyUnsent DEF lines, Once
  <2>12. DeliveredOnce'
    <3> SUFFICES ASSUME NEW i \in DOMAIN inbox', NEW j \in DOMAIN inbox',
                        SameKey(inbox'[i], inbox'[j])
                 PROVE  i = j
      BY DEF DeliveredOnce, SameKey
    <3>1. CASE i \in DOMAIN inbox /\ j \in DOMAIN inbox
      BY <2>6, <3>1 DEF Once, DeliveredOnce
    <3>2. CASE i \in DOMAIN inbox /\ j = Len(inbox) + 1
      BY <2>6, <2>11, <3>2
    <3>3. CASE i = Len(inbox) + 1 /\ j \in DOMAIN inbox
      BY <2>6, <2>11, <3>3 DEF SameKey
    <3> QED
      BY <2>6, <3>1, <3>2, <3>3
  <2> QED
    BY <1>6, <2>10, <2>12 DEF Once
<1> QED
  BY <1>1, <1>11, <1>12

\* The commit publishes w's rows; what they replace was not sent.
LEMMA OnceCommit ==
  ASSUME LegacyAlone, TypeOK, TransactionsAgree, Once, NEW w \in Workers, Commit(w)
  PROVE  Once'
<1> DEFINE Lines == {f \in events \union InFlight : f.status = "sent"}
<1>1. /\ Steady'
      /\ rows'[w] = {} /\ \A v \in Workers \ {w} : rows'[v] = rows[v]
      /\ UNCHANGED inbox
  BY SteadyCommit DEF Once
<1>2. events' = Visible(w)
  BY DEF Commit
<1>3. \A e \in events : e.status = "sent" => e \in Visible(w)
  BY WaitingNotFinal DEF Once, Steady, RowsNew, Visible
<1>4. Lines' = Lines
  BY <1>1, <1>2, <1>3 DEF InFlight, Visible
<1> QED
  BY <1>1, <1>4 DEF Once, LedgerMatchesInbox, DeliveredOnce, SameKey

LEMMA OnceDelete ==
  ASSUME TypeOK, Once, NEW r \in Rules, DeleteRule(r)
  PROVE  Once'
<1> DEFINE Lines == {f \in events \union InFlight : f.status = "sent"}
<1>1. UNCHANGED <<rows, inbox>>
  BY DEF DeleteRule, worker
<1>2. Lines' = Lines
  <2>1. \A e \in events : e.status = "sent" => e \in events'
    BY DeletedRows DEF Once, Final
  <2>2. \A f \in events' : f.status = "sent" => f \in events
    BY DeletedRows, WaitingNotFinal DEF Once
  <2> QED
    BY <1>1, <2>1, <2>2 DEF InFlight
<1> QED
  BY <1>1, <1>2, SteadyDelete DEF Once, LedgerMatchesInbox, DeliveredOnce, SameKey

LEMMA OnceStep ==
  ASSUME Faultless, TypeOK, TransactionsAgree, Once, [Next]_vars
  PROVE  Once'
<1>1. Steady'
  BY SteadyStep DEF Faultless, Once
<1>2. ASSUME NEW w \in Workers, UNCHANGED <<events, inbox>>, Quietly(w)
      PROVE  Once'
  BY <1>1, <1>2, ChatQuiet DEF Once
<1>3. ASSUME NEW w \in Workers,
             \/ LockBusy(w) \/ ListRules(w) \/ ReleaseLock(w)
             \/ \E r : CheckDue(w, r) \/ ClaimRaises(w, r) \/ Evaluate(w, r)
      PROVE  Once'
  <2>1. UNCHANGED <<events, inbox>>
    BY <1>3 DEF LockBusy, ListRules, ReleaseLock, CheckDue, ClaimRaises, Evaluate, db
  <2>2. CASE EndCycle(w) /\ pc[w] \in {"sleep", "claim"}
    <3>1. rows[w] = {}
      BY <2>2 DEF Once, Steady, WorkerSteady, Quiet, DeliveryPc
    <3>2. rows' = rows
      BY <2>2, <3>1 DEF EndCycle, Idle, TypeOK
    <3> QED
      BY <1>2, <2>1, <3>2 DEF Quietly
  <2>3. CASE UNCHANGED rows
    BY <1>2, <2>1, <2>3 DEF Quietly
  <2> QED
    BY <1>3, <2>2, <2>3
    DEF LockBusy, ListRules, ReleaseLock, CheckDue, ClaimRaises, Evaluate
<1>4. ASSUME NEW w \in Workers, NEW c \in FirstCandidate(mem[w].cands),
             \/ SkipTwin(w, c) \/ Decide(w, c) \/ Look(w, c) \/ Disable(w, c)
             \/ Insert(w, c) \/ Reclaim(w, c)
      PROVE  Once'
  <2>1. UNCHANGED <<events, inbox>>
    BY <1>4 DEF SkipTwin, Decide, Look, Disable, Insert, Reclaim, db
  <2>2. CASE SkipTwin(w, c) \/ Decide(w, c) \/ Look(w, c) \/ Disable(w, c)
    BY <1>2, <2>1, <2>2 DEF SkipTwin, Decide, Look, Disable, Quietly
  <2>3. CASE Insert(w, c)
    BY <1>2, <2>1, <2>3, SteadyInsert DEF Once
  <2>4. CASE Reclaim(w, c)
    BY <1>2, <2>1, <2>4, SteadyReclaim DEF Once, Faultless
  <2> QED
    BY <1>4, <2>2, <2>3, <2>4
<1>5. ASSUME NEW w \in Workers, Step(w)
      PROVE  Once'
  <2>1. ~ReclaimConflicts(w)
    BY NoConflict DEF Once
  <2> QED
    BY <1>3, <1>4, <1>5, <2>1, OnceSend, OnceCommit DEF Step, Faultless
<1>6. ASSUME NEW w \in Workers PROVE ~Abort(w) /\ ~Crash(w)
  BY DEF Abort, Crash, Faultless, TypeOK
<1>7. ASSUME UNCHANGED <<events, inbox, rows>> PROVE Once'
  BY <1>1, <1>7 DEF Once, LedgerMatchesInbox, InFlight, DeliveredOnce, SameKey
<1>8. ASSUME NEW r \in Rules, NEW x \in Exprs, EditRule(r, x)
      PROVE  Once'
  BY <1>7, <1>8 DEF EditRule, worker
<1>9. CASE Tick \/ Horizon \/ UNCHANGED vars
  BY <1>7, <1>9 DEF Tick, Horizon, vars, db, worker
<1> QED
  BY <1>5, <1>6, <1>8, <1>9, OnceDelete DEF Next

\* No two workers, edits or refusals make the chat receive a key twice.
THEOREM DeliveredOnceCorrect ==
  ASSUME Faultless
  PROVE  Spec => []DeliveredOnce
<1>1. Init => Once
  BY OnceInit
<1>2. TypeOK /\ TransactionsAgree /\ Once /\ [Next]_vars => Once'
  BY OnceStep
<1>3. Once => DeliveredOnce
  BY DEF Once
<1> QED
  BY <1>1, <1>2, <1>3, TypeCorrect, TransactionsAgreeCorrect, PTL DEF Spec

\* The sent rows, committed or not, are at every instant those of the messages
\* in the chat.
THEOREM LedgerMatchesInboxCorrect ==
  ASSUME Faultless
  PROVE  Spec => []LedgerMatchesInbox
<1>1. Init => Once
  BY OnceInit
<1>2. TypeOK /\ TransactionsAgree /\ Once /\ [Next]_vars => Once'
  BY OnceStep
<1>3. Once => LedgerMatchesInbox
  BY DEF Once
<1> QED
  BY <1>1, <1>2, <1>3, TypeCorrect, TransactionsAgreeCorrect, PTL DEF Spec

-----------------------------------------------------------------------------
(* How often a key is sent again: whatever crashes, aborts or is lost.     *)

Reasons   == crashes + aborts + lost
Copies(x) == {j \in DOMAIN inbox : SameKey(x, inbox[j])}
SentRows  == {f \in events \union InFlight : f.status = "sent"}

\* A message without a record of its key has used up one of the reasons.
Accounted ==
  /\ Steady
  /\ \A x \in Message :
       /\ Cardinality(Copies(x)) <= Reasons + 1
       /\ (\A f \in SentRows : ~SameKey(x, f)) => Cardinality(Copies(x)) <= Reasons

LEMMA CopiesFinite ==
  ASSUME TypeOK, NEW x
  PROVE  IsFiniteSet(Copies(x)) /\ Cardinality(Copies(x)) \in Nat /\ Reasons \in Nat
<1>1. /\ Len(inbox) \in Nat /\ DOMAIN inbox = 1..Len(inbox)
      /\ crashes \in Nat /\ aborts \in Nat /\ lost \in Nat
  BY DEF TypeOK
<1>2. IsFiniteSet(1..Len(inbox))
  BY <1>1, FS_Interval
<1>3. IsFiniteSet(Copies(x))
  BY <1>1, <1>2, FS_Subset DEF Copies
<1> QED
  BY <1>1, <1>3, FS_CardinalityType DEF Reasons

LEMMA AccountedInit ==
  ASSUME Init
  PROVE  Accounted
<1>1. Reasons = 0
  BY DEF Init, Reasons
<1>2. ASSUME NEW x PROVE Cardinality(Copies(x)) = 0
  <2>1. Copies(x) = {}
    BY FirstEvents DEF Copies
  <2> QED
    BY <2>1, FS_EmptySet
<1> QED
  BY <1>1, <1>2, SteadyInit DEF Accounted

\* A step that sends nothing and takes no record back.
LEMMA AccountedKept ==
  ASSUME Accounted, TypeOK, Steady', UNCHANGED <<inbox, crashes, aborts, lost>>,
         \A f \in SentRows : f \in SentRows'
  PROVE  Accounted'
<1>1. \A x : Copies(x)' = Copies(x)
  BY DEF Copies, SameKey
<1>2. Reasons' = Reasons
  BY DEF Reasons
<1> HIDE DEF SentRows
<1>3. ASSUME NEW x \in Message
      PROVE  /\ Cardinality(Copies(x)') <= Reasons' + 1
             /\ (\A f \in SentRows' : ~SameKey(x, f))
                  => Cardinality(Copies(x)') <= Reasons'
  BY <1>1, <1>2 DEF Accounted
<1> QED
  BY <1>3 DEF Accounted, Copies, SameKey

\* A step that rolls a transaction back is a reason of its own.
LEMMA AccountedFault ==
  ASSUME Accounted, TypeOK, Steady', UNCHANGED inbox, Reasons' = Reasons + 1
  PROVE  Accounted'
<1>1. ASSUME NEW x \in Message
      PROVE  Cardinality(Copies(x)') <= Reasons'
  <2>1. Copies(x)' = Copies(x)
    BY DEF Copies, SameKey
  <2> QED
    BY <2>1 DEF Accounted
<1>2. ASSUME NEW x \in Message
      PROVE  Cardinality(Copies(x)') <= Reasons' + 1
  BY <1>1, CopiesFinite DEF Accounted, Copies, SameKey
<1> QED
  BY <1>1, <1>2 DEF Accounted, Copies, SameKey

\* A send has no record of its key before it; it makes one, or it is lost.
LEMMA AccountedSend ==
  ASSUME Accounted, TypeOK, TransactionsAgree, LegacyAlone,
         NEW w \in Workers, NEW c \in FirstCandidate(mem[w].cands), Send(w, c)
  PROVE  Accounted'
<1>1. PICK e \in rows[w] :
        e.id = mem[w].hold /\ (Delivered(w, c, e) \/ Refused(w, e))
  BY DEF Send
<1>2. pc[w] = "send" /\ UNCHANGED <<events, crashes, aborts>> /\ Steady'
  BY SteadySend DEF Send, db, Accounted
<1>3. /\ e \in EventRow /\ now \in Nat /\ inbox \in Seq(Message)
      /\ mem[w] \in Mem /\ c \in Candidate /\ lost \in Nat
  BY DEF TypeOK, FirstCandidate, Mem
<1>4. e.status = "sending" /\ SameKey(e, c)
  BY <1>1, <1>2 DEF TransactionsAgree, RowsFinal, Accounted, Steady, WorkerSteady, HeldKey
<1>5. \A f \in SentRows : ~SameKey(e, f)
  BY <1>1, <1>2, KeyUnsent DEF SentRows, Accounted
<1>6. \A f \in SentRows : f \in SentRows'
  <2>1. \A v \in Workers : \A f \in rows[v] : f # e => f \in rows'[v]
    BY <1>1 DEF Delivered, Refused, Replace, TypeOK
  <2> QED
    BY <1>2, <1>4, <2>1 DEF SentRows, InFlight
<1>7. CASE Refused(w, e)
  BY <1>2, <1>6, <1>7, AccountedKept DEF Refused
<1>8. CASE Delivered(w, c, e)
  <2> DEFINE m == [rule |-> c.rule, expr |-> c.expr, win |-> c.win, at |-> now]
             n == Len(inbox) + 1
  <2>1. inbox' = Append(inbox, m) /\ m \in Message /\ SameKey(e, m)
    BY <1>3, <1>4, <1>8 DEF Delivered, Candidate, Message, SameKey
  <2> HIDE DEF m
  <2>2. /\ n \notin DOMAIN inbox /\ DOMAIN inbox' = DOMAIN inbox \union {n}
        /\ \A j \in DOMAIN inbox : inbox'[j] = inbox[j]
        /\ inbox'[n] = m
    BY <1>3, <2>1
  <2> HIDE DEF n
  <2>3. \/ \E f \in SentRows' : SameKey(e, f) /\ lost' = lost
        \/ lost' = lost + 1
    <3>1. CASE lost' = lost + 1
      BY <3>1
    <3>2. CASE Replace(w, e, Sent(e)) /\ UNCHANGED lost
      <4>1. Sent(e) \in rows'[w]
        BY <3>2 DEF Replace, TypeOK
      <4>2. Sent(e).status = "sent" /\ SameKey(e, Sent(e))
        BY <1>3, <1>4 DEF Sent, EventRow, SameKey
      <4> QED
        BY <3>2, <4>1, <4>2 DEF SentRows, InFlight
    <3> QED
      BY <1>8, <3>1, <3>2 DEF Delivered
  <2>4. Reasons' = Reasons \/ Reasons' = Reasons + 1
    BY <1>2, <1>3, <2>3, CopiesFinite DEF Reasons, TypeOK
  <2>5. ASSUME NEW x \in Message
        PROVE  /\ Cardinality(Copies(x)') <= Reasons' + 1
               /\ (\A f \in SentRows' : ~SameKey(x, f))
                    => Cardinality(Copies(x)') <= Reasons'
    <3>1. /\ IsFiniteSet(Copies(x)) /\ Cardinality(Copies(x)) \in Nat
          /\ Reasons \in Nat
      BY CopiesFinite
    <3>2. CASE ~SameKey(x, m)
      <4>1. Copies(x)' = Copies(x)
        BY <2>2, <3>2 DEF Copies, SameKey
      <4> QED
        BY <1>6, <2>4, <3>1, <4>1 DEF Accounted
    <3>3. CASE SameKey(x, m)
      <4>1. Copies(x)' = Copies(x) \union {n} /\ n \notin Copies(x)
        BY <2>2, <3>3 DEF Copies, SameKey
      <4>2. Cardinality(Copies(x)') = Cardinality(Copies(x)) + 1
        BY <3>1, <4>1, FS_AddElement
      <4>3. \A f : SameKey(x, f) <=> SameKey(e, f)
        BY <2>1, <3>3 DEF SameKey
      <4>4. Cardinality(Copies(x)) <= Reasons
        BY <1>5, <4>3 DEF Accounted
      <4>5. CASE lost' = lost + 1
        <5>1. Reasons' = Reasons + 1
          BY <1>2, <1>3, <4>5 DEF Reasons, TypeOK
        <5> QED
          BY <3>1, <4>2, <4>4, <5>1
      <4>6. CASE \E f \in SentRows' : SameKey(e, f)
        BY <2>4, <3>1, <4>2, <4>3, <4>4, <4>6
      <4> QED
        BY <2>3, <4>5, <4>6
    <3> QED
      BY <3>2, <3>3
  <2> QED
    BY <1>2, <2>5 DEF Accounted, Copies, SameKey
<1> QED
  BY <1>1, <1>7, <1>8

LEMMA AccountedStep ==
  ASSUME LegacyAlone, TypeOK, TransactionsAgree, Accounted, [Next]_vars
  PROVE  Accounted'
<1>1. Steady'
  BY SteadyStep DEF Accounted
<1>2. ASSUME UNCHANGED <<inbox, bounds, rows, events>> PROVE Accounted'
  BY <1>1, <1>2, AccountedKept DEF bounds, SentRows, InFlight
<1>3. ASSUME NEW w \in Workers, UNCHANGED <<inbox, bounds, events>>, Quietly(w)
      PROVE  Accounted'
  <2>1. \A v \in Workers : \A f \in rows[v] : f \in rows'[v]
    BY <1>3 DEF Quietly
  <2>2. \A f \in SentRows : f \in SentRows'
    BY <1>3, <2>1 DEF SentRows, InFlight
  <2> QED
    BY <1>1, <1>3, <2>2, AccountedKept DEF bounds
<1>4. ASSUME NEW w \in Workers,
             \/ LockBusy(w) \/ ListRules(w) \/ ReleaseLock(w)
             \/ \E r : CheckDue(w, r) \/ ClaimRaises(w, r) \/ Evaluate(w, r)
      PROVE  Accounted'
  <2>1. UNCHANGED <<inbox, bounds, events>>
    BY <1>4 DEF LockBusy, ListRules, ReleaseLock, CheckDue, ClaimRaises, Evaluate, db
  <2>2. CASE EndCycle(w) /\ pc[w] \in {"sleep", "claim"}
    <3>1. rows[w] = {}
      BY <2>2 DEF Accounted, Steady, WorkerSteady, Quiet, DeliveryPc
    <3>2. rows' = rows
      BY <2>2, <3>1 DEF EndCycle, Idle, TypeOK
    <3> QED
      BY <1>2, <2>1, <3>2
  <2>3. CASE UNCHANGED rows
    BY <1>2, <2>1, <2>3
  <2> QED
    BY <1>4, <2>2, <2>3
    DEF LockBusy, ListRules, ReleaseLock, CheckDue, ClaimRaises, Evaluate
<1>5. ASSUME NEW w \in Workers, NEW c \in FirstCandidate(mem[w].cands),
             \/ SkipTwin(w, c) \/ Decide(w, c) \/ Look(w, c) \/ Disable(w, c)
             \/ Insert(w, c) \/ Reclaim(w, c)
      PROVE  Accounted'
  <2>1. UNCHANGED <<inbox, bounds, events>>
    BY <1>5 DEF SkipTwin, Decide, Look, Disable, Insert, Reclaim, db
  <2>2. CASE SkipTwin(w, c) \/ Decide(w, c) \/ Look(w, c) \/ Disable(w, c)
    BY <1>2, <2>1, <2>2 DEF SkipTwin, Decide, Look, Disable
  <2>3. CASE Insert(w, c)
    BY <1>3, <2>1, <2>3, SteadyInsert DEF Accounted
  <2>4. CASE Reclaim(w, c)
    BY <1>3, <2>1, <2>4, SteadyReclaim DEF Accounted
  <2> QED
    BY <1>5, <2>2, <2>3, <2>4
<1>6. ASSUME NEW w \in Workers, Commit(w) PROVE Accounted'
  <2>1. /\ events' = Visible(w) /\ UNCHANGED <<inbox, bounds>>
        /\ rows[w] \subseteq Visible(w)
        /\ \A v \in Workers \ {w} : rows'[v] = rows[v]
    BY <1>6, SteadyCommit DEF Commit, Visible, Accounted
  <2>2. \A e \in events : e.status = "sent" => e \in Visible(w)
    BY WaitingNotFinal DEF Accounted, Steady, RowsNew, Visible
  <2>3. \A f \in SentRows : f \in SentRows'
    BY <2>1, <2>2 DEF SentRows, InFlight
  <2> QED
    BY <1>1, <2>1, <2>3, AccountedKept DEF bounds
<1>7. ASSUME NEW w \in Workers, Step(w)
      PROVE  Accounted'
  <2>1. ~ReclaimConflicts(w)
    BY NoConflict DEF Accounted
  <2> QED
    BY <1>4, <1>5, <1>6, <1>7, <2>1, AccountedSend DEF Step
<1>8. ASSUME NEW w \in Workers, Abort(w) \/ Crash(w)
      PROVE  Accounted'
  <2>1. UNCHANGED inbox /\ Reasons' = Reasons + 1
    BY <1>8 DEF Abort, Crash, Reasons, TypeOK
  <2> QED
    BY <1>1, <2>1, AccountedFault
<1>9. ASSUME NEW r \in Rules, DeleteRule(r)
      PROVE  Accounted'
  <2>1. UNCHANGED <<rows, inbox, bounds>>
    BY <1>9 DEF DeleteRule, worker
  <2>2. \A e \in events : e.status = "sent" => e \in events'
    BY <1>9, DeletedRows DEF Accounted, Final
  <2>3. \A f \in SentRows : f \in SentRows'
    BY <2>1, <2>2 DEF SentRows, InFlight
  <2> QED
    BY <1>1, <2>1, <2>3, AccountedKept DEF bounds
<1>10. ASSUME NEW r \in Rules, NEW x \in Exprs, EditRule(r, x)
       PROVE  Accounted'
  <2>1. UNCHANGED <<inbox, rows, events, crashes, aborts, lost>>
    BY <1>10 DEF EditRule, worker
  <2> QED
    BY <1>1, <2>1, AccountedKept DEF SentRows, InFlight
<1>11. CASE Tick \/ Horizon \/ UNCHANGED vars
  BY <1>2, <1>11 DEF Tick, Horizon, vars, db, worker
<1> QED
  BY <1>7, <1>8, <1>9, <1>10, <1>11 DEF Next

LEMMA AccountedExplains ==
  ASSUME IsFiniteSet(Workers), IsFiniteSet(Legacy), Workers # {}, TypeOK, Accounted
  PROVE  ResendsExplained
<1>1. Cardinality(Workers) \in Nat /\ Cardinality(Workers) # 0
  BY FS_CardinalityType, FS_EmptySet
<1>2. Cardinality(Legacy) \in Nat
  BY FS_CardinalityType
<1>3. Overwrites \in Nat
  <2>1. \A a, b \in Nat : a * b \in Nat
    OBVIOUS
  <2>2. Cardinality(Workers) - 1 \in Nat
    BY <1>1
  <2> QED
    BY <1>2, <2>1, <2>2 DEF Overwrites
<1> SUFFICES ASSUME NEW i \in DOMAIN inbox
             PROVE  Cardinality({j \in DOMAIN inbox : SameKey(inbox[i], inbox[j])})
                      <= 1 + crashes + aborts + lost + Overwrites
  BY DEF ResendsExplained
<1>4. inbox[i] \in Message
  BY DEF TypeOK
<1>5. /\ Cardinality(Copies(inbox[i])) <= Reasons + 1
      /\ Cardinality(Copies(inbox[i])) \in Nat
      /\ crashes \in Nat /\ aborts \in Nat /\ lost \in Nat
  BY <1>4, CopiesFinite DEF Accounted, TypeOK
<1> QED
  BY <1>3, <1>5 DEF Copies, Reasons

\* Each repetition of a message has a crash, a database error or a lost reply of
\* its own, for any number of each of them.
THEOREM ResendsExplainedCorrect ==
  ASSUME LegacyAlone, IsFiniteSet(Workers), IsFiniteSet(Legacy), Workers # {}
  PROVE  Spec => []ResendsExplained
<1>1. Init => Accounted
  BY AccountedInit
<1>2. TypeOK /\ TransactionsAgree /\ Accounted /\ [Next]_vars => Accounted'
  BY AccountedStep
<1>3. TypeOK /\ Accounted => ResendsExplained
  BY AccountedExplains
<1> QED
  BY <1>1, <1>2, <1>3, TypeCorrect, TransactionsAgreeCorrect, PTL DEF Spec

-----------------------------------------------------------------------------
(* The workers implement the contract: its safety.                         *)

Wins == 0..WindowOf(MaxTime)

\* The windows of the bounded run are those of the contract's keys.
WinsBounded ==
  /\ now <= MaxTime
  /\ \A w \in Workers : \A c \in mem[w].cands : c.win \in Wins
  /\ \A i \in DOMAIN inbox : inbox[i].win \in Wins

LEMMA WindowGrows ==
  ASSUME NEW t \in Nat, t <= MaxTime
  PROVE  WindowOf(t) \in Wins
<1>1. WindowLen \in Nat /\ WindowLen > 0 /\ MaxTime \in Nat
  BY ParamAssumption
<1> DEFINE p == t \div WindowLen
           q == MaxTime \div WindowLen
<1>2. /\ p \in Nat /\ WindowLen * p <= t
      /\ q \in Nat /\ MaxTime < WindowLen * (q + 1)
  BY <1>1
<1> HIDE DEF p, q
<1>3. ASSUME p > q PROVE FALSE
  <2>1. PICK d \in Nat : p = q + 1 + d
    <3>1. p - q - 1 \in Nat /\ p = q + 1 + (p - q - 1)
      BY <1>2, <1>3
    <3> QED
      BY <3>1
  <2>2. WindowLen * p = WindowLen * (q + 1) + WindowLen * d
    BY <1>1, <1>2, <2>1
  <2>3. WindowLen * d \in Nat
    BY <1>1, <2>1
  <2>4. WindowLen * p \in Nat /\ WindowLen * (q + 1) \in Nat
    BY <1>1, <1>2
  <2> HIDE DEF p, q
  <2> QED
    BY <1>1, <1>2, <2>2, <2>3, <2>4
<1>4. p \in 0..q
  BY <1>2, <1>3
<1> QED
  BY <1>4 DEF p, q, WindowOf, Wins

LEMMA WinsInit ==
  ASSUME Init, MaxTime # 0
  PROVE  WinsBounded
BY ParamAssumption DEF Init, WinsBounded, NoMem

\* Candidates only get windows of instants up to now, messages those of
\* candidates.
LEMMA WinsStep ==
  ASSUME TypeOK, WinsBounded, [Next]_vars
  PROVE  WinsBounded'
<1>t. now \in Nat /\ now <= MaxTime /\ MaxTime \in Nat
  BY ParamAssumption DEF TypeOK, WinsBounded
<1>1. ASSUME UNCHANGED <<now, inbox>>, NEW w \in Workers,
             \A v \in Workers \ {w} : mem'[v] = mem[v],
             \A c \in mem'[w].cands : c \in mem[w].cands \/ c.win \in Wins
      PROVE  WinsBounded'
  BY <1>1 DEF WinsBounded, Wins, WindowOf
<1>2. ASSUME UNCHANGED <<now, inbox>>, NEW w \in Workers, NEW wake, Idle(w, wake)
      PROVE  WinsBounded'
  <2>1. mem'[w].cands = {} /\ \A v \in Workers \ {w} : mem'[v] = mem[v]
    BY <1>2 DEF Idle, NoMem, TypeOK
  <2> QED
    BY <1>1, <1>2, <2>1
<1>3. ASSUME UNCHANGED <<now, inbox, mem>> PROVE WinsBounded'
  BY <1>3 DEF WinsBounded, Wins, WindowOf
<1>4. ASSUME NEW w \in Workers, Step(w) \/ Abort(w) \/ Crash(w)
      PROVE  WinsBounded'
  <2>m. mem[w] \in Mem
    BY DEF TypeOK
  <2>1. CASE LockBusy(w) \/ Abort(w) \/ Crash(w) \/ ReclaimConflicts(w) \/ Commit(w)
    BY <1>2, <2>1
    DEF LockBusy, Abort, Crash, ReclaimConflicts, Commit, EndCycle
  <2>2. CASE ListRules(w)
    <3>1. /\ mem'[w].cands = mem[w].cands
          /\ \A v \in Workers \ {w} : mem'[v] = mem[v]
      BY <2>2, <2>m DEF ListRules, TypeOK, Mem
    <3> QED
      BY <1>1, <2>2, <3>1 DEF ListRules
  <2>3. CASE ReleaseLock(w)
    <3>1. CASE EndCycle(w)
      BY <1>2, <2>3, <3>1 DEF ReleaseLock, EndCycle
    <3>2. CASE ~EndCycle(w)
      <4> DEFINE m == [mem[w] EXCEPT !.todo = mem[w].due, !.due = {}]
      <4>1. mem' = [mem EXCEPT ![w] = m]
        BY <2>3, <3>2 DEF ReleaseLock
      <4>2. m.cands = mem[w].cands
        BY <2>m DEF Mem
      <4> HIDE DEF m
      <4> QED
        BY <1>1, <2>3, <4>1, <4>2 DEF ReleaseLock, TypeOK
    <3> QED
      BY <3>1, <3>2
  <2>4. ASSUME NEW r \in FirstRule(mem[w].todo), CheckDue(w, r)
        PROVE  WinsBounded'
    <3>1. /\ mem'[w].cands = mem[w].cands
          /\ \A v \in Workers \ {w} : mem'[v] = mem[v]
      BY <2>4, <2>m DEF CheckDue, TypeOK, Mem
    <3> QED
      BY <1>1, <2>4, <3>1 DEF CheckDue
  <2>5. ASSUME NEW r \in FirstRule(mem[w].todo), ClaimRaises(w, r)
        PROVE  WinsBounded'
    BY <1>2, <2>5 DEF ClaimRaises, EndCycle
  <2>6. ASSUME NEW r \in FirstRule(mem[w].todo), Evaluate(w, r)
        PROVE  WinsBounded'
    <3>1. ASSUME NEW holds \in BOOLEAN, Evaluated(w, r, holds)
          PROVE  WinsBounded'
      <4> DEFINE c == [rule |-> r, expr |-> mem[w].snap[r],
                       win |-> WindowOf(now), run |-> Len(runs[r]) + 1]
      <4>1. mem' = [mem EXCEPT ![w].todo  = @ \ {r},
                               ![w].cands = IF holds THEN @ \union {c} ELSE @]
        BY <3>1 DEF Evaluated
      <4>2. c.win \in Wins
        BY <1>t, WindowGrows
      <4> HIDE DEF c
      <4>3. /\ mem'[w].cands \subseteq mem[w].cands \union {c}
            /\ \A v \in Workers \ {w} : mem'[v] = mem[v]
        BY <2>m, <4>1 DEF TypeOK, Mem
      <4> QED
        BY <1>1, <2>6, <4>2, <4>3 DEF Evaluate
    <3>2. ASSUME EvaluationFails(w, r) PROVE WinsBounded'
      <4>1. /\ mem'[w].cands = mem[w].cands
            /\ \A v \in Workers \ {w} : mem'[v] = mem[v]
        BY <2>m, <3>2 DEF EvaluationFails, TypeOK, Mem
      <4> QED
        BY <1>1, <2>6, <4>1 DEF Evaluate
    <3> QED
      BY <2>6, <3>1, <3>2 DEF Evaluate
  <2>7. ASSUME NEW c \in FirstCandidate(mem[w].cands),
               \/ SkipTwin(w, c) \/ Decide(w, c) \/ Look(w, c) \/ Reclaim(w, c)
               \/ Insert(w, c) \/ Disable(w, c)
        PROVE  WinsBounded'
    <3>1. UNCHANGED <<now, inbox>>
      BY <2>7 DEF SkipTwin, Decide, Look, Reclaim, Insert, Disable
    <3>2. CASE Finish(w, c)
      BY <1>1, <3>1, <3>2, FinishMoves
    <3>3. ASSUME NEW m, m.cands \subseteq mem[w].cands,
                 mem' = [mem EXCEPT ![w] = m]
          PROVE  WinsBounded'
      BY <1>1, <3>1, <3>3 DEF TypeOK
    <3>4. ASSUME NEW id, mem' = [mem EXCEPT ![w].hold = id]
          PROVE  WinsBounded'
      <4>1. [mem[w] EXCEPT !.hold = id].cands \subseteq mem[w].cands
        BY <2>m DEF Mem
      <4> QED
        BY <3>3, <3>4, <4>1
    <3>5. CASE Decide(w, c)
      <4> DEFINE seen == IF Scheduled(c) THEN mem[w].seen \union {ScheduledKey(c)}
                                         ELSE mem[w].seen
                 m == [mem[w] EXCEPT !.seen = seen, !.sup = ShouldSuppress(w, c)]
      <4>1. mem' = [mem EXCEPT ![w] = m]
        BY <3>5 DEF Decide
      <4>2. m.cands \subseteq mem[w].cands
        BY <2>m DEF Mem
      <4> HIDE DEF m
      <4> QED
        BY <3>3, <4>1, <4>2
    <3>6. CASE Disable(w, c)
      <4>1. DropCandidate(mem[w], c).cands \subseteq mem[w].cands
        BY <2>m DEF DropCandidate, Mem
      <4> QED
        BY <3>3, <3>6, <4>1 DEF Disable
    <3>7. CASE Look(w, c)
      BY <1>3, <3>1, <3>2, <3>4, <3>7 DEF Look, Continue
    <3>8. CASE Reclaim(w, c)
      BY <3>2, <3>4, <3>8 DEF Reclaim, Hold
    <3>9. CASE Insert(w, c)
      BY <3>2, <3>4, <3>9 DEF Insert, Hold
    <3> QED
      BY <2>7, <3>2, <3>5, <3>6, <3>7, <3>8, <3>9 DEF SkipTwin
  <2>8. ASSUME NEW c \in FirstCandidate(mem[w].cands), Send(w, c)
        PROVE  WinsBounded'
    <3> DEFINE m == [rule |-> c.rule, expr |-> c.expr, win |-> c.win, at |-> now]
    <3>1. /\ inbox' = Append(inbox, m) \/ inbox' = inbox
          /\ Finish(w, c) /\ UNCHANGED now
      BY <2>8 DEF Send, Delivered, Refused
    <3>2. /\ \A v \in Workers \ {w} : mem'[v] = mem[v]
          /\ mem'[w].cands \subseteq mem[w].cands
      BY <3>1, FinishMoves
    <3>3. m \in Message /\ inbox \in Seq(Message)
      BY <2>m DEF FirstCandidate, Mem, Candidate, Message, TypeOK
    <3>4. m.win \in Wins
      BY DEF WinsBounded, FirstCandidate
    <3> HIDE DEF m
    <3>5. \A i \in DOMAIN inbox' : inbox'[i].win \in Wins
      BY <3>1, <3>3, <3>4 DEF WinsBounded
    <3> QED
      BY <3>1, <3>2, <3>5 DEF WinsBounded, Wins, WindowOf
  <2> QED
    BY <1>4, <2>1, <2>2, <2>3, <2>4, <2>5, <2>6, <2>7, <2>8 DEF Step
<1>5. CASE Tick
  BY <1>5, <1>t DEF Tick, worker, WinsBounded, Wins, WindowOf
<1>6. ASSUME NEW r \in Rules, DeleteRule(r) \/ \E x \in Exprs : EditRule(r, x)
      PROVE  WinsBounded'
  BY <1>3, <1>6 DEF DeleteRule, EditRule, worker
<1>7. CASE Horizon \/ UNCHANGED vars
  BY <1>3, <1>7 DEF Horizon, vars, worker
<1> QED
  BY <1>4, <1>5, <1>6, <1>7 DEF Next

\* The two variables of the contract.
delivered == [i \in DOMAIN inbox |-> KeyRec(inbox[i])]
recorded  == {KeyRec(e) : e \in {f \in events : f.status = "sent"}}

LEMMA ContractFrame ==
  ASSUME UNCHANGED <<inbox, events>>
  PROVE  UNCHANGED <<delivered, recorded>>
BY DEF delivered, recorded, KeyRec

\* A delivery is one of a key that was not delivered before.
LEMMA ContractSend ==
  ASSUME Faultless, TypeOK, TransactionsAgree, Once, WinsBounded,
         NEW w \in Workers, NEW c \in FirstCandidate(mem[w].cands), Send(w, c)
  PROVE  Contract!Next \/ UNCHANGED <<delivered, recorded>>
<1> DEFINE m == [rule |-> c.rule, expr |-> c.expr, win |-> c.win, at |-> now]
<1>1. /\ events' = events
      /\ \/ inbox' = inbox
         \/ inbox' = Append(inbox, m)
  BY DEF Send, Delivered, Refused, db
<1>2. CASE inbox' = inbox
  BY <1>1, <1>2, ContractFrame
<1>3. CASE inbox' = Append(inbox, m)
  <2> DEFINE k == KeyRec(c)
  <2>1. c \in Candidate /\ c.win \in Wins /\ now \in Nat /\ inbox \in Seq(Message)
    BY DEF TypeOK, FirstCandidate, Mem, WinsBounded
  <2>2. k \in Key
    BY <2>1 DEF KeyRec, Key, Candidate, Wins
  <2>3. m \in Message /\ KeyRec(m) = k
    BY <2>1 DEF Message, Candidate, KeyRec
  <2>4. m.rule = k.rule /\ m.expr = k.expr /\ m.win = k.win
    BY DEF KeyRec
  <2> HIDE DEF m, k
  <2>5. /\ Len(inbox) \in Nat
        /\ DOMAIN inbox = 1..Len(inbox)
        /\ DOMAIN inbox' = 1..(Len(inbox) + 1)
        /\ \A i \in DOMAIN inbox : inbox'[i] = inbox[i]
        /\ inbox'[Len(inbox) + 1] = m
    BY <1>3, <2>1, <2>3
  <2>6. delivered' = Append(delivered, k)
    <3>1. delivered \in Seq(Key \union {KeyRec(x) : x \in Message})
      BY <2>1, <2>5 DEF delivered
    <3>2. Len(delivered) = Len(inbox)
      BY <2>5, <3>1 DEF delivered
    <3>3. /\ DOMAIN Append(delivered, k) = DOMAIN inbox'
          /\ \A i \in DOMAIN inbox : Append(delivered, k)[i] = delivered[i]
          /\ Append(delivered, k)[Len(inbox) + 1] = k
      BY <2>2, <2>5, <3>1, <3>2
    <3>4. \A i \in DOMAIN inbox' : Append(delivered, k)[i] = KeyRec(inbox'[i])
      BY <2>3, <2>5, <3>3 DEF delivered
    <3>5. Append(delivered, k) \in Seq(Key \union {KeyRec(x) : x \in Message})
      BY <2>2, <3>1
    <3>6. Append(delivered, k) = [i \in DOMAIN inbox' |-> KeyRec(inbox'[i])]
      <4> DEFINE a == Append(delivered, k)
                 S == Key \union {KeyRec(x) : x \in Message}
      <4>1. /\ a \in Seq(S) /\ DOMAIN a = DOMAIN inbox'
            /\ \A i \in DOMAIN inbox' : a[i] = KeyRec(inbox'[i])
        BY <3>3, <3>4, <3>5
      <4> HIDE DEF a, S
      <4>2. a \in [DOMAIN inbox' -> S]
        <5>1. a \in [1..Len(a) -> S]
          BY <4>1, LenProperties
        <5> QED
          BY <4>1, <5>1
      <4>3. a = [i \in DOMAIN inbox' |-> a[i]]
        BY <4>2
      <4>4. a = [i \in DOMAIN inbox' |-> KeyRec(inbox'[i])]
        BY <4>1, <4>3
      <4> QED
        BY <4>4 DEF a
    <3> QED
      BY <3>6 DEF delivered, KeyRec
  <2>7. \A i \in DOMAIN inbox : KeyRec(inbox[i]) # k
    <3> SUFFICES ASSUME NEW i \in DOMAIN inbox, KeyRec(inbox[i]) = k PROVE FALSE
      OBVIOUS
    <3>1. inbox[i].rule = k.rule /\ inbox[i].expr = k.expr /\ inbox[i].win = k.win
      BY DEF KeyRec
    <3>2. k.rule # NoRule
      BY <2>2, ParamAssumption DEF Key
    <3>3. SameKey(inbox'[i], inbox'[Len(inbox) + 1])
      BY <2>4, <2>5, <3>1, <3>2 DEF SameKey
    <3>4. DeliveredOnce'
      BY OnceSend DEF Once
    <3>5. i = Len(inbox) + 1
      BY <2>5, <3>3, <3>4 DEF DeliveredOnce, SameKey
    <3> QED
      BY <2>5, <3>5
  <2>8. k \notin Contract!Range(delivered)
    BY <2>7 DEF Contract!Range, delivered
  <2>9. recorded' = recorded
    BY <1>1 DEF recorded, KeyRec
  <2> QED
    BY <2>2, <2>6, <2>8, <2>9
    DEF Contract!Next, Contract!Deliver, delivered, recorded
<1> QED
  BY <1>1, <1>2, <1>3

\* A commit records keys that were delivered and not recorded before.
LEMMA ContractCommit ==
  ASSUME LegacyAlone, TypeOK, TransactionsAgree, Once, WinsBounded,
         NEW w \in Workers, Commit(w)
  PROVE  Contract!Next \/ UNCHANGED <<delivered, recorded>>
<1> DEFINE K == {KeyRec(e) : e \in {f \in rows[w] : f.status = "sent"}}
<1>0. \A f \in events : f.status = "sent" => f \in Visible(w) /\ f \notin rows[w]
  BY WaitingNotFinal DEF Visible, Once, Steady, RowsNew
<1>1. events' = Visible(w) /\ inbox' = inbox
  BY DEF Commit
<1>2. delivered' = delivered /\ recorded' = recorded \union K
  BY <1>0, <1>1 DEF delivered, recorded, KeyRec, Visible
<1>3. CASE K = {}
  BY <1>2, <1>3
<1>4. CASE K # {}
  <2>1. ASSUME NEW e \in rows[w], e.status = "sent"
        PROVE  /\ KeyRec(e) \in Key
               /\ KeyRec(e) \in Contract!Range(delivered)
               /\ KeyRec(e) \notin recorded
    <3>1. PICK i \in DOMAIN inbox : KeyRec(inbox[i]) = KeyRec(e)
      <4> DEFINE Line(f) == [rule |-> f.rule, expr |-> f.expr, win |-> f.win,
                             at |-> f.sentAt]
      <4>1. e \in {f \in events \union InFlight : f.status = "sent"}
        BY <2>1 DEF InFlight
      <4>2. Line(e) \in {inbox[i] : i \in DOMAIN inbox}
        BY <4>1 DEF Once, LedgerMatchesInbox
      <4>3. KeyRec(Line(e)) = KeyRec(e)
        BY DEF KeyRec
      <4> HIDE DEF Line
      <4> QED
        BY <4>2, <4>3
    <3>2. KeyRec(e) \in Contract!Range(delivered)
      BY <3>1 DEF Contract!Range, delivered
    <3>3. KeyRec(e) \in Key
      <4>1. inbox[i] \in Message /\ inbox[i].win \in Wins
        BY DEF TypeOK, WinsBounded
      <4> QED
        BY <3>1, <4>1 DEF Message, Key, KeyRec, Wins
    <3>4. ASSUME NEW f \in events, f.status = "sent", KeyRec(f) = KeyRec(e)
          PROVE  FALSE
      <4>1. f.rule = e.rule /\ f.expr = e.expr /\ f.win = e.win
        BY <3>4 DEF KeyRec
      <4>2. e.rule # NoRule
        BY ParamAssumption DEF Once, Steady, WorkerSteady, RanHere, Ran
      <4>3. SameKey(e, f) /\ Active(e) /\ Active(f) /\ f \in Visible(w)
        BY <1>0, <2>1, <3>4, <4>1, <4>2 DEF SameKey, Active, ActiveStatus
      <4>4. e.id = f.id
        BY <4>3 DEF TransactionsAgree, KeysVisible
      <4> QED
        BY <3>4, <4>4, WaitingNotFinal DEF Once, Steady, RowsNew
    <3> QED
      BY <3>2, <3>3, <3>4 DEF recorded
  <2>2. K \in SUBSET Key /\ K \subseteq Contract!Range(delivered) \ recorded
    BY <2>1
  <2> HIDE DEF K
  <2> QED
    BY <1>2, <1>4, <2>2
    DEF Contract!Next, Contract!Record, delivered, recorded
<1> QED
  BY <1>3, <1>4

LEMMA ContractStep ==
  ASSUME Faultless, TypeOK, TransactionsAgree, Once, WinsBounded, [Next]_vars
  PROVE  Contract!Next \/ UNCHANGED <<delivered, recorded>>
<1>1. ASSUME NEW w \in Workers, Step(w)
      PROVE  Contract!Next \/ UNCHANGED <<delivered, recorded>>
  <2>1. CASE LockBusy(w) \/ ListRules(w) \/ ReleaseLock(w) \/ ReclaimConflicts(w)
    BY <2>1, ContractFrame
    DEF LockBusy, ListRules, ReleaseLock, ReclaimConflicts, db
  <2>2. ASSUME NEW r, CheckDue(w, r) \/ ClaimRaises(w, r) \/ Evaluate(w, r)
        PROVE  UNCHANGED <<delivered, recorded>>
    BY <2>2, ContractFrame DEF CheckDue, ClaimRaises, Evaluate, db
  <2>3. ASSUME NEW c, \/ SkipTwin(w, c) \/ Decide(w, c) \/ Look(w, c)
                      \/ Reclaim(w, c) \/ Insert(w, c) \/ Disable(w, c)
        PROVE  UNCHANGED <<delivered, recorded>>
    BY <2>3, ContractFrame
    DEF SkipTwin, Decide, Look, Reclaim, Insert, Disable, db
  <2> QED
    BY <1>1, <2>1, <2>2, <2>3, ContractSend, ContractCommit DEF Step, Faultless
<1>2. ASSUME NEW w \in Workers PROVE ~Abort(w) /\ ~Crash(w)
  BY DEF Abort, Crash, Faultless, TypeOK
<1>3. ASSUME NEW r \in Rules, DeleteRule(r)
      PROVE  UNCHANGED <<delivered, recorded>>
  <2>1. \A e \in events : e.status = "sent" => e \in events'
    BY <1>3, DeletedRows DEF Once, Final
  <2>2. \A f \in events' : f.status = "sent" => f \in events
    BY <1>3, DeletedRows, WaitingNotFinal DEF Once
  <2>3. inbox' = inbox
    BY <1>3 DEF DeleteRule
  <2> QED
    BY <2>1, <2>2, <2>3 DEF delivered, recorded, KeyRec
<1>4. ASSUME NEW r \in Rules, NEW x \in Exprs, EditRule(r, x)
      PROVE  UNCHANGED <<delivered, recorded>>
  BY <1>4, ContractFrame DEF EditRule
<1>5. CASE Tick \/ Horizon \/ UNCHANGED vars
  BY <1>5, ContractFrame DEF Tick, Horizon, vars, db
<1> QED
  BY <1>1, <1>2, <1>3, <1>4, <1>5 DEF Next

LEMMA ContractInit ==
  ASSUME Init
  PROVE  Contract!Init
<1>1. inbox = <<>> /\ \A e \in events : e.status # "sent"
  BY FirstEvents, WaitingNotFinal
<1> QED
  BY <1>1 DEF Contract!Init

\* The workers implement the contract: each step of the system delivers a new
\* key, records delivered ones, or is invisible in the chat and the ledger.
THEOREM ContractSafe ==
  ASSUME Faultless, MaxTime # 0
  PROVE  Spec => Contract!Spec
<1>1. Init => Once /\ WinsBounded /\ Contract!Init
  BY OnceInit, WinsInit, ContractInit
<1>2. TypeOK /\ TransactionsAgree /\ Once /\ [Next]_vars => Once'
  BY OnceStep
<1>3. TypeOK /\ WinsBounded /\ [Next]_vars => WinsBounded'
  BY WinsStep
<1>4. TypeOK /\ TransactionsAgree /\ Once /\ WinsBounded /\ [Next]_vars
        => [Contract!Next]_Contract!contract
  BY ContractStep DEF Contract!contract, delivered, recorded
<1> QED
  BY <1>1, <1>2, <1>3, <1>4, TypeCorrect, TransactionsAgreeCorrect, PTL
  DEF Spec, Contract!Spec

-----------------------------------------------------------------------------
(* The cooldown, with one worker.                                          *)

\* should_suppress tests both columns; a sent row passes the first test.
Plain(e) ==
  /\ e.status # "suppressed" => ~e.supp
  /\ e.status = "sent" => e.sentAt # NoTime

AllPlain ==
  /\ \A e \in events : Plain(e)
  /\ \A w \in Workers : \A e \in rows[w] : Plain(e)

\* The candidate w is at has passed should_suppress and may still be sent.
Chosen(w) ==
  pc[w] = "send" \/ (pc[w] \in {"look", "reclaim", "insert"} /\ ~mem[w].sup)

\* No message of rule r is in its cooldown.
Rested(r) ==
  \A i \in DOMAIN inbox : inbox[i].rule = r => inbox[i].at + Cooldown < now

\* What should_suppress has read stays true until the send.
Cool ==
  /\ now # 0
  /\ AllPlain
  /\ CooldownRespected
  /\ \A w \in Workers : Chosen(w) =>
       \A c \in FirstCandidate(mem[w].cands) : Rested(c.rule)

LEMMA CoolInit ==
  ASSUME Init
  PROVE  Cool
<1>1. now # 0
  BY DEF Init
<1>2. AllPlain
  BY FirstEvents, WaitingNotFinal DEF AllPlain, Plain
<1> QED
  BY <1>1, <1>2, FirstEvents DEF Cool, Chosen, CooldownRespected

LEMMA MessageTime ==
  ASSUME TypeOK, NEW i \in DOMAIN inbox
  PROVE  inbox[i].at \in Nat
<1>1. inbox[i] \in Message
  <2>1. inbox \in Seq(Message)
    BY DEF TypeOK
  <2> QED
    BY <2>1
<1> QED
  BY <1>1 DEF Message

\* A step that delivers nothing and lets no candidate pass.
LEMMA CoolFrame ==
  ASSUME TypeOK, TypeOK', Cool, UNCHANGED inbox, now <= now', AllPlain',
         \A v \in Workers : Chosen(v)' =>
           Chosen(v) /\ mem'[v].cands = mem[v].cands
  PROVE  Cool'
<1>1. \A i \in DOMAIN inbox : inbox[i].at \in Nat
  BY MessageTime
<1>2. now \in Nat /\ now' \in Nat /\ Cooldown \in Nat
  BY ParamAssumption DEF TypeOK
<1>3. now' # 0
  BY <1>2 DEF Cool
<1>4. \A r : Rested(r) => Rested(r)'
  BY <1>1, <1>2 DEF Rested
<1>5. CooldownRespected'
  BY DEF Cool, CooldownRespected
<1> QED
  BY <1>3, <1>4, <1>5 DEF Cool, FirstCandidate

\* The same, of a step of w that keeps the rows or drops w's.
LEMMA CoolLocal ==
  ASSUME TypeOK, TypeOK', Cool, NEW w \in Workers, UNCHANGED <<now, inbox, events>>,
         rows' = rows \/ rows' = [rows EXCEPT ![w] = {}],
         \A v \in Workers \ {w} : pc'[v] = pc[v] /\ mem'[v] = mem[v],
         Chosen(w)' => Chosen(w) /\ mem'[w].cands = mem[w].cands
  PROVE  Cool'
<1>1. \A v \in Workers : rows'[v] \subseteq rows[v]
  BY DEF TypeOK
<1>2. AllPlain'
  BY <1>1 DEF Cool, AllPlain, Plain
<1>3. now <= now'
  BY DEF TypeOK
<1>4. \A v \in Workers \ {w} : Chosen(v)' => Chosen(v)
  BY DEF Chosen
<1> QED
  BY <1>2, <1>3, <1>4, CoolFrame

LEMMA CoolIdle ==
  ASSUME TypeOK, TypeOK', Cool, NEW w \in Workers, NEW wake, Idle(w, wake),
         UNCHANGED <<now, inbox, events>>
  PROVE  Cool'
<1>1. /\ pc'[w] = "sleep"
      /\ rows' = [rows EXCEPT ![w] = {}]
      /\ \A v \in Workers \ {w} : pc'[v] = pc[v] /\ mem'[v] = mem[v]
  BY DEF Idle, TypeOK
<1> QED
  BY <1>1, CoolLocal DEF Chosen

LEMMA CoolClaim ==
  ASSUME TypeOK, TypeOK', Cool, NEW w \in Workers,
         \/ LockBusy(w) \/ ListRules(w) \/ ReleaseLock(w)
         \/ \E r : CheckDue(w, r) \/ ClaimRaises(w, r) \/ Evaluate(w, r)
  PROVE  Cool'
<1>1. UNCHANGED <<now, inbox, events>>
  BY DEF LockBusy, ListRules, ReleaseLock, CheckDue, ClaimRaises, Evaluate, db
<1>2. CASE EndCycle(w)
  BY <1>1, <1>2, CoolIdle DEF EndCycle
<1>3. CASE ~EndCycle(w)
  <2>1. /\ rows' = rows
        /\ pc'[w] \in {"claim", "eval", "pick"}
        /\ \A v \in Workers \ {w} : pc'[v] = pc[v] /\ mem'[v] = mem[v]
    BY <1>3 DEF LockBusy, ListRules, ReleaseLock, CheckDue, ClaimRaises, Evaluate,
      Evaluated, EvaluationFails, TypeOK
  <2> QED
    BY <1>1, <2>1, CoolLocal DEF Chosen
<1> QED
  BY <1>2, <1>3

LEMMA CoolPass ==
  ASSUME TypeOK, TypeOK', Cool, NEW w \in Workers, NEW c,
         SkipTwin(w, c) \/ Look(w, c) \/ Disable(w, c)
  PROVE  Cool'
<1>1. UNCHANGED <<now, inbox, events, rows>>
  BY DEF SkipTwin, Look, Disable, db
<1>2. CASE Finish(w, c)
  BY <1>1, <1>2, FinishMoves, CoolLocal DEF Chosen
<1>3. CASE Disable(w, c)
  BY <1>1, <1>3, CoolLocal DEF Disable, Chosen, TypeOK
<1>4. CASE Look(w, c) /\ ~Finish(w, c)
  <2>1. /\ pc[w] = "look"
        /\ \/ pc' = [pc EXCEPT ![w] = "insert"] /\ mem' = mem
           \/ /\ pc' = [pc EXCEPT ![w] = "reclaim"]
              /\ \E id : mem' = [mem EXCEPT ![w].hold = id]
    BY <1>4 DEF Look, Continue
  <2>2. mem[w] \in Mem
    BY DEF TypeOK
  <2>3. \A id : /\ [mem[w] EXCEPT !.hold = id].cands = mem[w].cands
                /\ [mem[w] EXCEPT !.hold = id].sup = mem[w].sup
    BY <2>2 DEF Mem
  <2>4. /\ pc'[w] \in {"insert", "reclaim"}
        /\ mem'[w].cands = mem[w].cands /\ mem'[w].sup = mem[w].sup
        /\ \A v \in Workers \ {w} : pc'[v] = pc[v] /\ mem'[v] = mem[v]
    <3>1. CASE pc' = [pc EXCEPT ![w] = "insert"] /\ mem' = mem
      BY <3>1 DEF TypeOK
    <3>2. ASSUME pc' = [pc EXCEPT ![w] = "reclaim"], NEW id,
                 mem' = [mem EXCEPT ![w].hold = id]
          PROVE  /\ pc'[w] = "reclaim"
                 /\ mem'[w].cands = mem[w].cands /\ mem'[w].sup = mem[w].sup
                 /\ \A v \in Workers \ {w} : pc'[v] = pc[v] /\ mem'[v] = mem[v]
      <4> DEFINE m == [mem[w] EXCEPT !.hold = id]
      <4>1. mem' = [mem EXCEPT ![w] = m] /\ m.cands = mem[w].cands /\ m.sup = mem[w].sup
        BY <2>3, <3>2
      <4> HIDE DEF m
      <4> QED
        BY <3>2, <4>1 DEF TypeOK
    <3> QED
      BY <2>1, <3>1, <3>2
  <2> QED
    BY <1>1, <2>1, <2>4, CoolLocal DEF Chosen
<1> QED
  BY <1>2, <1>3, <1>4 DEF SkipTwin

\* A candidate passes: every message of its rule has its sent row, which
\* should_suppress sees, since there are no other workers.
LEMMA CoolDecide ==
  ASSUME TypeOK, TypeOK', Once, Cool, NEW w, Workers = {w},
         NEW c \in FirstCandidate(mem[w].cands), Decide(w, c)
  PROVE  Cool'
<1>m. mem[w] \in Mem /\ now \in Nat /\ Cooldown \in Nat
  BY ParamAssumption DEF TypeOK
<1>1. /\ UNCHANGED <<now, inbox, events, rows>>
      /\ pc'[w] = "look"
  BY DEF Decide, db, TypeOK
<1>2. mem'[w].cands = mem[w].cands /\ mem'[w].sup = ShouldSuppress(w, c)
  <2> DEFINE seen == IF Scheduled(c) THEN mem[w].seen \union {ScheduledKey(c)}
                                     ELSE mem[w].seen
             m == [mem[w] EXCEPT !.seen = seen, !.sup = ShouldSuppress(w, c)]
  <2>1. mem' = [mem EXCEPT ![w] = m]
    BY DEF Decide
  <2>2. m.cands = mem[w].cands /\ m.sup = ShouldSuppress(w, c)
    BY <1>m DEF Mem
  <2> HIDE DEF m
  <2> QED
    BY <2>1, <2>2 DEF TypeOK
<1>3. ASSUME ~ShouldSuppress(w, c) PROVE Rested(c.rule)
  <2> SUFFICES ASSUME NEW i \in DOMAIN inbox, inbox[i].rule = c.rule
               PROVE  inbox[i].at + Cooldown < now
    BY DEF Rested
  <2> DEFINE Line(f) == [rule |-> f.rule, expr |-> f.expr, win |-> f.win,
                         at |-> f.sentAt]
  <2>1. PICK e \in {f \in events \union InFlight : f.status = "sent"} :
          Line(e) = inbox[i]
    BY DEF Once, LedgerMatchesInbox
  <2>2. e.rule = c.rule /\ e.sentAt = inbox[i].at
    BY <2>1
  <2>3. e \in Visible(w)
    BY <2>1, WaitingNotFinal DEF Once, Steady, RowsNew, Visible, InFlight
  <2>4. ~InCooldown(e)
    BY <1>3, <2>2, <2>3 DEF ShouldSuppress
  <2>5. ~e.supp /\ e.sentAt # NoTime
    BY <2>1 DEF Cool, AllPlain, Plain, InFlight
  <2>6. inbox[i].at \in Nat
    BY MessageTime
  <2> QED
    BY <1>m, <2>2, <2>4, <2>5, <2>6 DEF InCooldown
<1>4. \A d \in FirstCandidate(mem[w].cands) : d = c
  BY FirstOne DEF Once, Steady, WorkerSteady
<1>5. Chosen(w)' => \A d \in FirstCandidate(mem'[w].cands) : Rested(d.rule)'
  BY <1>1, <1>2, <1>3, <1>4 DEF Chosen, FirstCandidate, Rested
<1>6. now' # 0 /\ AllPlain' /\ CooldownRespected'
  BY <1>1 DEF Cool, AllPlain, Plain, CooldownRespected
<1> QED
  BY <1>5, <1>6 DEF Cool, FirstCandidate, Rested

\* A row that is taken, before it is sent.
LEMMA CoolHold ==
  ASSUME TypeOK, TypeOK', Cool, NEW w \in Workers, NEW c,
         NEW e \in EventRow, e.status = "sending", ~e.supp, Hold(w, c, e),
         pc[w] \in {"reclaim", "insert"}, UNCHANGED <<now, inbox, events>>
  PROVE  Cool'
<1>m. mem[w] \in Mem
  BY DEF TypeOK
<1>2. Plain(e) /\ Plain(Suppressed(e))
  BY DEF Plain, Suppressed, EventRow
<1>3. PICK g \in {e, Suppressed(e)} : rows' = [rows EXCEPT ![w] = @ \union {g}]
  BY DEF Hold
<1>4. rows'[w] = rows[w] \union {g}
      /\ \A v \in Workers \ {w} : rows'[v] = rows[v]
  BY <1>3 DEF TypeOK
<1>5. AllPlain'
  BY <1>2, <1>4 DEF Cool, AllPlain, Plain
<1>6. /\ \A v \in Workers \ {w} : pc'[v] = pc[v] /\ mem'[v] = mem[v]
      /\ Chosen(w)' => Chosen(w) /\ mem'[w].cands = mem[w].cands
  <2>1. CASE Finish(w, c)
    BY <2>1, FinishMoves DEF Chosen
  <2>2. CASE ~Finish(w, c)
    <3>1. /\ ~mem[w].sup
          /\ pc'  = [pc EXCEPT ![w] = "send"]
          /\ mem' = [mem EXCEPT ![w].hold = e.id]
      BY <2>2 DEF Hold
    <3>2. [mem[w] EXCEPT !.hold = e.id].cands = mem[w].cands
      BY <1>m DEF Mem
    <3> QED
      BY <3>1, <3>2 DEF Chosen, TypeOK
  <2> QED
    BY <2>1, <2>2
<1>7. \A v \in Workers \ {w} : Chosen(v)' => Chosen(v)
  BY <1>6 DEF Chosen
<1>8. now <= now'
  BY DEF TypeOK
<1> QED
  BY <1>5, <1>6, <1>7, <1>8, CoolFrame

LEMMA CoolInsert ==
  ASSUME TypeOK, TypeOK', Cool, NEW w \in Workers,
         NEW c \in FirstCandidate(mem[w].cands), Insert(w, c)
  PROVE  Cool'
<1> DEFINE e == [id |-> nextId, rule |-> c.rule, expr |-> c.expr, win |-> c.win,
                 run |-> c.run, status |-> "sending", supp |-> FALSE,
                 sentAt |-> NoTime, created |-> now, claimed |-> now]
<1>m. mem[w] \in Mem /\ c \in Candidate /\ now \in Nat
  BY DEF TypeOK, FirstCandidate, Mem
<1>1. /\ pc[w] = "insert" /\ UNCHANGED <<now, inbox, events>>
      /\ \/ Finish(w, c) /\ UNCHANGED rows
         \/ Hold(w, c, e)
  BY DEF Insert
<1>2. CASE Finish(w, c) /\ UNCHANGED rows
  BY <1>1, <1>2, FinishMoves, CoolLocal DEF Chosen
<1>3. e.status = "sending" /\ ~e.supp /\ e \in EventRow
  BY <1>m DEF Candidate, EventRow, Status, ActiveStatus, TypeOK, NoTime
<1> HIDE DEF e
<1> QED
  BY <1>1, <1>2, <1>3, CoolHold

LEMMA CoolReclaim ==
  ASSUME TypeOK, TypeOK', TransactionsAgree, Once, Cool, NEW w \in Workers,
         NEW c \in FirstCandidate(mem[w].cands), Reclaim(w, c)
  PROVE  Cool'
<1>1. PICK e \in events :
        /\ e.id = mem[w].hold
        /\ Hold(w, c, [e EXCEPT !.status = "sending", !.claimed = now])
  BY DEF Reclaim
<1>2. pc[w] = "reclaim" /\ UNCHANGED <<now, inbox, events>>
  BY DEF Reclaim, db
<1>3. e.status = "pending"
  BY <1>1, <1>2
  DEF Once, Steady, WorkerSteady, ReclaimKey, Waiting, TransactionsAgree, IdsUnique
<1>4. ~e.supp
  BY <1>3 DEF Cool, AllPlain, Plain
<1>5. e \in EventRow /\ now \in Nat
  BY DEF TypeOK
<1> DEFINE g == [e EXCEPT !.status = "sending", !.claimed = now]
<1>6. g \in EventRow
  BY <1>5 DEF EventRow, Status, ActiveStatus
<1>7. g.status = "sending" /\ ~g.supp
  BY <1>4, <1>5 DEF EventRow
<1>8. Hold(w, c, g)
  BY <1>1
<1> HIDE DEF g
<1> QED
  BY <1>2, <1>6, <1>7, <1>8, CoolHold

\* The message that is sent is the only new one, and its rule has rested.
LEMMA CoolSend ==
  ASSUME TypeOK, TypeOK', TransactionsAgree, Cool, NEW w, Workers = {w},
         NEW c \in FirstCandidate(mem[w].cands), Send(w, c)
  PROVE  Cool'
<1>1. PICK e \in rows[w] :
        e.id = mem[w].hold /\ (Delivered(w, c, e) \/ Refused(w, e))
  BY DEF Send
<1>2. /\ pc[w] = "send" /\ Finish(w, c)
      /\ UNCHANGED <<now, events>>
  BY DEF Send, db
<1>3. PICK g \in {Sent(e), Suppressed(e)} : Replace(w, e, g)
  BY <1>1 DEF Delivered, Refused
<1>m. /\ e \in EventRow /\ now \in Nat /\ inbox \in Seq(Message)
      /\ mem[w] \in Mem /\ c \in Candidate
  BY DEF TypeOK, FirstCandidate, Mem
<1>4. Plain(g)
  <2>1. e.status = "sending" /\ ~e.supp
    BY <1>1, <1>2 DEF TransactionsAgree, RowsFinal, Cool, AllPlain, Plain
  <2>2. Plain(Sent(e))
    <3>1. Sent(e).supp = e.supp /\ Sent(e).sentAt = now
      BY <1>m DEF Sent, EventRow
    <3>2. now # NoTime
      BY DEF Cool, NoTime
    <3> QED
      BY <2>1, <3>1, <3>2 DEF Plain
  <2>3. Plain(Suppressed(e))
    <3>1. Suppressed(e).status = "suppressed"
      BY <1>m DEF Suppressed, EventRow
    <3> QED
      BY <3>1 DEF Plain
  <2> QED
    BY <1>3, <2>2, <2>3
<1>5. AllPlain'
  <2>1. rows'[w] = (rows[w] \ {e}) \union {g}
    BY <1>3 DEF Replace, TypeOK
  <2> QED
    BY <1>2, <1>4, <2>1 DEF Cool, AllPlain, Plain
<1>6. ~Chosen(w)'
  BY <1>2, FinishMoves DEF Chosen
<1>7. Rested(c.rule)
  BY <1>2 DEF Cool, Chosen
<1>8. CooldownRespected'
  <2> DEFINE m == [rule |-> c.rule, expr |-> c.expr, win |-> c.win, at |-> now]
  <2>1. inbox' = inbox \/ inbox' = Append(inbox, m)
    BY <1>1 DEF Delivered, Refused
  <2>2. m \in Message /\ m.rule = c.rule /\ m.at = now
    BY <1>m DEF Candidate, Message
  <2> HIDE DEF m
  <2>3. CASE inbox' = inbox
    BY <2>3 DEF Cool, CooldownRespected
  <2>4. CASE inbox' = Append(inbox, m)
    <3>1. /\ Len(inbox) \in Nat
          /\ DOMAIN inbox = 1..Len(inbox)
          /\ DOMAIN inbox' = 1..(Len(inbox) + 1)
          /\ \A i \in DOMAIN inbox : inbox'[i] = inbox[i]
          /\ inbox'[Len(inbox) + 1] = m
      BY <1>m, <2>2, <2>4
    <3> SUFFICES ASSUME NEW i \in DOMAIN inbox', NEW j \in DOMAIN inbox',
                        i < j, inbox'[i].rule = inbox'[j].rule
                 PROVE  inbox'[i].at + Cooldown < inbox'[j].at
      BY DEF CooldownRespected
    <3>2. i \in DOMAIN inbox
      BY <3>1
    <3>3. CASE j \in DOMAIN inbox
      BY <3>1, <3>2, <3>3 DEF Cool, CooldownRespected
    <3>4. CASE j = Len(inbox) + 1
      BY <1>7, <2>2, <3>1, <3>2, <3>4 DEF Rested
    <3> QED
      BY <3>1, <3>3, <3>4
  <2> QED
    BY <2>1, <2>3, <2>4
<1> QED
  BY <1>2, <1>5, <1>6, <1>8 DEF Cool

LEMMA CoolCommit ==
  ASSUME TypeOK, TypeOK', Cool, NEW w \in Workers, Commit(w)
  PROVE  Cool'
<1>1. /\ rows'[w] = {} /\ pc'[w] = "sleep"
      /\ \A v \in Workers \ {w} :
           rows'[v] = rows[v] /\ pc'[v] = pc[v] /\ mem'[v] = mem[v]
      /\ UNCHANGED <<inbox, now>>
  BY DEF Commit, EndCycle, Idle, TypeOK
<1>2. AllPlain'
  BY <1>1 DEF Commit, Visible, Cool, AllPlain, Plain
<1>3. \A v \in Workers : Chosen(v)' => Chosen(v) /\ mem'[v].cands = mem[v].cands
  BY <1>1 DEF Chosen
<1>4. now <= now'
  BY <1>1 DEF TypeOK
<1> QED
  BY <1>1, <1>2, <1>3, <1>4, CoolFrame

LEMMA CoolEnvironment ==
  ASSUME TypeOK, TypeOK', Once, Cool,
         \/ \E r \in Rules : DeleteRule(r) \/ \E x \in Exprs : EditRule(r, x)
         \/ Tick \/ Horizon \/ UNCHANGED vars
  PROVE  Cool'
<1>1. /\ UNCHANGED <<inbox, rows, pc, mem>>
      /\ now <= now'
  BY DEF DeleteRule, EditRule, Tick, Horizon, vars, db, worker, TypeOK
<1>2. \A f \in events' : Plain(f)
  <2>1. ASSUME NEW r \in Rules, DeleteRule(r), NEW f \in events' PROVE Plain(f)
    <3>1. PICK e \in events : f = IF e.rule = r THEN [e EXCEPT !.rule = NoRule] ELSE e
      BY <2>1 DEF DeleteRule
    <3>2. e \in EventRow /\ Plain(e)
      BY DEF TypeOK, Cool, AllPlain
    <3>3. f.supp = e.supp /\ f.status = e.status /\ f.sentAt = e.sentAt
      BY <3>1, <3>2 DEF EventRow
    <3> QED
      BY <3>2, <3>3 DEF Plain
  <2>2. CASE events' = events
    BY <2>2 DEF Cool, AllPlain
  <2> QED
    BY <2>1, <2>2 DEF EditRule, Tick, Horizon, vars, db
<1>3. AllPlain'
  BY <1>1, <1>2 DEF Cool, AllPlain, Plain
<1> QED
  BY <1>1, <1>3, CoolFrame DEF Chosen

LEMMA CoolStep ==
  ASSUME Faultless, NEW w, Workers = {w}, TypeOK, TypeOK', TransactionsAgree,
         Once, Cool, [Next]_vars
  PROVE  Cool'
<1>1. CASE Step(w)
  <2>1. ~ReclaimConflicts(w)
    BY NoConflict DEF Once
  <2> QED
    BY <1>1, <2>1, CoolClaim, CoolPass, CoolDecide, CoolInsert, CoolReclaim, CoolSend,
      CoolCommit DEF Step
<1>2. ~Abort(w) /\ ~Crash(w)
  BY DEF Abort, Crash, Faultless, TypeOK
<1> QED
  BY <1>1, <1>2, CoolEnvironment DEF Next

\* With one worker, the cooldown that should_suppress checks before the row is
\* claimed holds between any two messages of a rule.
THEOREM CooldownRespectedCorrect ==
  ASSUME Faultless, NEW w, Workers = {w}
  PROVE  Spec => []CooldownRespected
<1>1. Init => Once /\ Cool
  BY OnceInit, CoolInit
<1>2. TypeOK /\ TransactionsAgree /\ Once /\ [Next]_vars => Once'
  BY OnceStep
<1>3. TypeOK /\ TypeOK' /\ TransactionsAgree /\ Once /\ Cool /\ [Next]_vars => Cool'
  BY CoolStep
<1>4. Cool => CooldownRespected
  BY DEF Cool
<1> QED
  BY <1>1, <1>2, <1>3, <1>4, TypeCorrect, TransactionsAgreeCorrect, PTL DEF Spec
=============================================================================
