--------------------- MODULE NotificationDeliveryProofs ---------------------
(***************************************************************************)
(* What holds of NotificationDelivery for any workers, rules, expressions, *)
(* timing and number of faults.  The last two theorems have a hypothesis   *)
(* each: finitely many workers, no old row of a once: rule.                *)
(***************************************************************************)
EXTENDS NotificationDelivery, FiniteSetTheorems, TLAPS

-----------------------------------------------------------------------------
(* Type correctness.                                                       *)

\* The window of an instant is a natural number.
LEMMA WindowType ==
  ASSUME NEW t \in Nat
  PROVE  WindowOf(t) \in Nat
BY ParamAssumption DEF WindowOf

LEMMA NoMemType == NoMem \in Mem
BY ParamAssumption DEF NoMem, Mem, NoTime

\* Closing a session keeps the types of a worker's state.
LEMMA IdleType ==
  ASSUME TypeOK, NEW w \in Workers, NEW wake \in Nat, Idle(w, wake)
  PROVE  /\ pc' \in [Workers -> Pc]
         /\ wakeAt' \in [Workers -> Nat]
         /\ mem' \in [Workers -> Mem]
         /\ rows' \in [Workers -> SUBSET EventRow]
         /\ off' \in [Workers -> SUBSET Rules]
BY NoMemType DEF TypeOK, Idle, Pc

LEMMA EndCycleType ==
  ASSUME TypeOK, NEW w \in Workers, EndCycle(w)
  PROVE  /\ pc' \in [Workers -> Pc]
         /\ wakeAt' \in [Workers -> Nat]
         /\ mem' \in [Workers -> Mem]
         /\ rows' \in [Workers -> SUBSET EventRow]
         /\ off' \in [Workers -> SUBSET Rules]
<1>1. now + Interval \in Nat
  BY ParamAssumption DEF TypeOK
<1> QED
  BY <1>1, IdleType DEF EndCycle

\* Going on to the next candidate keeps the types of the local variables.
LEMMA DropType ==
  ASSUME NEW m \in Mem, NEW c
  PROVE  DropCandidate(m, c) \in Mem
BY DEF DropCandidate, Mem

LEMMA FinishType ==
  ASSUME TypeOK, NEW w \in Workers, NEW c \in Candidate, Finish(w, c)
  PROVE  /\ pc' \in [Workers -> Pc]
         /\ mem' \in [Workers -> Mem]
<1>1. CASE Continue(w, "disable")
  BY <1>1 DEF Continue, TypeOK, Pc, DeliveryPc
<1>2. CASE /\ pc'  = [pc EXCEPT ![w] = "pick"]
           /\ mem' = [mem EXCEPT ![w] = DropCandidate(@, c)]
  <2>1. mem[w] \in Mem
    BY DEF TypeOK
  <2>2. DropCandidate(mem[w], c) \in Mem
    BY <2>1, DropType
  <2> QED
    BY <1>2, <2>2 DEF TypeOK, Pc, DeliveryPc
<1> QED
  BY <1>1, <1>2 DEF Finish

\* Every row written by a worker is an event row.
LEMMA MarkType ==
  ASSUME TypeOK, NEW e \in EventRow
  PROVE  Suppressed(e) \in EventRow /\ Sent(e) \in EventRow
<1>1. "suppressed" \in Status /\ "sent" \in Status
  BY DEF Status, ActiveStatus
<1>2. Suppressed(e) \in EventRow
  BY <1>1 DEF Suppressed, EventRow
<1>3. Sent(e) \in EventRow
  <2>1. now \in Nat
    BY DEF TypeOK
  <2> QED
    BY <1>1, <2>1 DEF Sent, EventRow
<1> QED
  BY <1>2, <1>3

LEMMA HoldType ==
  ASSUME TypeOK, NEW w \in Workers, NEW c \in Candidate, NEW e \in EventRow,
         Hold(w, c, e)
  PROVE  /\ pc' \in [Workers -> Pc]
         /\ mem' \in [Workers -> Mem]
         /\ rows' \in [Workers -> SUBSET EventRow]
<1>1. CASE /\ rows' = [rows EXCEPT ![w] = @ \union {Suppressed(e)}]
           /\ Finish(w, c)
  BY <1>1, MarkType, FinishType DEF TypeOK
<1>2. CASE /\ rows' = [rows EXCEPT ![w] = @ \union {e}]
           /\ pc'   = [pc EXCEPT ![w] = "send"]
           /\ mem'  = [mem EXCEPT ![w].hold = e.id]
  <2>1. e.id \in Nat /\ mem[w] \in Mem
    BY DEF EventRow, TypeOK
  <2>2. [mem[w] EXCEPT !.hold = e.id] \in Mem
    BY <2>1 DEF Mem
  <2>3. mem' \in [Workers -> Mem]
    BY <1>2, <2>2 DEF TypeOK
  <2> QED
    BY <1>2, <2>3 DEF TypeOK, Pc, DeliveryPc
<1> QED
  BY <1>1, <1>2 DEF Hold

LEMMA TypeInit == Init => TypeOK
<1> SUFFICES ASSUME Init PROVE TypeOK
  OBVIOUS
<1>1. events \subseteq EventRow
  <2>1. ASSUME NEW r \in Legacy
        PROVE  [id |-> r, rule |-> r, expr |-> FirstExpr[r], win |-> WindowOf(1),
                run |-> NoRun, status |-> "pending", supp |-> FALSE,
                sentAt |-> NoTime, created |-> 0, claimed |-> 0] \in EventRow
    BY WindowType, ParamAssumption
    DEF EventRow, Status, ActiveStatus, NoRun, NoTime
  <2> QED
    BY <2>1 DEF Init
<1>2. mem \in [Workers -> Mem]
  BY NoMemType DEF Init
<1>3. /\ runs \in [Rules -> Seq(Nat)]
      /\ inbox \in Seq(Message)
  BY DEF Init
<1> QED
  BY <1>1, <1>2, <1>3, ParamAssumption DEF Init, TypeOK, Pc

\* One lemma for the claim and the evaluation, one for the delivery.
LEMMA TypeClaim ==
  ASSUME TypeOK, NEW w \in Workers,
         \/ LockBusy(w) \/ ListRules(w) \/ ReleaseLock(w)
         \/ \E r \in FirstRule(mem[w].todo) : CheckDue(w, r) \/ ClaimRaises(w, r)
  PROVE  TypeOK'
<1>m. mem[w] \in Mem
  BY DEF TypeOK
<1>1. CASE LockBusy(w)
  BY <1>1, EndCycleType DEF LockBusy, TypeOK, db, bounds
<1>2. CASE ListRules(w)
  <2>1. mem' \in [Workers -> Mem]
    BY <1>2, <1>m DEF ListRules, TypeOK, Mem
  <2> QED
    BY <1>2, <2>1 DEF ListRules, TypeOK, db, bounds, Pc
<1>3. CASE ReleaseLock(w)
  <2>1. CASE mem[w].due = {}
    BY <1>3, <2>1, EndCycleType DEF ReleaseLock, TypeOK, db, bounds
  <2>2. CASE mem[w].due # {}
    <3> DEFINE m == [mem[w] EXCEPT !.todo = mem[w].due, !.due = {}]
    <3>2. m \in Mem
      BY <1>m DEF Mem
    <3>3. mem' = [mem EXCEPT ![w] = m]
      BY <1>3, <2>2 DEF ReleaseLock
    <3>1. mem' \in [Workers -> Mem]
      BY <3>2, <3>3 DEF TypeOK
    <3> QED
      BY <1>3, <2>2, <3>1 DEF ReleaseLock, TypeOK, db, bounds, Pc
  <2> QED
    BY <2>1, <2>2
<1>4. ASSUME NEW r \in FirstRule(mem[w].todo), CheckDue(w, r)
      PROVE  TypeOK'
  <2>1. r \in Rules
    BY <1>m DEF FirstRule, Mem
  <2>2. mem' \in [Workers -> Mem]
    BY <1>4, <1>m, <2>1 DEF CheckDue, TypeOK, Mem
  <2> QED
    BY <1>4, <2>2 DEF CheckDue, TypeOK, db, bounds
<1>5. ASSUME NEW r \in FirstRule(mem[w].todo), ClaimRaises(w, r)
      PROVE  TypeOK'
  BY <1>5, EndCycleType DEF ClaimRaises, TypeOK, db, bounds
<1> QED
  BY <1>1, <1>2, <1>3, <1>4, <1>5

LEMMA TypeEvaluate ==
  ASSUME TypeOK, NEW w \in Workers, NEW r \in FirstRule(mem[w].todo),
         Evaluate(w, r)
  PROVE  TypeOK'
<1>1. mem[w] \in Mem /\ r \in Rules
  BY DEF TypeOK, FirstRule, Mem
<1>2. pc' \in [Workers -> Pc]
  BY DEF Evaluate, TypeOK, Pc, DeliveryPc
<1>3. ASSUME NEW holds \in BOOLEAN, Evaluated(w, r, holds)
      PROVE  mem' \in [Workers -> Mem] /\ runs' \in [Rules -> Seq(Nat)]
  <2> DEFINE c == [rule |-> r, expr |-> mem[w].snap[r], win |-> WindowOf(now),
                   run |-> Len(runs[r]) + 1]
  <2>1. c \in Candidate
    <3>1. runs[r] \in Seq(Nat)
      BY <1>1 DEF TypeOK
    <3>2. Len(runs[r]) + 1 \in Nat
      BY <3>1
    <3>3. mem[w].snap[r] \in Exprs
      BY <1>1 DEF Mem
    <3>4. WindowOf(now) \in Nat
      BY WindowType DEF TypeOK
    <3> QED
      BY <1>1, <3>2, <3>3, <3>4 DEF Candidate
  <2>2. runs' = [runs EXCEPT ![r] = Append(@, now)]
    BY <1>3 DEF Evaluated
  <2>3. mem' = [mem EXCEPT ![w].todo  = @ \ {r},
                           ![w].cands = IF holds THEN @ \union {c} ELSE @]
    BY <1>3 DEF Evaluated
  <2>4. runs' \in [Rules -> Seq(Nat)]
    BY <1>1, <2>2 DEF TypeOK
  <2>5. mem' \in [Workers -> Mem]
    <3> HIDE DEF c
    <3> QED
      BY <1>1, <2>1, <2>3 DEF TypeOK, Mem
  <2> QED
    BY <2>4, <2>5
<1>4. ASSUME EvaluationFails(w, r)
      PROVE  mem' \in [Workers -> Mem] /\ runs' \in [Rules -> Seq(Nat)]
  BY <1>1, <1>4 DEF EvaluationFails, TypeOK, Mem
<1>5. mem' \in [Workers -> Mem] /\ runs' \in [Rules -> Seq(Nat)]
  BY <1>3, <1>4 DEF Evaluate
<1> QED
  BY <1>2, <1>5 DEF Evaluate, TypeOK, bounds

LEMMA TypeDeliver ==
  ASSUME TypeOK, NEW w \in Workers, NEW c \in FirstCandidate(mem[w].cands),
         \/ SkipTwin(w, c) \/ Decide(w, c) \/ Look(w, c) \/ Reclaim(w, c)
         \/ Insert(w, c) \/ Send(w, c) \/ Disable(w, c)
  PROVE  TypeOK'
<1>m. mem[w] \in Mem /\ c \in Candidate
  BY DEF TypeOK, FirstCandidate, Mem
<1>1. CASE SkipTwin(w, c)
  BY <1>1, <1>m, FinishType DEF SkipTwin, TypeOK, db, bounds
<1>2. CASE Decide(w, c)
  <2>1. ScheduledKey(c) \in Rules \X Exprs
    BY <1>m, ParamAssumption DEF ScheduledKey, Candidate
  <2>2. ShouldSuppress(w, c) \in BOOLEAN
    BY DEF ShouldSuppress
  <2> DEFINE seen == IF Scheduled(c) THEN mem[w].seen \union {ScheduledKey(c)}
                                     ELSE mem[w].seen
             m == [mem[w] EXCEPT !.seen = seen, !.sup = ShouldSuppress(w, c)]
  <2>3. m \in Mem
    <3>1. seen \in SUBSET (Rules \X Exprs)
      BY <1>m, <2>1 DEF Mem
    <3> HIDE DEF seen
    <3> QED
      BY <1>m, <2>2, <3>1 DEF Mem
  <2>4. mem' = [mem EXCEPT ![w] = m]
    BY <1>2 DEF Decide
  <2>5. mem' \in [Workers -> Mem]
    BY <2>3, <2>4 DEF TypeOK
  <2> QED
    BY <1>2, <2>5 DEF Decide, TypeOK, db, bounds, Pc, DeliveryPc
<1>3. CASE Look(w, c)
  <2>1. /\ pc' \in [Workers -> Pc]
        /\ mem' \in [Workers -> Mem]
    <3>1. CASE Continue(w, "insert")
      BY <3>1 DEF Continue, TypeOK, Pc, DeliveryPc
    <3>2. CASE Finish(w, c)
      BY <3>2, <1>m, FinishType
    <3>3. ASSUME NEW e \in Visible(w),
                 pc'  = [pc EXCEPT ![w] = "reclaim"],
                 mem' = [mem EXCEPT ![w].hold = e.id]
          PROVE  /\ pc' \in [Workers -> Pc]
                 /\ mem' \in [Workers -> Mem]
      <4>1. e.id \in Nat
        BY DEF Visible, TypeOK, EventRow
      <4>2. [mem[w] EXCEPT !.hold = e.id] \in Mem
        BY <1>m, <4>1 DEF Mem
      <4>3. mem' \in [Workers -> Mem]
        BY <3>3, <4>2 DEF TypeOK
      <4> QED
        BY <3>3, <4>3 DEF TypeOK, Pc, DeliveryPc
    <3> QED
      BY <1>3, <3>1, <3>2, <3>3 DEF Look
  <2> QED
    BY <1>3, <2>1 DEF Look, TypeOK, db, bounds
<1>4. CASE Reclaim(w, c)
  <2>1. PICK e \in events :
          Hold(w, c, [e EXCEPT !.status = "sending", !.claimed = now])
    BY <1>4 DEF Reclaim
  <2>2. [e EXCEPT !.status = "sending", !.claimed = now] \in EventRow
    <3>1. e \in EventRow /\ now \in Nat
      BY DEF TypeOK
    <3> QED
      BY <3>1 DEF EventRow, Status, ActiveStatus
  <2> QED
    BY <1>4, <1>m, <2>1, <2>2, HoldType DEF Reclaim, TypeOK, db, bounds
<1>5. CASE Insert(w, c)
  <2> DEFINE e == [id |-> nextId, rule |-> c.rule, expr |-> c.expr, win |-> c.win,
                   run |-> c.run, status |-> "sending", supp |-> FALSE,
                   sentAt |-> NoTime, created |-> now, claimed |-> now]
  <2>1. e \in EventRow
    BY <1>m DEF Candidate, EventRow, Status, ActiveStatus, TypeOK, NoTime
  <2>2. \/ Finish(w, c) /\ UNCHANGED rows
        \/ Hold(w, c, e)
    BY <1>5 DEF Insert
  <2>3. /\ pc' \in [Workers -> Pc]
        /\ mem' \in [Workers -> Mem]
        /\ rows' \in [Workers -> SUBSET EventRow]
    <3> HIDE DEF e
    <3> QED
      BY <1>m, <2>1, <2>2, FinishType, HoldType DEF TypeOK
  <2> QED
    BY <1>5, <2>3 DEF Insert, TypeOK, bounds
<1>6. CASE Send(w, c)
  <2>1. /\ pc' \in [Workers -> Pc]
        /\ mem' \in [Workers -> Mem]
    BY <1>6, <1>m, FinishType DEF Send
  <2>2. PICK e \in rows[w] : Delivered(w, c, e) \/ Refused(w, e)
    BY <1>6 DEF Send
  <2>3. e \in EventRow
    BY DEF TypeOK
  <2>4. /\ Replace(w, e, Sent(e)) \/ Replace(w, e, Suppressed(e))
        /\ lost' = lost \/ lost' = lost + 1
    BY <2>2 DEF Delivered, Refused
  <2>5. rows' \in [Workers -> SUBSET EventRow]
    <3>1. Sent(e) \in EventRow /\ Suppressed(e) \in EventRow
      BY <2>3, MarkType DEF TypeOK
    <3>2. rows[w] \in SUBSET EventRow /\ rows \in [Workers -> SUBSET EventRow]
      BY DEF TypeOK
    <3>3. ASSUME NEW g \in EventRow, Replace(w, e, g)
          PROVE  rows' \in [Workers -> SUBSET EventRow]
      BY <3>2, <3>3 DEF Replace
    <3> QED
      BY <2>4, <3>1, <3>3
  <2>6. inbox' \in Seq(Message)
    <3> DEFINE m == [rule |-> c.rule, expr |-> c.expr, win |-> c.win, at |-> now]
    <3>1. m \in Message
      BY <1>m DEF Candidate, Message, TypeOK
    <3>2. inbox' = Append(inbox, m) \/ inbox' = inbox
      BY <2>2 DEF Delivered, Refused
    <3>3. inbox \in Seq(Message)
      BY DEF TypeOK
    <3> HIDE DEF m
    <3> QED
      BY <3>1, <3>2, <3>3
  <2>7. lost' \in Nat
    BY <2>4 DEF TypeOK
  <2> QED
    BY <1>6, <2>1, <2>5, <2>6, <2>7 DEF Send, TypeOK, db
<1>7. CASE Disable(w, c)
  <2>1. DropCandidate(mem[w], c) \in Mem
    BY <1>m, DropType
  <2>2. mem' \in [Workers -> Mem]
    BY <1>7, <2>1 DEF Disable, TypeOK
  <2>3. off' \in [Workers -> SUBSET Rules]
    BY <1>7, <1>m DEF Disable, TypeOK, Candidate
  <2> QED
    BY <1>7, <2>2, <2>3 DEF Disable, TypeOK, db, bounds, Pc, DeliveryPc
<1> QED
  BY <1>1, <1>2, <1>3, <1>4, <1>5, <1>6, <1>7

\* The end of a cycle, faults, users and time.
LEMMA TypeOther ==
  ASSUME TypeOK, NEW w \in Workers,
         ReclaimConflicts(w) \/ Commit(w) \/ Abort(w) \/ Crash(w)
  PROVE  TypeOK'
<1>1. CASE ReclaimConflicts(w)
  BY <1>1, EndCycleType DEF ReclaimConflicts, TypeOK, db, bounds
<1>2. CASE Commit(w)
  <2>1. events' \subseteq EventRow
    BY <1>2 DEF Commit, Visible, TypeOK
  <2>2. enabled' \in [Rules -> BOOLEAN]
    BY <1>2 DEF Commit
  <2> QED
    BY <1>2, <2>1, <2>2, EndCycleType DEF Commit, TypeOK, bounds
<1>3. CASE Abort(w)
  BY <1>3, EndCycleType DEF Abort, TypeOK, db
<1>4. CASE Crash(w)
  BY <1>4, IdleType DEF Crash, TypeOK, db
<1> QED
  BY <1>1, <1>2, <1>3, <1>4

LEMMA TypeEnvironment ==
  ASSUME TypeOK,
         \/ \E r \in Rules : DeleteRule(r) \/ \E x \in Exprs : EditRule(r, x)
         \/ Tick \/ Horizon \/ UNCHANGED vars
  PROVE  TypeOK'
<1>1. ASSUME NEW r \in Rules, DeleteRule(r)
      PROVE  TypeOK'
  <2>1. ASSUME NEW e \in events
        PROVE  [e EXCEPT !.rule = NoRule] \in EventRow
    <3>1. e \in EventRow
      BY DEF TypeOK
    <3> QED
      BY <3>1 DEF EventRow
  <2>2. events' \subseteq EventRow
    BY <1>1, <2>1 DEF DeleteRule, TypeOK
  <2> QED
    BY <1>1, <2>2 DEF DeleteRule, TypeOK, worker, bounds
<1>2. ASSUME NEW r \in Rules, NEW x \in Exprs, EditRule(r, x)
      PROVE  TypeOK'
  BY <1>2 DEF EditRule, TypeOK, worker
<1>3. CASE Tick
  BY <1>3 DEF Tick, TypeOK, db, worker, bounds
<1>4. CASE Horizon \/ UNCHANGED vars
  BY <1>4 DEF Horizon, vars, TypeOK, db, worker, bounds
<1> QED
  BY <1>1, <1>2, <1>3, <1>4

LEMMA TypeStep == TypeOK /\ [Next]_vars => TypeOK'
<1> SUFFICES ASSUME TypeOK, [Next]_vars PROVE TypeOK'
  OBVIOUS
<1>1. ASSUME NEW w \in Workers, Step(w)
      PROVE  TypeOK'
  BY <1>1, TypeClaim, TypeEvaluate, TypeDeliver, TypeOther DEF Step
<1> QED
  BY <1>1, TypeOther, TypeEnvironment DEF Next

\* The variables keep their types: in particular every committed or pending row
\* has a status, a window and times the code can produce.
THEOREM TypeCorrect == Spec => []TypeOK
BY TypeInit, TypeStep, PTL DEF Spec

-----------------------------------------------------------------------------
(* The open transactions agree (TransactionsAgree is inductive).           *)

LEMMA AgreeInit == Init => TransactionsAgree
<1> SUFFICES ASSUME Init PROVE TransactionsAgree
  OBVIOUS
<1>1. \A w \in Workers : rows[w] = {} /\ pc[w] = "sleep"
  BY DEF Init
<1>2. \A e \in events : /\ e.id \in Legacy /\ e.rule = e.id
                        /\ e.run = NoRun
  BY DEF Init
<1>3. \A e, f \in events : e.id = f.id => e = f
  <2> DEFINE Row(r) ==
        [id |-> r, rule |-> r, expr |-> FirstExpr[r], win |-> WindowOf(1),
         run |-> NoRun, status |-> "pending", supp |-> FALSE,
         sentAt |-> NoTime, created |-> 0, claimed |-> 0]
  <2>1. \A e \in events : e = Row(e.id)
    <3>1. \A r : Row(r).id = r
      OBVIOUS
    <3>2. events = {Row(r) : r \in Legacy}
      BY DEF Init
    <3> HIDE DEF Row
    <3> QED
      BY <3>1, <3>2
  <2> HIDE DEF Row
  <2> QED
    BY <2>1
<1>4. IdsFresh
  BY <1>1, <1>2, ParamAssumption DEF IdsFresh, Init
<1>5. IdsUnique
  BY <1>1, <1>3 DEF IdsUnique
<1>6. RowsFinal /\ ReclaimForeign /\ KeysExclusive /\ KeysVisible
  BY <1>1 DEF RowsFinal, ReclaimForeign, KeysExclusive, KeysVisible
<1>7. ActiveKeyUnique
  BY <1>2, <1>3 DEF ActiveKeyUnique, SameKey
<1>8. SettledAtCommit
  BY <1>2 DEF SettledAtCommit
<1> QED
  BY <1>4, <1>5, <1>6, <1>7, <1>8 DEF TransactionsAgree

\* A step of w that writes no row and neither begins nor ends a send.
LEMMA AgreeFrame ==
  ASSUME TransactionsAgree, NEW w \in Workers,
         UNCHANGED <<rows, events, nextId>>,
         \A v \in Workers \ {w} : pc'[v] = pc[v] /\ mem'[v] = mem[v],
         pc[w] # "send", pc'[w] # "send",
         pc'[w] = "reclaim" => \A e \in rows[w] : e.id # mem'[w].hold
  PROVE  TransactionsAgree'
<1>1. IdsFresh' /\ IdsUnique'
  BY DEF TransactionsAgree, IdsFresh, IdsUnique
<1>2. RowsFinal'
  BY DEF TransactionsAgree, RowsFinal, Final
<1>3. ReclaimForeign'
  BY DEF TransactionsAgree, ReclaimForeign
<1>4. KeysExclusive'
  BY DEF TransactionsAgree, KeysExclusive, SameKey
<1>5. KeysVisible'
  BY DEF TransactionsAgree, KeysVisible, Visible, SameKey, Active
<1>6. ActiveKeyUnique' /\ SettledAtCommit'
  BY DEF TransactionsAgree, ActiveKeyUnique, SettledAtCommit, SameKey, Active
<1> QED
  BY <1>1, <1>2, <1>3, <1>4, <1>5, <1>6 DEF TransactionsAgree

\* A step of w that ends its transaction without committing it.
LEMMA AgreeRollback ==
  ASSUME TypeOK, TransactionsAgree, NEW w \in Workers, NEW wake, Idle(w, wake),
         UNCHANGED <<events, nextId>>
  PROVE  TransactionsAgree'
<1>1. /\ rows'[w] = {}
      /\ pc'[w] = "sleep"
      /\ \A v \in Workers \ {w} :
           rows'[v] = rows[v] /\ pc'[v] = pc[v] /\ mem'[v] = mem[v]
  BY DEF Idle, TypeOK
<1>2. IdsFresh' /\ IdsUnique'
  BY <1>1 DEF TransactionsAgree, IdsFresh, IdsUnique
<1>3. RowsFinal' /\ ReclaimForeign'
  BY <1>1 DEF TransactionsAgree, RowsFinal, ReclaimForeign, Final
<1>4. KeysExclusive'
  BY <1>1 DEF TransactionsAgree, KeysExclusive, SameKey
<1>5. KeysVisible'
  BY <1>1 DEF TransactionsAgree, KeysVisible, Visible, SameKey, Active
<1>6. ActiveKeyUnique' /\ SettledAtCommit'
  BY DEF TransactionsAgree, ActiveKeyUnique, SettledAtCommit, SameKey, Active
<1> QED
  BY <1>2, <1>3, <1>4, <1>5, <1>6 DEF TransactionsAgree

\* The commit: what w sees becomes what everybody sees.
LEMMA AgreeCommit ==
  ASSUME TypeOK, TransactionsAgree, NEW w \in Workers, Commit(w)
  PROVE  TransactionsAgree'
<1>1. /\ rows'[w] = {}
      /\ pc'[w] = "sleep"
      /\ \A v \in Workers \ {w} :
           rows'[v] = rows[v] /\ pc'[v] = pc[v] /\ mem'[v] = mem[v]
  BY DEF Commit, EndCycle, Idle, TypeOK
<1>2. /\ events' = Visible(w)
      /\ nextId' = nextId
      /\ pc[w] = "pick"
  BY DEF Commit
<1>3. IdsFresh' /\ IdsUnique'
  BY <1>1, <1>2 DEF TransactionsAgree, IdsFresh, IdsUnique, Visible
<1>4. RowsFinal' /\ ReclaimForeign'
  BY <1>1 DEF TransactionsAgree, RowsFinal, ReclaimForeign, Final
<1>5. KeysExclusive'
  BY <1>1 DEF TransactionsAgree, KeysExclusive, SameKey
<1>6. KeysVisible'
  <2> SUFFICES ASSUME NEW v \in Workers, NEW e \in rows'[v], NEW f \in Visible(v)',
                      Active(e), Active(f), SameKey(e, f)
               PROVE  e.id = f.id
    BY DEF KeysVisible, Active, SameKey
  <2>1. v # w /\ e \in rows[v]
    BY <1>1
  <2>2. f \in Visible(v) \/ f \in rows[w]
    BY <1>1, <1>2, <2>1 DEF Visible
  <2>3. f \notin rows[w]
    BY <2>1 DEF TransactionsAgree, KeysExclusive
  <2> QED
    BY <2>1, <2>2, <2>3 DEF TransactionsAgree, KeysVisible
<1>7. ActiveKeyUnique'
  <2> SUFFICES ASSUME NEW e \in Visible(w), NEW f \in Visible(w),
                      Active(e), Active(f), SameKey(e, f)
               PROVE  e = f
    BY <1>2 DEF ActiveKeyUnique, Active, SameKey
  <2>1. SameKey(f, e)
    BY DEF SameKey
  <2>2. CASE e \in rows[w] \/ f \in rows[w]
    BY <2>1, <2>2 DEF TransactionsAgree, KeysVisible, IdsUnique, Visible
  <2>3. CASE e \in events /\ f \in events
    BY <2>3 DEF TransactionsAgree, ActiveKeyUnique
  <2> QED
    BY <2>2, <2>3 DEF Visible
<1>8. SettledAtCommit'
  <2>1. \A e \in rows[w] : Final(e)
    BY <1>2 DEF TransactionsAgree, RowsFinal
  <2> QED
    BY <1>2, <2>1 DEF TransactionsAgree, SettledAtCommit, Visible, Active,
      ActiveStatus, Final
<1> QED
  BY <1>3, <1>4, <1>5, <1>6, <1>7, <1>8 DEF TransactionsAgree

\* A row e that nobody else holds or sees the key of becomes w's.
LEMMA AgreeHold ==
  ASSUME TypeOK, TransactionsAgree,
         NEW w \in Workers, NEW c, NEW e \in EventRow, Hold(w, c, e),
         pc[w] # "send", e.status = "sending",
         \A f \in rows[w] : f.id # e.id,
         UNCHANGED events, nextId' \in Nat, nextId <= nextId', e.id < nextId',
         KeyFree(w, e), ~Taken(w, e, e.id)
  PROVE  TransactionsAgree'
<1>1. PICK g \in {e, Suppressed(e)} :
        /\ rows' = [rows EXCEPT ![w] = @ \union {g}]
        /\ IF g = e
             THEN pc'[w] = "send" /\ mem'[w].hold = e.id
             ELSE Final(g) /\ ~Active(g) /\ pc'[w] \in {"pick", "disable"}
  <2>1. CASE /\ rows' = [rows EXCEPT ![w] = @ \union {Suppressed(e)}]
             /\ Finish(w, c)
    <3>1. Suppressed(e).status = "suppressed"
      BY DEF Suppressed, TypeOK
    <3>2. Suppressed(e) # e
      BY <3>1
    <3>3. pc'[w] \in {"pick", "disable"}
      BY <2>1 DEF Finish, Continue, TypeOK
    <3>4. Final(Suppressed(e)) /\ ~Active(Suppressed(e))
      BY <3>1 DEF Final, Active, ActiveStatus
    <3> QED
      BY <2>1, <3>2, <3>3, <3>4
  <2>2. CASE /\ rows' = [rows EXCEPT ![w] = @ \union {e}]
             /\ pc'   = [pc EXCEPT ![w] = "send"]
             /\ mem'  = [mem EXCEPT ![w].hold = e.id]
    BY <2>2 DEF TypeOK, Mem
  <2> QED
    BY <2>1, <2>2 DEF Hold
<1>2. /\ g.id = e.id /\ g.rule = e.rule /\ g.expr = e.expr /\ g.win = e.win
      /\ g = e \/ ~Active(g)
  BY <1>1 DEF Suppressed, EventRow
<1>3. /\ rows'[w] = rows[w] \union {g}
      /\ \A v \in Workers \ {w} :
           rows'[v] = rows[v] /\ pc'[v] = pc[v] /\ mem'[v] = mem[v]
  BY <1>1 DEF Hold, Finish, Continue, TypeOK
<1>4. IdsFresh'
  <2>1. \A f \in events : f.id < nextId'
    BY DEF TransactionsAgree, IdsFresh, TypeOK, EventRow
  <2>2. \A v \in Workers : \A f \in rows[v] : f.id < nextId'
    BY DEF TransactionsAgree, IdsFresh, TypeOK, EventRow
  <2> QED
    BY <1>2, <1>3, <2>1, <2>2 DEF IdsFresh
<1>5. IdsUnique'
  BY <1>2, <1>3 DEF TransactionsAgree, IdsUnique
<1>6. RowsFinal'
  <2> SUFFICES ASSUME NEW v \in Workers, NEW f \in rows'[v]
               PROVE  IF pc'[v] = "send" /\ f.id = mem'[v].hold
                        THEN f.status = "sending" ELSE Final(f)
    BY DEF RowsFinal, Final
  <2>1. CASE v # w
    BY <2>1, <1>3 DEF TransactionsAgree, RowsFinal
  <2>2. CASE v = w /\ f = g
    BY <2>2, <1>1, <1>2
  <2>3. CASE v = w /\ f \in rows[w]
    <3>1. Final(f) /\ f.id # e.id
      BY <2>3 DEF TransactionsAgree, RowsFinal
    <3> QED
      BY <2>3, <3>1, <1>1
  <2> QED
    BY <2>1, <2>2, <2>3, <1>3
<1>7. ReclaimForeign'
  BY <1>1, <1>3 DEF TransactionsAgree, ReclaimForeign
<1>8. KeysExclusive'
  BY <1>2, <1>3 DEF TransactionsAgree, KeysExclusive, SameKey, KeyFree
<1>9. KeysVisible'
  <2> SUFFICES ASSUME NEW v \in Workers, NEW x \in rows'[v], NEW f \in Visible(v)',
                      Active(x), Active(f), SameKey(x, f)
               PROVE  x.id = f.id
    BY DEF KeysVisible, Active, SameKey
  <2>1. CASE v # w
    <3>1. x \in rows[v] /\ f \in Visible(v)
      BY <2>1, <1>3 DEF Visible
    <3> QED
      BY <3>1 DEF TransactionsAgree, KeysVisible
  <2>2. CASE v = w
    <3>1. /\ x \in rows[w] \/ x = g
          /\ f \in Visible(w) \/ f = g
      BY <2>2, <1>3 DEF Visible
    <3>2. CASE x = g /\ f = g
      BY <3>2
    <3>3. CASE x = g /\ f \in Visible(w)
      BY <3>3, <1>2 DEF Taken, SameKey
    <3>4. CASE x \in rows[w] /\ f = g
      BY <3>4, <1>2 DEF Taken, SameKey, Visible
    <3>5. CASE x \in rows[w] /\ f \in Visible(w)
      BY <3>5 DEF TransactionsAgree, KeysVisible
    <3> QED
      BY <3>1, <3>2, <3>3, <3>4, <3>5
  <2> QED
    BY <2>1, <2>2
<1>10. ActiveKeyUnique' /\ SettledAtCommit'
  BY DEF TransactionsAgree, ActiveKeyUnique, SettledAtCommit, SameKey, Active
<1> QED
  BY <1>4, <1>5, <1>6, <1>7, <1>8, <1>9, <1>10 DEF TransactionsAgree

\* The result of a send makes the row final, under its id and its key.
LEMMA AgreeSend ==
  ASSUME TypeOK, TransactionsAgree, NEW w \in Workers, NEW c, Send(w, c)
  PROVE  TransactionsAgree'
<1>1. PICK e \in rows[w] :
        e.id = mem[w].hold /\ (Delivered(w, c, e) \/ Refused(w, e))
  BY DEF Send
<1>2. PICK g \in {Sent(e), Suppressed(e)} : Replace(w, e, g)
  BY <1>1 DEF Delivered, Refused
<1>3. /\ g.id = e.id /\ g.rule = e.rule /\ g.expr = e.expr /\ g.win = e.win
      /\ Final(g)
  <2>1. e \in EventRow
    BY DEF TypeOK
  <2> QED
    BY <1>2, <2>1 DEF Sent, Suppressed, Final, EventRow
<1>4. Active(e)
  BY <1>1 DEF TransactionsAgree, RowsFinal, Active, ActiveStatus, Send
<1>5. /\ rows'[w] = (rows[w] \ {e}) \union {g}
      /\ pc'[w] \in {"pick", "disable"}
      /\ \A v \in Workers \ {w} :
           rows'[v] = rows[v] /\ pc'[v] = pc[v] /\ mem'[v] = mem[v]
      /\ UNCHANGED <<events, nextId>>
  BY <1>2 DEF Replace, Send, Finish, Continue, TypeOK, db
<1>6. IdsFresh'
  BY <1>3, <1>5 DEF TransactionsAgree, IdsFresh
<1>7. IdsUnique'
  BY <1>3, <1>5 DEF TransactionsAgree, IdsUnique
<1>8. RowsFinal'
  <2> SUFFICES ASSUME NEW v \in Workers, NEW f \in rows'[v]
               PROVE  IF pc'[v] = "send" /\ f.id = mem'[v].hold
                        THEN f.status = "sending" ELSE Final(f)
    BY DEF RowsFinal, Final
  <2>1. CASE v # w
    BY <2>1, <1>5 DEF TransactionsAgree, RowsFinal
  <2>2. CASE v = w
    <3>1. ASSUME f \in rows[w], f # e
          PROVE  Final(f)
      BY <3>1, <1>1 DEF TransactionsAgree, RowsFinal, IdsUnique
    <3> QED
      BY <2>2, <3>1, <1>3, <1>5
  <2> QED
    BY <2>1, <2>2
<1>9. ReclaimForeign'
  BY <1>5 DEF TransactionsAgree, ReclaimForeign
<1>10. KeysExclusive'
  BY <1>3, <1>5 DEF TransactionsAgree, KeysExclusive, SameKey
<1>11. KeysVisible'
  <2> SUFFICES ASSUME NEW v \in Workers, NEW x \in rows'[v], NEW f \in Visible(v)',
                      Active(x), Active(f), SameKey(x, f)
               PROVE  x.id = f.id
    BY DEF KeysVisible, Active, SameKey
  <2>1. CASE v # w
    <3>1. x \in rows[v] /\ f \in Visible(v)
      BY <2>1, <1>5 DEF Visible
    <3> QED
      BY <3>1 DEF TransactionsAgree, KeysVisible
  <2>2. CASE v = w
    <3>1. PICK y \in rows[w] : Active(y) /\ SameKey(y, f) /\ y.id = x.id
      BY <2>2, <1>3, <1>4, <1>5 DEF SameKey
    <3>2. PICK h \in Visible(w) : Active(h) /\ SameKey(y, h) /\ h.id = f.id
      BY <2>2, <3>1, <1>3, <1>4, <1>5 DEF SameKey, Visible
    <3> QED
      BY <3>1, <3>2 DEF TransactionsAgree, KeysVisible
  <2> QED
    BY <2>1, <2>2
<1>12. ActiveKeyUnique' /\ SettledAtCommit'
  BY <1>5 DEF TransactionsAgree, ActiveKeyUnique, SettledAtCommit, SameKey, Active
<1> QED
  BY <1>6, <1>7, <1>8, <1>9, <1>10, <1>11, <1>12 DEF TransactionsAgree

\* The rows of a deleted rule lose it: their keys equal no key any more.
LEMMA AgreeDelete ==
  ASSUME TypeOK, TransactionsAgree, NEW r \in Rules, DeleteRule(r)
  PROVE  TransactionsAgree'
<1> DEFINE Cut(e) == IF e.rule = r THEN [e EXCEPT !.rule = NoRule] ELSE e
<1>1. ASSUME NEW e \in events
      PROVE  /\ Cut(e).id = e.id /\ Cut(e).expr = e.expr /\ Cut(e).win = e.win
             /\ Cut(e).status = e.status /\ Cut(e).run = e.run
             /\ Cut(e).rule = e.rule \/ Cut(e).rule = NoRule
  <2>1. e \in EventRow
    BY DEF TypeOK
  <2> QED
    BY <2>1 DEF EventRow
<1>2. events' = {Cut(e) : e \in events}
  BY DEF DeleteRule
<1>3. UNCHANGED <<nextId, pc, mem, rows>>
  BY DEF DeleteRule, worker
<1> HIDE DEF Cut
<1>4. IdsFresh' /\ IdsUnique'
  BY <1>1, <1>2, <1>3 DEF TransactionsAgree, IdsFresh, IdsUnique
<1>5. RowsFinal' /\ ReclaimForeign'
  BY <1>3 DEF TransactionsAgree, RowsFinal, ReclaimForeign, Final
<1>6. KeysExclusive'
  BY <1>3 DEF TransactionsAgree, KeysExclusive, SameKey
<1>7. KeysVisible'
  <2> SUFFICES ASSUME NEW w \in Workers, NEW e \in rows[w], NEW f \in Visible(w)',
                      Active(e), Active(f), SameKey(e, f)
               PROVE  e.id = f.id
    BY <1>3 DEF KeysVisible, Active, SameKey
  <2>1. PICK g \in Visible(w) : Active(g) /\ SameKey(e, g) /\ g.id = f.id
    BY <1>1, <1>2, <1>3 DEF Visible, SameKey, Active
  <2> QED
    BY <2>1 DEF TransactionsAgree, KeysVisible
<1>8. ActiveKeyUnique'
  <2> SUFFICES ASSUME NEW e \in events, NEW f \in events,
                      Active(Cut(e)), Active(Cut(f)), SameKey(Cut(e), Cut(f))
               PROVE  e = f
    BY <1>2 DEF ActiveKeyUnique, Active, SameKey
  <2>1. Active(e) /\ Active(f) /\ SameKey(e, f)
    BY <1>1 DEF Active, SameKey
  <2> QED
    BY <2>1 DEF TransactionsAgree, ActiveKeyUnique
<1>9. SettledAtCommit'
  BY <1>1, <1>2 DEF TransactionsAgree, SettledAtCommit, Active
<1> QED
  BY <1>4, <1>5, <1>6, <1>7, <1>8, <1>9 DEF TransactionsAgree

\* A rollback by an exception, a crash or a lost claim.
LEMMA AgreeEnd ==
  ASSUME TypeOK, TransactionsAgree, NEW w \in Workers,
         \/ LockBusy(w) \/ ReclaimConflicts(w) \/ Abort(w) \/ Crash(w)
         \/ \E r \in Rules : ClaimRaises(w, r)
  PROVE  TransactionsAgree'
<1>1. PICK wake : Idle(w, wake)
  BY DEF LockBusy, ReclaimConflicts, Abort, Crash, ClaimRaises, EndCycle
<1>2. UNCHANGED <<events, nextId>>
  BY DEF LockBusy, ReclaimConflicts, Abort, Crash, ClaimRaises, db
<1> QED
  BY <1>1, <1>2, AgreeRollback

\* The claim and the evaluation write no event rows.
LEMMA AgreeClaim ==
  ASSUME TypeOK, TransactionsAgree, NEW w \in Workers,
         \/ ListRules(w) \/ ReleaseLock(w)
         \/ \E r \in Rules : CheckDue(w, r) \/ Evaluate(w, r)
  PROVE  TransactionsAgree'
<1>1. CASE ReleaseLock(w) /\ mem[w].due = {}
  BY <1>1, AgreeRollback DEF ReleaseLock, EndCycle, db
<1>2. CASE ListRules(w)
  BY <1>2, AgreeFrame DEF ListRules, TypeOK, db
<1>3. CASE ReleaseLock(w) /\ mem[w].due # {}
  BY <1>3, AgreeFrame DEF ReleaseLock, TypeOK, db
<1>4. ASSUME NEW r \in Rules, CheckDue(w, r)
      PROVE  TransactionsAgree'
  BY <1>4, AgreeFrame DEF CheckDue, TypeOK, db
<1>5. ASSUME NEW r \in Rules, Evaluate(w, r)
      PROVE  TransactionsAgree'
  BY <1>5, AgreeFrame DEF Evaluate, Evaluated, EvaluationFails, TypeOK
<1> QED
  BY <1>1, <1>2, <1>3, <1>4, <1>5

\* Before a row is held: the candidate is dropped, looked up or passed on.
LEMMA AgreeFinish ==
  ASSUME TypeOK, TransactionsAgree, NEW w \in Workers, NEW c, Finish(w, c),
         pc[w] # "send", UNCHANGED <<rows, events>>, nextId' \in Nat,
         nextId <= nextId'
  PROVE  TransactionsAgree'
<1>1. /\ pc'[w] \in {"pick", "disable"}
      /\ \A v \in Workers \ {w} : pc'[v] = pc[v] /\ mem'[v] = mem[v]
  BY DEF Finish, Continue, TypeOK
<1>2. IdsFresh'
  BY DEF TransactionsAgree, IdsFresh, TypeOK, EventRow
<1>3. IdsUnique'
  BY DEF TransactionsAgree, IdsUnique
<1>4. RowsFinal' /\ ReclaimForeign'
  BY <1>1 DEF TransactionsAgree, RowsFinal, ReclaimForeign, Final
<1>5. KeysExclusive' /\ KeysVisible'
  BY DEF TransactionsAgree, KeysExclusive, KeysVisible, Visible, SameKey, Active
<1>6. ActiveKeyUnique' /\ SettledAtCommit'
  BY DEF TransactionsAgree, ActiveKeyUnique, SettledAtCommit, SameKey, Active
<1> QED
  BY <1>2, <1>3, <1>4, <1>5, <1>6 DEF TransactionsAgree

LEMMA AgreeDeliver ==
  ASSUME TypeOK, TransactionsAgree,
         NEW w \in Workers, NEW c \in FirstCandidate(mem[w].cands),
         \/ SkipTwin(w, c) \/ Decide(w, c) \/ Look(w, c) \/ Reclaim(w, c)
         \/ Insert(w, c) \/ Disable(w, c)
  PROVE  TransactionsAgree'
<1>m. c \in Candidate /\ nextId \in Nat
  BY DEF TypeOK, FirstCandidate, Mem
<1>1. CASE SkipTwin(w, c)
  BY <1>1, <1>m, AgreeFinish DEF SkipTwin, db
<1>2. CASE Decide(w, c)
  BY <1>2, AgreeFrame DEF Decide, TypeOK, db
<1>3. CASE Look(w, c)
  <2> DEFINE found == {e \in Visible(w) : Active(e) /\ SameKey(e, c)}
  <2>1. pc[w] = "look" /\ UNCHANGED <<rows, events, nextId>>
    BY <1>3 DEF Look, db
  <2>2. CASE Continue(w, "insert")
    BY <2>1, <2>2, AgreeFrame DEF Continue, TypeOK
  <2>3. CASE Finish(w, c)
    BY <1>m, <2>1, <2>3, AgreeFinish
  <2>4. ASSUME NEW e \in found, ~Settled(e),
               pc'  = [pc EXCEPT ![w] = "reclaim"],
               mem' = [mem EXCEPT ![w].hold = e.id]
        PROVE  TransactionsAgree'
    <3>1. ~Final(e)
      BY <2>4 DEF Settled, Final, Active, ActiveStatus
    <3>2. e \notin rows[w]
      BY <2>1, <3>1 DEF TransactionsAgree, RowsFinal
    <3>3. \A f \in rows[w] : f.id # e.id
      BY <3>2 DEF Visible
    <3>4. /\ pc'[w] = "reclaim"
          /\ mem'[w].hold = e.id
          /\ \A v \in Workers \ {w} : pc'[v] = pc[v] /\ mem'[v] = mem[v]
      BY <2>4 DEF TypeOK, Mem
    <3> QED
      BY <2>1, <3>3, <3>4, AgreeFrame
  <2> QED
    BY <1>3, <2>2, <2>3, <2>4 DEF Look
<1>4. CASE Reclaim(w, c)
  <2> DEFINE Claimed(e) == [e EXCEPT !.status = "sending", !.claimed = now]
  <2>1. PICK e \in events : /\ e.id = mem[w].hold
                            /\ KeyFree(w, e)
                            /\ ~Taken(w, e, e.id)
                            /\ Hold(w, c, Claimed(e))
    BY <1>4 DEF Reclaim
  <2>2. e \in EventRow /\ now \in Nat
    BY DEF TypeOK
  <2>3. /\ Claimed(e) \in EventRow
        /\ Claimed(e).id = e.id /\ Claimed(e).rule = e.rule
        /\ Claimed(e).expr = e.expr /\ Claimed(e).win = e.win
        /\ Claimed(e).status = "sending"
    BY <2>2 DEF EventRow, Status, ActiveStatus
  <2> HIDE DEF Claimed
  <2>4. KeyFree(w, Claimed(e)) /\ ~Taken(w, Claimed(e), Claimed(e).id)
    BY <2>1, <2>3 DEF KeyFree, Taken, SameKey
  <2>5. \A f \in rows[w] : f.id # Claimed(e).id
    BY <1>4, <2>1, <2>3 DEF TransactionsAgree, ReclaimForeign, Reclaim
  <2>6. Claimed(e).id < nextId
    BY <2>3 DEF TransactionsAgree, IdsFresh
  <2>7. pc[w] # "send" /\ UNCHANGED <<events, nextId>>
    BY <1>4 DEF Reclaim, db
  <2> QED
    BY <1>m, <2>1, <2>3, <2>4, <2>5, <2>6, <2>7, AgreeHold
<1>5. CASE Insert(w, c)
  <2> DEFINE e == [id |-> nextId, rule |-> c.rule, expr |-> c.expr, win |-> c.win,
                   run |-> c.run, status |-> "sending", supp |-> FALSE,
                   sentAt |-> NoTime, created |-> now, claimed |-> now]
  <2>1. /\ pc[w] = "insert" /\ KeyFree(w, c)
        /\ nextId' = nextId + 1 /\ UNCHANGED events
        /\ \/ Finish(w, c) /\ UNCHANGED rows
           \/ ~Taken(w, c, nextId) /\ Hold(w, c, e)
    BY <1>5 DEF Insert
  <2>2. e \in EventRow
    BY <1>m DEF Candidate, EventRow, Status, ActiveStatus, TypeOK, NoTime
  <2>3. /\ e.id = nextId /\ e.rule = c.rule /\ e.expr = c.expr /\ e.win = c.win
        /\ e.status = "sending"
    OBVIOUS
  <2> HIDE DEF e
  <2>4. CASE Finish(w, c) /\ UNCHANGED rows
    BY <1>m, <2>1, <2>4, AgreeFinish
  <2>5. CASE ~Taken(w, c, nextId) /\ Hold(w, c, e)
    <3>1. KeyFree(w, e) /\ ~Taken(w, e, e.id)
      BY <2>1, <2>3, <2>5 DEF KeyFree, Taken, SameKey
    <3>2. \A f \in rows[w] : f.id # e.id
      BY <1>m, <2>3 DEF TransactionsAgree, IdsFresh, TypeOK, EventRow
    <3>3. nextId' \in Nat /\ nextId <= nextId' /\ e.id < nextId'
      BY <1>m, <2>1, <2>3
    <3> QED
      BY <2>1, <2>2, <2>3, <2>5, <3>1, <3>2, <3>3, AgreeHold
  <2> QED
    BY <2>1, <2>4, <2>5
<1>6. CASE Disable(w, c)
  BY <1>6, AgreeFrame DEF Disable, TypeOK, db
<1> QED
  BY <1>1, <1>2, <1>3, <1>4, <1>5, <1>6

LEMMA AgreeUnchanged ==
  ASSUME TransactionsAgree, UNCHANGED <<rows, events, nextId, pc, mem>>
  PROVE  TransactionsAgree'
<1>1. IdsFresh' /\ IdsUnique' /\ RowsFinal' /\ ReclaimForeign'
  BY DEF TransactionsAgree, IdsFresh, IdsUnique, RowsFinal, ReclaimForeign, Final
<1>2. KeysExclusive' /\ KeysVisible'
  BY DEF TransactionsAgree, KeysExclusive, KeysVisible, Visible, SameKey, Active
<1>3. ActiveKeyUnique' /\ SettledAtCommit'
  BY DEF TransactionsAgree, ActiveKeyUnique, SettledAtCommit, SameKey, Active
<1> QED
  BY <1>1, <1>2, <1>3 DEF TransactionsAgree

LEMMA AgreeStep ==
  TypeOK /\ TransactionsAgree /\ [Next]_vars => TransactionsAgree'
<1> SUFFICES ASSUME TypeOK, TransactionsAgree, [Next]_vars
             PROVE  TransactionsAgree'
  OBVIOUS
<1>1. ASSUME NEW w \in Workers, Step(w) \/ Abort(w) \/ Crash(w)
      PROVE  TransactionsAgree'
  <2>1. FirstRule(mem[w].todo) \subseteq Rules
    BY DEF FirstRule, TypeOK, Mem
  <2>2. ASSUME NEW r \in FirstRule(mem[w].todo),
               CheckDue(w, r) \/ ClaimRaises(w, r) \/ Evaluate(w, r)
        PROVE  TransactionsAgree'
    BY <2>1, <2>2, AgreeClaim, AgreeEnd
  <2>3. ASSUME NEW c \in FirstCandidate(mem[w].cands),
               \/ SkipTwin(w, c) \/ Decide(w, c) \/ Look(w, c) \/ Reclaim(w, c)
               \/ Insert(w, c) \/ Send(w, c) \/ Disable(w, c)
        PROVE  TransactionsAgree'
    BY <2>3, AgreeDeliver, AgreeSend
  <2> QED
    BY <1>1, <2>2, <2>3, AgreeClaim, AgreeEnd, AgreeCommit DEF Step
<1>2. ASSUME NEW r \in Rules, NEW x \in Exprs, EditRule(r, x)
      PROVE  TransactionsAgree'
  BY <1>2, AgreeUnchanged DEF EditRule, worker
<1>3. CASE Tick \/ Horizon \/ UNCHANGED vars
  BY <1>3, AgreeUnchanged DEF Tick, Horizon, vars, db, worker
<1> QED
  BY <1>1, <1>2, <1>3, AgreeDelete DEF Next

\* Transactions of any number of workers agree about rows, keys and ids,
\* whenever they commit, abort or die.
THEOREM TransactionsAgreeCorrect == Spec => []TransactionsAgree
BY TypeCorrect, AgreeInit, AgreeStep, PTL DEF Spec

\* There is never more than one committed pending, sending or sent row of a
\* rule, an expression and a window.
THEOREM ActiveKeyUniqueCorrect == Spec => []ActiveKeyUnique
<1>1. TransactionsAgree => ActiveKeyUnique
  BY DEF TransactionsAgree
<1> QED
  BY <1>1, TransactionsAgreeCorrect, PTL

\* No transaction leaves a row of its own in status 'sending' behind.
THEOREM SettledAtCommitCorrect == Spec => []SettledAtCommit
<1>1. TransactionsAgree => SettledAtCommit
  BY DEF TransactionsAgree
<1> QED
  BY <1>1, TransactionsAgreeCorrect, PTL
-----------------------------------------------------------------------------
(* Cron slots: every worker evaluates a slot of a rule at most once.       *)

SlotRuns(r, s) == {i \in DOMAIN runs[r] : SlotOf(runs[r][i]) = s}

\* The rules w will evaluate without looking at their runs again.
Claims(w) ==
  IF pc[w] = "claim" THEN mem[w].due
  ELSE IF pc[w] = "eval" THEN mem[w].todo ELSE {}

Claimants(r) == {w \in Workers : r \in Claims(w)}

ClaimPast(w) ==
  /\ pc[w] = "claim" => mem[w].asOf <= now
  /\ pc[w] = "sleep" => mem[w].due = {}

\* Each worker that may still evaluate r in the slot of this instant has not
\* done so yet: a claim after the slot's first run would have found that run.
SlotRoom(r) ==
  Cardinality(SlotRuns(r, SlotOf(now))) + Cardinality(Claimants(r))
    <= Cardinality(Workers)

SlotInv ==
  /\ \A r \in Rules : \A i \in DOMAIN runs[r] : runs[r][i] <= now
  /\ \A w \in Workers : ClaimPast(w)
  /\ \A r \in Rules : Kind[r] = "cron" =>
       /\ SlotRoom(r)
       /\ \A s \in Nat : Cardinality(SlotRuns(r, s)) <= Cardinality(Workers)

LEMMA SlotBefore ==
  ASSUME NEW t \in Nat
  PROVE  SlotOf(t) \in Nat /\ SlotOf(t) <= t
<1>1. CronPeriod \in Nat /\ CronPeriod > 0
  BY ParamAssumption
<1>2. t % CronPeriod \in 0 .. CronPeriod - 1 /\ t \div CronPeriod \in Nat
  BY <1>1
<1>3. t = CronPeriod * (t \div CronPeriod) + (t % CronPeriod)
  BY <1>1
<1>4. CronPeriod * (t \div CronPeriod) \in Nat
  BY <1>1, <1>2
<1> QED
  BY <1>2, <1>3, <1>4 DEF SlotOf

\* A later instant is in the same slot or a later one.
LEMMA SlotGrows ==
  ASSUME NEW t \in Nat, NEW u \in Nat, t <= u
  PROVE  SlotOf(t) <= SlotOf(u)
<1>1. CronPeriod \in Nat /\ CronPeriod > 0
  BY ParamAssumption
<1> DEFINE p == t \div CronPeriod
           q == u \div CronPeriod
<1>2. /\ p \in Nat /\ CronPeriod * p <= t /\ SlotOf(t) = CronPeriod * p
      /\ q \in Nat /\ u < CronPeriod * (q + 1) /\ SlotOf(u) = CronPeriod * q
  <2>1. /\ t = CronPeriod * p + (t % CronPeriod)
        /\ t % CronPeriod \in 0 .. CronPeriod - 1
        /\ u = CronPeriod * q + (u % CronPeriod)
        /\ u % CronPeriod \in 0 .. CronPeriod - 1
        /\ p \in Nat /\ q \in Nat
    BY <1>1
  <2>2. CronPeriod * p \in Nat /\ CronPeriod * q \in Nat
        /\ CronPeriod * (q + 1) = CronPeriod * q + CronPeriod
    BY <1>1, <2>1
  <2> HIDE DEF p, q
  <2> QED
    BY <1>1, <2>1, <2>2 DEF SlotOf
<1> HIDE DEF p, q
<1>3. p <= q
  <2> SUFFICES ASSUME p > q PROVE FALSE
    BY <1>2
  <2>1. PICK d \in Nat : p = q + 1 + d
    <3>1. p - q - 1 \in Nat /\ p = q + 1 + (p - q - 1)
      BY <1>2
    <3> QED
      BY <3>1
  <2>2. CronPeriod * p = CronPeriod * (q + 1) + CronPeriod * d
    BY <1>1, <1>2, <2>1
  <2>3. /\ CronPeriod * d \in Nat
        /\ CronPeriod * p \in Nat /\ CronPeriod * (q + 1) \in Nat
    BY <1>1, <1>2, <2>1
  <2> QED
    BY <1>1, <1>2, <2>2, <2>3
<1>4. PICK d \in Nat : q = p + d
  <2>1. q - p \in Nat /\ q = p + (q - p)
    BY <1>2, <1>3
  <2> QED
    BY <2>1
<1>5. CronPeriod * q = CronPeriod * p + CronPeriod * d
  BY <1>1, <1>2, <1>4
<1>6. CronPeriod * d \in Nat /\ CronPeriod * p \in Nat
  BY <1>1, <1>2, <1>4
<1> QED
  BY <1>2, <1>5, <1>6

LEMMA ClaimantsFinite ==
  ASSUME IsFiniteSet(Workers), NEW r
  PROVE  /\ Cardinality(Workers) \in Nat
         /\ IsFiniteSet(Claimants(r)) /\ Cardinality(Claimants(r)) \in Nat
         /\ Cardinality(Claimants(r)) <= Cardinality(Workers)
<1>1. Claimants(r) \in SUBSET Workers
  BY DEF Claimants
<1> QED
  BY <1>1, FS_Subset, FS_CardinalityType

LEMMA SlotRunsFinite ==
  ASSUME TypeOK, NEW r \in Rules, NEW s
  PROVE  /\ IsFiniteSet(SlotRuns(r, s))
         /\ Cardinality(SlotRuns(r, s)) \in Nat
<1>1. Len(runs[r]) \in Nat /\ DOMAIN runs[r] = 1 .. Len(runs[r])
  BY DEF TypeOK
<1>2. IsFiniteSet(1 .. Len(runs[r]))
  BY <1>1, FS_Interval
<1>3. SlotRuns(r, s) \in SUBSET (1 .. Len(runs[r]))
  BY <1>1 DEF SlotRuns
<1> QED
  BY <1>2, <1>3, FS_Subset, FS_CardinalityType

LEMMA SlotInit ==
  ASSUME IsFiniteSet(Workers), Init
  PROVE  SlotInv
<1>1. \A r \in Rules : DOMAIN runs[r] = {}
  BY DEF Init
<1>2. \A r \in Rules : \A s : SlotRuns(r, s) = {}
  BY <1>1 DEF SlotRuns
<1>3. \A w \in Workers : pc[w] = "sleep" /\ mem[w].due = {}
  BY DEF Init, NoMem
<1>4. \A r : Cardinality(Claimants(r)) \in Nat
             /\ Cardinality(Claimants(r)) <= Cardinality(Workers)
  BY ClaimantsFinite
<1>5. Cardinality(Workers) \in Nat /\ Cardinality({}) = 0
  BY ClaimantsFinite, FS_EmptySet
<1> QED
  BY <1>1, <1>2, <1>3, <1>4, <1>5 DEF SlotInv, SlotRoom, ClaimPast

\* A step that evaluates nothing and claims nothing.
LEMMA SlotFrame ==
  ASSUME TypeOK, IsFiniteSet(Workers), SlotInv, UNCHANGED <<now, runs>>,
         \A v \in Workers : Claims(v)' \subseteq Claims(v) /\ ClaimPast(v)'
  PROVE  SlotInv'
<1>1. ASSUME NEW r \in Rules, Kind[r] = "cron" PROVE SlotRoom(r)'
  <2>1. Claimants(r)' \in SUBSET Claimants(r)
    BY DEF Claimants
  <2>2. /\ Cardinality(Claimants(r)') <= Cardinality(Claimants(r))
        /\ Cardinality(Claimants(r)') \in Nat
    BY <2>1, ClaimantsFinite, FS_Subset, FS_CardinalityType
  <2>3. SlotRuns(r, SlotOf(now))' = SlotRuns(r, SlotOf(now))
    BY DEF SlotRuns
  <2>4. Cardinality(SlotRuns(r, SlotOf(now))) \in Nat
    BY SlotRunsFinite
  <2>5. /\ Cardinality(Workers) \in Nat
        /\ Cardinality(Claimants(r)) \in Nat
    BY ClaimantsFinite
  <2>6. Cardinality(SlotRuns(r, SlotOf(now))) + Cardinality(Claimants(r))
          <= Cardinality(Workers)
    BY <1>1 DEF SlotInv, SlotRoom
  <2> QED
    BY <2>2, <2>3, <2>4, <2>5, <2>6 DEF SlotRoom
<1>2. \A r \in Rules, s \in Nat : SlotRuns(r, s)' = SlotRuns(r, s)
  BY DEF SlotRuns
<1> QED
  BY <1>1, <1>2 DEF SlotInv

\* The same for a step of one worker.
LEMMA SlotWorker ==
  ASSUME TypeOK, IsFiniteSet(Workers), SlotInv, UNCHANGED <<now, runs>>,
         NEW w \in Workers,
         \A v \in Workers \ {w} : pc'[v] = pc[v] /\ mem'[v] = mem[v],
         Claims(w)' \subseteq Claims(w), ClaimPast(w)'
  PROVE  SlotInv'
<1>1. \A v \in Workers \ {w} : Claims(v)' = Claims(v) /\ ClaimPast(v)'
  BY DEF SlotInv, Claims, ClaimPast
<1> QED
  BY <1>1, SlotFrame

\* A cycle ends.
LEMMA SlotIdle ==
  ASSUME TypeOK, IsFiniteSet(Workers), SlotInv, UNCHANGED <<now, runs>>,
         NEW w \in Workers, NEW wake, Idle(w, wake)
  PROVE  SlotInv'
<1>1. /\ pc'[w] = "sleep" /\ mem'[w].due = {}
      /\ \A v \in Workers \ {w} : pc'[v] = pc[v] /\ mem'[v] = mem[v]
  BY DEF Idle, TypeOK, NoMem
<1>2. Claims(w)' \subseteq Claims(w) /\ ClaimPast(w)'
  BY <1>1 DEF Claims, ClaimPast
<1> QED
  BY <1>1, <1>2, SlotWorker

\* The delivery evaluates nothing.
LEMMA SlotDeliver ==
  ASSUME TypeOK, IsFiniteSet(Workers), SlotInv,
         NEW w \in Workers, NEW c \in FirstCandidate(mem[w].cands),
         \/ SkipTwin(w, c) \/ Decide(w, c) \/ Look(w, c) \/ Reclaim(w, c)
         \/ Insert(w, c) \/ Send(w, c) \/ Disable(w, c)
  PROVE  SlotInv'
<1>1. UNCHANGED <<now, runs>>
  BY DEF SkipTwin, Decide, Look, Reclaim, Insert, Send, Disable, db
<1>2. ASSUME Finish(w, c)
      PROVE  /\ pc'[w] \in DeliveryPc
             /\ \A v \in Workers \ {w} : pc'[v] = pc[v] /\ mem'[v] = mem[v]
  BY <1>2 DEF Finish, Continue, TypeOK, DeliveryPc
<1>3. ASSUME NEW e, Hold(w, c, e)
      PROVE  /\ pc'[w] \in DeliveryPc
             /\ \A v \in Workers \ {w} : pc'[v] = pc[v] /\ mem'[v] = mem[v]
  BY <1>2, <1>3 DEF Hold, TypeOK, DeliveryPc
<1>4. /\ pc'[w] \in DeliveryPc
      /\ \A v \in Workers \ {w} : pc'[v] = pc[v] /\ mem'[v] = mem[v]
  <2>1. CASE SkipTwin(w, c) \/ Send(w, c)
    BY <1>2, <2>1 DEF SkipTwin, Send
  <2>2. CASE Decide(w, c) \/ Disable(w, c)
    BY <2>2 DEF Decide, Disable, TypeOK, DeliveryPc
  <2>3. CASE Look(w, c)
    BY <1>2, <2>3 DEF Look, Continue, TypeOK, DeliveryPc
  <2>4. CASE Reclaim(w, c) \/ Insert(w, c)
    BY <1>2, <1>3, <2>4 DEF Reclaim, Insert
  <2> QED
    BY <2>1, <2>2, <2>3, <2>4
<1>5. Claims(w)' \subseteq Claims(w) /\ ClaimPast(w)'
  BY <1>4 DEF Claims, ClaimPast, DeliveryPc
<1> QED
  BY <1>1, <1>4, <1>5, SlotWorker

\* The claim of a due rule: its slot, and this one, have no run yet.
LEMMA SlotCheck ==
  ASSUME TypeOK, IsFiniteSet(Workers), SlotInv,
         NEW w \in Workers, NEW r \in Rules, CheckDue(w, r)
  PROVE  SlotInv'
<1>1. /\ mem[w] \in Mem /\ now \in Nat /\ mem[w].asOf \in Nat
      /\ pc[w] = "claim" /\ mem[w].asOf <= now
  BY DEF TypeOK, Mem, CheckDue, SlotInv, ClaimPast
<1>2. /\ UNCHANGED <<now, runs, pc>>
      /\ mem'[w].asOf = mem[w].asOf
      /\ mem'[w].due = IF IsDue(r, mem[w].asOf) THEN mem[w].due \union {r}
                                                ELSE mem[w].due
      /\ \A v \in Workers \ {w} : mem'[v] = mem[v]
  BY <1>1 DEF CheckDue, db, TypeOK, Mem
<1>3. \A v \in Workers : ClaimPast(v)'
  BY <1>1, <1>2 DEF SlotInv, ClaimPast
<1>4. CASE ~IsDue(r, mem[w].asOf)
  <2>1. Claims(w)' = Claims(w)
    BY <1>1, <1>2, <1>4 DEF Claims
  <2> QED
    BY <1>2, <1>3, <2>1, SlotWorker
<1>5. CASE IsDue(r, mem[w].asOf)
  <2>1. ASSUME NEW q \in Rules, Kind[q] = "cron" PROVE SlotRoom(q)'
    <3>s. SlotRuns(q, SlotOf(now))' = SlotRuns(q, SlotOf(now))
      BY <1>2 DEF SlotRuns
    <3>1. CASE q = r
      <4>1. RunsSince(r, SlotOf(mem[w].asOf)) = {}
        BY <1>5, <2>1, <3>1 DEF IsDue
      <4>2. SlotOf(mem[w].asOf) <= SlotOf(now) /\ SlotOf(mem[w].asOf) \in Nat
        BY <1>1, SlotGrows, SlotBefore
      <4>3. ASSUME NEW i \in SlotRuns(r, SlotOf(now)) PROVE FALSE
        <5>1. /\ i \in DOMAIN runs[r] /\ SlotOf(runs[r][i]) = SlotOf(now)
              /\ runs[r][i] \in Nat
          BY <4>3 DEF SlotRuns, TypeOK
        <5>2. SlotOf(now) <= runs[r][i] /\ SlotOf(now) \in Nat
          BY <1>1, <5>1, SlotBefore
        <5>3. runs[r][i] >= SlotOf(mem[w].asOf)
          BY <4>2, <5>1, <5>2
        <5> QED
          BY <4>1, <5>1, <5>3 DEF RunsSince
      <4>4. SlotRuns(r, SlotOf(now)) = {}
        BY <4>3
      <4>5. Cardinality(SlotRuns(r, SlotOf(now))') = 0
        BY <3>1, <3>s, <4>4, FS_EmptySet
      <4>6. Claimants(r)' \in SUBSET Workers
        BY DEF Claimants
      <4>7. /\ Cardinality(Claimants(r)') \in Nat
            /\ Cardinality(Claimants(r)') <= Cardinality(Workers)
        BY <4>6, FS_Subset, FS_CardinalityType
      <4> QED
        BY <3>1, <4>5, <4>7 DEF SlotRoom
    <3>2. CASE q # r
      <4>1. \A v \in Workers : q \in Claims(v)' <=> q \in Claims(v)
        BY <1>1, <1>2, <3>2 DEF Claims
      <4>2. Claimants(q)' = Claimants(q)
        BY <4>1 DEF Claimants
      <4> QED
        BY <2>1, <3>s, <4>2 DEF SlotInv, SlotRoom
    <3> QED
      BY <3>1, <3>2
  <2>2. \A q \in Rules, s \in Nat : SlotRuns(q, s)' = SlotRuns(q, s)
    BY <1>2 DEF SlotRuns
  <2> QED
    BY <1>2, <1>3, <2>1, <2>2 DEF SlotInv
<1> QED
  BY <1>4, <1>5

\* An evaluation: the new run takes the place of the claim it came from.
LEMMA SlotEvaluated ==
  ASSUME TypeOK, IsFiniteSet(Workers), SlotInv, NEW w \in Workers,
         NEW r \in Rules, r \in mem[w].todo, Evaluate(w, r),
         NEW holds \in BOOLEAN, Evaluated(w, r, holds)
  PROVE  SlotInv'
<1>1. /\ mem[w] \in Mem /\ runs[r] \in Seq(Nat) /\ now \in Nat
      /\ Len(runs[r]) \in Nat /\ DOMAIN runs[r] = 1 .. Len(runs[r])
  BY DEF TypeOK
<1>2. /\ now' = now /\ pc[w] = "eval" /\ pc'[w] \in {"eval", "pick"}
      /\ runs' = [runs EXCEPT ![r] = Append(runs[r], now)]
      /\ \A v \in Workers \ {w} : pc'[v] = pc[v]
  BY DEF Evaluate, Evaluated, TypeOK
<1>3. /\ mem'[w].todo = mem[w].todo \ {r}
      /\ \A v \in Workers \ {w} : mem'[v] = mem[v]
  BY <1>1 DEF Evaluated, TypeOK, Mem
<1>4. /\ DOMAIN runs'[r] = 1 .. (Len(runs[r]) + 1)
      /\ runs'[r][Len(runs[r]) + 1] = now
      /\ \A i \in DOMAIN runs[r] : runs'[r][i] = runs[r][i]
      /\ \A q \in Rules \ {r} : runs'[q] = runs[q]
  BY <1>1, <1>2 DEF TypeOK
<1>5. \A v \in Workers : ClaimPast(v)'
  BY <1>2, <1>3 DEF SlotInv, ClaimPast
<1>6. \A q \in Rules : \A i \in DOMAIN runs'[q] : runs'[q][i] <= now'
  <2>1. \A i \in DOMAIN runs'[r] : i \in DOMAIN runs[r] \/ i = Len(runs[r]) + 1
    BY <1>1, <1>4
  <2> QED
    BY <1>1, <1>2, <1>4, <2>1 DEF SlotInv
<1>7. /\ \A q \in Rules \ {r} : Claimants(q)' \subseteq Claimants(q)
      /\ Claimants(r)' = Claimants(r) \ {w}
      /\ w \in Claimants(r)
  <2>1. w \in Claimants(r)
    BY <1>2 DEF Claimants, Claims
  <2>2. Claims(w)' \subseteq Claims(w) \ {r} /\ Claims(w)' \subseteq Claims(w)
    BY <1>2, <1>3 DEF Claims
  <2>3. \A v \in Workers \ {w} : Claims(v)' = Claims(v)
    BY <1>2, <1>3 DEF Claims
  <2> QED
    BY <2>1, <2>2, <2>3 DEF Claimants
<1>8. \A q \in Rules \ {r} : \A s : SlotRuns(q, s)' = SlotRuns(q, s)
  BY <1>4 DEF SlotRuns
<1>9. \A s : s # SlotOf(now) => SlotRuns(r, s)' = SlotRuns(r, s)
  BY <1>1, <1>4 DEF SlotRuns
<1>10. SlotRuns(r, SlotOf(now))' =
         SlotRuns(r, SlotOf(now)) \union {Len(runs[r]) + 1}
  BY <1>1, <1>2, <1>4 DEF SlotRuns
<1>11. ASSUME NEW q \in Rules \ {r}, Kind[q] = "cron"
       PROVE  /\ SlotRoom(q)'
              /\ \A s \in Nat : Cardinality(SlotRuns(q, s)') <= Cardinality(Workers)
  <2>1. SlotRuns(q, SlotOf(now))' = SlotRuns(q, SlotOf(now))
    BY <1>2, <1>8 DEF SlotRuns
  <2>2. Claimants(q)' \in SUBSET Claimants(q)
    BY <1>7
  <2>3. /\ Cardinality(Claimants(q)') <= Cardinality(Claimants(q))
        /\ Cardinality(Claimants(q)') \in Nat
    BY <2>2, ClaimantsFinite, FS_Subset, FS_CardinalityType
  <2>4. /\ Cardinality(Workers) \in Nat /\ Cardinality(Claimants(q)) \in Nat
        /\ Cardinality(SlotRuns(q, SlotOf(now))) \in Nat
    BY ClaimantsFinite, SlotRunsFinite
  <2>5. /\ Cardinality(SlotRuns(q, SlotOf(now))) + Cardinality(Claimants(q))
             <= Cardinality(Workers)
        /\ \A s \in Nat : Cardinality(SlotRuns(q, s)) <= Cardinality(Workers)
    BY <1>11 DEF SlotInv, SlotRoom
  <2> QED
    BY <1>8, <2>1, <2>3, <2>4, <2>5 DEF SlotRoom
<1>12. ASSUME Kind[r] = "cron"
       PROVE  /\ SlotRoom(r)'
              /\ \A s \in Nat : Cardinality(SlotRuns(r, s)') <= Cardinality(Workers)
  <2>1. /\ Cardinality(SlotRuns(r, SlotOf(now))) + Cardinality(Claimants(r))
             <= Cardinality(Workers)
        /\ \A s \in Nat : Cardinality(SlotRuns(r, s)) <= Cardinality(Workers)
    BY <1>12 DEF SlotInv, SlotRoom
  <2>2. Len(runs[r]) + 1 \notin SlotRuns(r, SlotOf(now))
    BY <1>1 DEF SlotRuns
  <2>3. Cardinality(SlotRuns(r, SlotOf(now))') =
          Cardinality(SlotRuns(r, SlotOf(now))) + 1
    BY <1>10, <2>2, SlotRunsFinite, FS_AddElement
  <2>4. Cardinality(Claimants(r)') = Cardinality(Claimants(r)) - 1
    BY <1>7, ClaimantsFinite, FS_RemoveElement
  <2>5. /\ Cardinality(Workers) \in Nat /\ Cardinality(Claimants(r)) \in Nat
        /\ Cardinality(SlotRuns(r, SlotOf(now))) \in Nat
    BY ClaimantsFinite, SlotRunsFinite
  <2>6. Claimants(r) # {}
    BY <1>7
  <2>7. Cardinality(Claimants(r)) >= 1
    BY <2>5, <2>6, ClaimantsFinite, FS_EmptySet
  <2>8. SlotRoom(r)'
    BY <2>1, <2>3, <2>4, <2>5 DEF SlotRoom
  <2>9. Cardinality(SlotRuns(r, SlotOf(now))') <= Cardinality(Workers)
    BY <2>1, <2>3, <2>5, <2>7
  <2>10. ASSUME NEW s \in Nat
         PROVE  Cardinality(SlotRuns(r, s)') <= Cardinality(Workers)
    <3>1. CASE s = SlotOf(now)
      <4>1. SlotRuns(r, s)' = SlotRuns(r, SlotOf(now))'
        BY <1>2, <3>1 DEF SlotRuns
      <4> QED
        BY <2>9, <4>1
    <3>2. CASE s # SlotOf(now)
      BY <1>9, <2>1, <3>2
    <3> QED
      BY <3>1, <3>2
  <2> QED
    BY <2>8, <2>10
<1> QED
  BY <1>5, <1>6, <1>11, <1>12 DEF SlotInv

\* An evaluation that is rolled back makes the claim void.
LEMMA SlotEvaluate ==
  ASSUME TypeOK, IsFiniteSet(Workers), SlotInv,
         NEW w \in Workers, NEW r \in FirstRule(mem[w].todo), Evaluate(w, r)
  PROVE  SlotInv'
<1>1. mem[w] \in Mem /\ r \in Rules /\ r \in mem[w].todo
  BY DEF TypeOK, FirstRule, Mem
<1>2. CASE EvaluationFails(w, r)
  <2>1. /\ UNCHANGED <<now, runs>>
        /\ pc[w] = "eval" /\ pc'[w] \in {"eval", "pick"}
        /\ mem'[w].todo = mem[w].todo \ {r}
        /\ \A v \in Workers \ {w} : pc'[v] = pc[v] /\ mem'[v] = mem[v]
    BY <1>1, <1>2 DEF Evaluate, EvaluationFails, TypeOK, Mem
  <2>2. Claims(w)' \subseteq Claims(w) /\ ClaimPast(w)'
    BY <2>1 DEF Claims, ClaimPast
  <2> QED
    BY <2>1, <2>2, SlotWorker
<1> QED
  BY <1>1, <1>2, SlotEvaluated DEF Evaluate

LEMMA SlotClaim ==
  ASSUME TypeOK, IsFiniteSet(Workers), SlotInv,
         NEW w \in Workers, ListRules(w) \/ ReleaseLock(w)
  PROVE  SlotInv'
<1>1. mem[w] \in Mem /\ now \in Nat
  BY DEF TypeOK
<1>2. CASE ListRules(w)
  <2>1. /\ UNCHANGED <<now, runs>>
        /\ pc[w] = "sleep" /\ pc'[w] = "claim"
        /\ mem'[w].asOf = now /\ mem'[w].due = mem[w].due
        /\ \A v \in Workers \ {w} : pc'[v] = pc[v] /\ mem'[v] = mem[v]
    BY <1>1, <1>2 DEF ListRules, db, TypeOK, Mem
  <2>2. Claims(w)' \subseteq Claims(w) /\ ClaimPast(w)'
    BY <1>1, <2>1 DEF SlotInv, Claims, ClaimPast
  <2> QED
    BY <2>1, <2>2, SlotWorker
<1>3. CASE ReleaseLock(w) /\ mem[w].due = {}
  BY <1>3, SlotIdle DEF ReleaseLock, EndCycle, db
<1>4. CASE ReleaseLock(w) /\ mem[w].due # {}
  <2> DEFINE m == [mem[w] EXCEPT !.todo = mem[w].due, !.due = {}]
  <2>1. /\ UNCHANGED <<now, runs>>
        /\ pc[w] = "claim" /\ pc'[w] = "eval" /\ mem' = [mem EXCEPT ![w] = m]
        /\ \A v \in Workers \ {w} : pc'[v] = pc[v]
    BY <1>4 DEF ReleaseLock, db, TypeOK
  <2>2. m.todo = mem[w].due
    BY <1>1 DEF Mem
  <2> HIDE DEF m
  <2>3. /\ mem'[w].todo = mem[w].due
        /\ \A v \in Workers \ {w} : mem'[v] = mem[v]
    BY <2>1, <2>2 DEF TypeOK
  <2>4. Claims(w)' \subseteq Claims(w) /\ ClaimPast(w)'
    BY <2>1, <2>3 DEF Claims, ClaimPast
  <2> QED
    BY <2>1, <2>3, <2>4, SlotWorker
<1> QED
  BY <1>2, <1>3, <1>4

\* The clock: all runs are of this slot or an earlier one, so a new slot begins
\* without any.
LEMMA SlotTick ==
  ASSUME TypeOK, IsFiniteSet(Workers), SlotInv, Tick
  PROVE  SlotInv'
<1>1. /\ now \in Nat /\ now' = now + 1 /\ now' \in Nat
      /\ UNCHANGED <<runs, pc, mem>>
  BY DEF Tick, TypeOK, db, worker
<1>2. \A w \in Workers : ClaimPast(w)'
  <2> TAKE w \in Workers
  <2>1. ClaimPast(w) /\ mem[w].asOf \in Nat
    BY DEF SlotInv, TypeOK, Mem
  <2> QED
    BY <1>1, <2>1 DEF ClaimPast
<1>3. \A r \in Rules : \A i \in DOMAIN runs'[r] : runs'[r][i] <= now'
  <2> TAKE r \in Rules
  <2> TAKE i \in DOMAIN runs'[r]
  <2>1. runs[r][i] <= now /\ runs[r][i] \in Nat
    BY <1>1 DEF SlotInv, TypeOK
  <2> QED
    BY <1>1, <2>1
<1>4. \A r \in Rules : \A s : SlotRuns(r, s)' = SlotRuns(r, s)
  BY <1>1 DEF SlotRuns
<1>5. \A r : Claimants(r)' = Claimants(r)
  BY <1>1 DEF Claimants, Claims
<1>6. ASSUME NEW r \in Rules, Kind[r] = "cron" PROVE SlotRoom(r)'
  <2>1. SlotRuns(r, SlotOf(now))' = SlotRuns(r, SlotOf(now'))
    BY <1>1 DEF SlotRuns
  <2>2. CASE SlotOf(now') = SlotOf(now)
    <3>1. SlotRuns(r, SlotOf(now))' = SlotRuns(r, SlotOf(now))
      BY <2>1, <2>2
    <3>2. Claimants(r)' = Claimants(r)
      BY <1>5
    <3> QED
      BY <1>6, <3>1, <3>2 DEF SlotInv, SlotRoom
  <2>3. CASE SlotOf(now') # SlotOf(now)
    <3>1. ASSUME NEW i \in DOMAIN runs[r], SlotOf(runs[r][i]) = SlotOf(now')
          PROVE  FALSE
      <4>1. runs[r][i] \in Nat /\ runs[r][i] <= now
        BY DEF TypeOK, SlotInv
      <4>2. SlotOf(runs[r][i]) <= SlotOf(now) /\ SlotOf(now) <= SlotOf(now')
        BY <1>1, <4>1, SlotGrows
      <4>3. SlotOf(now) \in Nat /\ SlotOf(now') \in Nat
        BY <1>1, SlotBefore
      <4> QED
        BY <2>3, <3>1, <4>2, <4>3
    <3>2. SlotRuns(r, SlotOf(now')) = {}
      BY <3>1 DEF SlotRuns
    <3>3. Cardinality(SlotRuns(r, SlotOf(now))') = 0
      BY <2>1, <3>2, FS_EmptySet
    <3>4. /\ Cardinality(Claimants(r)') \in Nat
          /\ Cardinality(Claimants(r)') <= Cardinality(Workers)
      BY <1>5, ClaimantsFinite
    <3> QED
      BY <3>3, <3>4 DEF SlotRoom
  <2> QED
    BY <2>2, <2>3
<1>7. \A r \in Rules : Kind[r] = "cron" =>
        \A s \in Nat : Cardinality(SlotRuns(r, s)') <= Cardinality(Workers)
  BY <1>4 DEF SlotInv
<1> QED
  BY <1>2, <1>3, <1>6, <1>7 DEF SlotInv

LEMMA SlotUnchanged ==
  ASSUME TypeOK, IsFiniteSet(Workers), SlotInv,
         UNCHANGED <<now, runs, pc, mem>>
  PROVE  SlotInv'
<1>1. \A v \in Workers : Claims(v)' \subseteq Claims(v) /\ ClaimPast(v)'
  BY DEF SlotInv, Claims, ClaimPast
<1> QED
  BY <1>1, SlotFrame

LEMMA SlotStep ==
  ASSUME IsFiniteSet(Workers), TypeOK, SlotInv, [Next]_vars
  PROVE  SlotInv'
<1>1. ASSUME NEW w \in Workers, Step(w) \/ Abort(w) \/ Crash(w)
      PROVE  SlotInv'
  <2>1. FirstRule(mem[w].todo) \subseteq Rules
    BY DEF FirstRule, TypeOK, Mem
  <2>2. CASE LockBusy(w) \/ ReclaimConflicts(w) \/ Commit(w) \/ Abort(w) \/ Crash(w)
    <3>1. PICK wake : Idle(w, wake)
      BY <2>2 DEF LockBusy, ReclaimConflicts, Commit, Abort, Crash, EndCycle
    <3>2. UNCHANGED <<now, runs>>
      BY <2>2 DEF LockBusy, ReclaimConflicts, Commit, Abort, Crash, db
    <3> QED
      BY <3>1, <3>2, SlotIdle
  <2>3. CASE \E r \in FirstRule(mem[w].todo) :
               CheckDue(w, r) \/ ClaimRaises(w, r) \/ Evaluate(w, r)
    <3>1. ASSUME NEW r \in Rules, ClaimRaises(w, r) PROVE SlotInv'
      BY <3>1, SlotIdle DEF ClaimRaises, EndCycle, db
    <3> QED
      BY <2>1, <2>3, <3>1, SlotCheck, SlotEvaluate
  <2> QED
    BY <1>1, <2>2, <2>3, SlotClaim, SlotDeliver DEF Step
<1>2. CASE \/ \E r \in Rules : DeleteRule(r) \/ \E x \in Exprs : EditRule(r, x)
           \/ Horizon \/ UNCHANGED vars
  BY <1>2, SlotUnchanged DEF DeleteRule, EditRule, Horizon, vars, db, worker
<1> QED
  BY <1>1, <1>2, SlotTick DEF Next

\* However the workers overlap, crash and repeat their cycles, and however late
\* an evaluation comes after its claim, a cron: rule has no more evaluation runs
\* in one slot than there are workers: _claim_due_rules gives the lock back
\* before the rules are evaluated, but looks for runs before it claims.
THEOREM SlotRunsBoundedCorrect ==
  ASSUME IsFiniteSet(Workers)
  PROVE  Spec => []SlotRunsBounded
<1>1. Init => SlotInv
  BY SlotInit
<1>2. TypeOK /\ SlotInv /\ [Next]_vars => SlotInv'
  BY SlotStep
<1>3. SlotInv => SlotRunsBounded
  <2>1. 0..MaxTime \subseteq Nat
    BY ParamAssumption
  <2> QED
    BY <2>1 DEF SlotInv, SlotRunsBounded, SlotRuns
<1> QED
  BY <1>1, <1>2, <1>3, TypeCorrect, PTL DEF Spec

-----------------------------------------------------------------------------
(* Once: rules: the row and the end of the rule are one commit.            *)

\* Migration 003 left no row of a once: rule.  (A rule with such a row is
\* disabled when create_event_once finds it, and was never delivered.)
NoOnceLegacy == \A r \in Legacy : Kind[r] # "once"

\* Rule r has been evaluated, so delete_rule can no longer remove it.
Ran(r) == r \in Rules /\ runs[r] # <<>>

\* Two rows of one id are versions of one event.
Alike(e, f) == e.id = f.id /\ e.rule = f.rule /\ e.run = f.run

\* S has an event of r, or of a twin of r, that came from an evaluation.
Recorded(S, r) ==
  \E e \in S : e.rule # NoRule /\ e.run # NoRun /\ Twin[e.rule] = Twin[r]

Here(w)    == events \union rows[w]
At(w)      == FirstCandidate(mem[w].cands)
Pending(w) == pc[w] \in {"look", "insert", "reclaim", "send"}

\* The candidates were evaluated, and so were the rules of the open rows.
RunHere(w) ==
  /\ \A c \in mem[w].cands : Ran(c.rule) /\ c.run # NoRun
  /\ \A e \in rows[w] : Ran(e.rule)

\* The row to be reclaimed is of the candidate's rule.
ReclaimsOwn(w) ==
  pc[w] = "reclaim" =>
    \A c \in At(w) : \E e \in events : e.id = mem[w].hold /\ e.rule = c.rule

\* What this transaction disables, or will, has a row that w sees.
OffRecorded(w) ==
  /\ \A r \in off[w] : Recorded(Here(w), r)
  /\ pc[w] = "disable" => \A c \in At(w) : Kind[c.rule] = "once"
  /\ pc[w] \in {"send", "disable"} =>
       \A c \in At(w) : Kind[c.rule] = "once" => Recorded(Here(w), c.rule)

\* A scheduled key counts as delivered when its row is there, or comes next.
SeenRecorded(w) ==
  \A k \in mem[w].seen : \A q \in Rules :
    Kind[q] = "once" /\ k[1] = Twin[q] =>
      \/ Recorded(Here(w), q)
      \/ Pending(w) /\ \E c \in At(w) : Twin[c.rule] = Twin[q]

\* A once: rule with an open row is disabled in the same transaction.
RowsDisabled(w) ==
  \A e \in rows[w] : Kind[e.rule] = "once" =>
    \/ e.rule \in off[w]
    \/ pc[w] \in {"send", "disable"} /\ \E c \in At(w) : c.rule = e.rule

WorkerSettles(w) ==
  /\ RunHere(w)
  /\ ReclaimsOwn(w)
  /\ OffRecorded(w)
  /\ SeenRecorded(w)
  /\ RowsDisabled(w)

Ledger == events \union InFlight

LedgerSettled ==
  /\ \A e, f \in Ledger : e.id = f.id => Alike(e, f)
  /\ \A e \in Ledger :
       e.rule # NoRule => (Kind[e.rule] = "once" => e.run # NoRun)
  /\ \A e \in events : e.run # NoRun => Ran(e.rule)

EnabledSettled ==
  /\ \A e \in events :
       e.rule # NoRule => (Kind[e.rule] = "once" => ~enabled[e.rule])
  /\ \A r \in Rules : ~enabled[r] => Recorded(events, r)

SettleInv ==
  /\ LedgerSettled
  /\ EnabledSettled
  /\ \A w \in Workers : WorkerSettles(w)

LEMMA SettleInit ==
  ASSUME NoOnceLegacy, Init
  PROVE  SettleInv
<1>1. \A w \in Workers : /\ pc[w] = "sleep" /\ rows[w] = {} /\ off[w] = {}
                         /\ mem[w].cands = {} /\ mem[w].seen = {}
  BY DEF Init, NoMem
<1>2. InFlight = {} /\ Ledger = events
  BY <1>1 DEF InFlight, Ledger
<1>3. \A e \in events : e.id \in Legacy /\ e.rule = e.id /\ e.run = NoRun
  BY DEF Init
<1>4. LedgerSettled
  BY <1>2, <1>3 DEF LedgerSettled, Alike, NoOnceLegacy
<1>5. EnabledSettled
  BY <1>3 DEF EnabledSettled, NoOnceLegacy, Init
<1>6. \A w \in Workers : WorkerSettles(w)
  BY <1>1 DEF WorkerSettles, RunHere, ReclaimsOwn, OffRecorded, SeenRecorded,
    RowsDisabled
<1> QED
  BY <1>4, <1>5, <1>6 DEF SettleInv

LEMMA RecordedGrows ==
  ASSUME NEW S, NEW T, NEW r, Recorded(S, r),
         \A e \in S : e.rule # NoRule /\ e.run # NoRun =>
           \E f \in T : f.rule = e.rule /\ f.run = e.run
  PROVE  Recorded(T, r)
BY DEF Recorded

\* A step of others keeps what w relies on.
LEMMA SettleOther ==
  ASSUME LedgerSettled, NEW w \in Workers, WorkerSettles(w),
         \A r : Ran(r) => Ran(r)',
         \A e \in events : Ran(e.rule) => \E f \in events' : Alike(e, f),
         pc'[w] = pc[w], mem'[w] = mem[w], rows'[w] = rows[w], off'[w] = off[w]
  PROVE  WorkerSettles(w)'
<1>1. ASSUME NEW r, Recorded(Here(w), r) PROVE Recorded(Here(w)', r)
  <2>1. ASSUME NEW e \in Here(w), e.rule # NoRule, e.run # NoRun
        PROVE  \E f \in Here(w)' : f.rule = e.rule /\ f.run = e.run
    <3>1. CASE e \in events
      BY <2>1, <3>1 DEF LedgerSettled, Alike, Here
    <3>2. CASE e \in rows[w]
      BY <3>2 DEF Here
    <3> QED
      BY <3>1, <3>2 DEF Here
  <2> QED
    BY <1>1, <2>1, RecordedGrows
<1>2. At(w)' = At(w)
  BY DEF At
<1>3. RunHere(w)'
  BY DEF WorkerSettles, RunHere
<1>4. ReclaimsOwn(w)'
  <2> SUFFICES ASSUME pc[w] = "reclaim", NEW c \in At(w)
               PROVE  \E e \in events' : e.id = mem[w].hold /\ e.rule = c.rule
    BY <1>2 DEF ReclaimsOwn
  <2>1. PICK e \in events : e.id = mem[w].hold /\ e.rule = c.rule
    BY DEF WorkerSettles, ReclaimsOwn
  <2>2. Ran(c.rule)
    BY DEF WorkerSettles, RunHere, At, FirstCandidate
  <2> QED
    BY <2>1, <2>2 DEF Alike
<1>5. OffRecorded(w)'
  BY <1>1, <1>2 DEF WorkerSettles, OffRecorded
<1>6. SeenRecorded(w)'
  BY <1>1, <1>2 DEF WorkerSettles, SeenRecorded, Pending
<1>7. RowsDisabled(w)'
  BY <1>2 DEF WorkerSettles, RowsDisabled
<1> QED
  BY <1>3, <1>4, <1>5, <1>6, <1>7 DEF WorkerSettles

\* The rows of one worker change, and none is new.
LEMMA LedgerAlike ==
  ASSUME LedgerSettled, UNCHANGED <<events, runs>>, NEW w \in Workers,
         \A v \in Workers \ {w} : rows'[v] = rows[v],
         \A e \in rows'[w] : \E f \in Ledger : Alike(e, f)
  PROVE  LedgerSettled'
<1>1. \A e \in Ledger' : \E f \in Ledger : Alike(e, f)
  <2> TAKE e \in Ledger'
  <2>1. CASE e \in Ledger
    BY <2>1 DEF Alike
  <2>2. CASE e \in rows'[w]
    BY <2>2
  <2> QED
    BY <2>1, <2>2 DEF Ledger, InFlight
<1> QED
  BY <1>1 DEF LedgerSettled, Alike, Ran

\* A worker writes a row with an id of its own.
LEMMA LedgerNew ==
  ASSUME LedgerSettled, UNCHANGED <<events, runs>>, NEW w \in Workers,
         \A v \in Workers \ {w} : rows'[v] = rows[v], NEW x,
         rows'[w] \subseteq rows[w] \union {x},
         \A f \in Ledger : f.id # x.id,
         x.run # NoRun
  PROVE  LedgerSettled'
<1>1. \A e \in Ledger' : e \in Ledger \/ e = x
  BY DEF Ledger, InFlight
<1> QED
  BY <1>1 DEF LedgerSettled, Alike, Ran

LEMMA FinishMoves ==
  ASSUME TypeOK, NEW w \in Workers, NEW c, Finish(w, c)
  PROVE  /\ pc'[w] \in {"pick", "disable"}
         /\ mem'[w].cands \subseteq mem[w].cands /\ mem'[w].todo = mem[w].todo
         /\ \A v \in Workers \ {w} : pc'[v] = pc[v] /\ mem'[v] = mem[v]
<1>1. mem[w] \in Mem
  BY DEF TypeOK
<1>2. CASE Continue(w, "disable")
  BY <1>2 DEF Continue, TypeOK
<1>3. CASE /\ pc'  = [pc EXCEPT ![w] = "pick"]
           /\ mem' = [mem EXCEPT ![w] = DropCandidate(@, c)]
  <2>1. /\ DropCandidate(mem[w], c).cands \subseteq mem[w].cands
        /\ DropCandidate(mem[w], c).todo = mem[w].todo
    BY <1>1 DEF DropCandidate, Mem
  <2> QED
    BY <1>3, <2>1 DEF TypeOK
<1> QED
  BY <1>2, <1>3 DEF Finish

\* A step of w that writes no row, disables no rule and delivers nothing.
LEMMA SettleLocal ==
  ASSUME TypeOK, SettleInv, NEW w \in Workers,
         UNCHANGED <<events, rows, off, enabled>>,
         \A r : Ran(r) => Ran(r)',
         \A v \in Workers \ {w} : pc'[v] = pc[v] /\ mem'[v] = mem[v],
         pc[w] \notin DeliveryPc, pc'[w] \in {"claim", "eval", "pick"},
         mem'[w].seen = mem[w].seen,
         \A c \in mem'[w].cands : Ran(c.rule)' /\ c.run # NoRun
  PROVE  SettleInv'
<1>1. LedgerSettled' /\ EnabledSettled'
  BY DEF SettleInv, LedgerSettled, EnabledSettled, Ledger, InFlight, Alike,
    Recorded
<1>2. \A v \in Workers \ {w} : WorkerSettles(v)'
  BY SettleOther DEF SettleInv, Alike
<1>3. WorkerSettles(w)
  BY DEF SettleInv
<1>4. RunHere(w)'
  BY <1>3 DEF WorkerSettles, RunHere
<1>5. ReclaimsOwn(w)' /\ OffRecorded(w)'
  BY <1>3 DEF WorkerSettles, ReclaimsOwn, OffRecorded, Recorded, Here
<1>6. SeenRecorded(w)'
  BY <1>3 DEF WorkerSettles, SeenRecorded, Pending, DeliveryPc, Recorded, Here
<1>7. RowsDisabled(w)'
  BY <1>3 DEF WorkerSettles, RowsDisabled, DeliveryPc
<1>8. WorkerSettles(w)'
  BY <1>4, <1>5, <1>6, <1>7 DEF WorkerSettles
<1> QED
  BY <1>1, <1>2, <1>8 DEF SettleInv

\* The transaction of w is gone, committed or not.
LEMMA SettleGone ==
  ASSUME TypeOK, NEW w \in Workers, NEW wake, Idle(w, wake)
  PROVE  WorkerSettles(w)'
<1>1. /\ pc'[w] = "sleep" /\ rows'[w] = {} /\ off'[w] = {}
      /\ mem'[w].cands = {} /\ mem'[w].seen = {}
  BY DEF Idle, TypeOK, NoMem
<1> QED
  BY <1>1 DEF WorkerSettles, RunHere, ReclaimsOwn, OffRecorded, SeenRecorded,
    RowsDisabled

LEMMA SettleRollback ==
  ASSUME TypeOK, SettleInv, NEW w \in Workers, NEW wake, Idle(w, wake),
         UNCHANGED <<events, runs, enabled>>
  PROVE  SettleInv'
<1>1. /\ rows'[w] = {}
      /\ \A v \in Workers \ {w} :
           /\ pc'[v] = pc[v] /\ mem'[v] = mem[v]
           /\ rows'[v] = rows[v] /\ off'[v] = off[v]
  BY DEF Idle, TypeOK
<1>2. LedgerSettled'
  BY <1>1, LedgerAlike DEF SettleInv
<1>3. EnabledSettled'
  BY DEF SettleInv, EnabledSettled, Recorded
<1>4. \A v \in Workers \ {w} : WorkerSettles(v)'
  BY <1>1, SettleOther DEF SettleInv, Alike, Ran
<1> QED
  BY <1>2, <1>3, <1>4, SettleGone DEF SettleInv

\* The commit publishes the rows together with the end of their once: rules.
LEMMA SettleCommit ==
  ASSUME TypeOK, SettleInv, NEW w \in Workers, Commit(w)
  PROVE  SettleInv'
<1>1. /\ pc[w] = "pick"
      /\ Idle(w, now + Interval)
      /\ events' = Visible(w)
      /\ enabled' = [r \in Rules |-> enabled[r] /\ r \notin off[w]]
      /\ UNCHANGED runs
  BY DEF Commit, EndCycle
<1>2. /\ rows'[w] = {}
      /\ \A v \in Workers \ {w} :
           /\ pc'[v] = pc[v] /\ mem'[v] = mem[v]
           /\ rows'[v] = rows[v] /\ off'[v] = off[v]
  BY <1>1 DEF Idle, TypeOK
<1>3. WorkerSettles(w) /\ LedgerSettled /\ EnabledSettled
  BY DEF SettleInv
<1>4. \A e \in events : \E f \in events' : Alike(e, f)
  <2> TAKE e \in events
  <2>1. CASE \A f \in rows[w] : f.id # e.id
    BY <1>1, <2>1 DEF Visible, Alike
  <2>2. ASSUME NEW f \in rows[w], f.id = e.id
        PROVE  f \in events' /\ Alike(e, f)
    BY <1>1, <1>3, <2>2 DEF LedgerSettled, Ledger, InFlight, Visible
  <2> QED
    BY <2>1, <2>2
<1>5. \A e \in Here(w) : \E f \in events' : f.rule = e.rule /\ f.run = e.run
  BY <1>1, <1>4 DEF Here, Visible, Alike
<1>6. Ledger' \subseteq Ledger
  BY <1>1, <1>2 DEF Ledger, InFlight, Visible
<1>7. LedgerSettled'
  <2>1. \A e \in events' : e.run # NoRun => Ran(e.rule)
    BY <1>1, <1>3 DEF LedgerSettled, WorkerSettles, RunHere, Visible
  <2> QED
    BY <1>1, <1>3, <1>6, <2>1 DEF LedgerSettled, Alike, Ran
<1>8. EnabledSettled'
  <2>1. ASSUME NEW e \in events', e.rule # NoRule, Kind[e.rule] = "once"
        PROVE  ~enabled'[e.rule]
    <3>1. CASE e \in events
      <4>1. ~enabled[e.rule]
        BY <1>3, <2>1, <3>1 DEF EnabledSettled
      <4>2. e.rule \in Rules
        BY <2>1, <3>1 DEF TypeOK, EventRow
      <4> QED
        BY <1>1, <4>1, <4>2
    <3>2. CASE e \in rows[w]
      <4>1. e.rule \in off[w] /\ e.rule \in Rules
        BY <1>1, <1>3, <2>1, <3>2 DEF WorkerSettles, RowsDisabled, RunHere, Ran
      <4> QED
        BY <1>1, <4>1
    <3> QED
      BY <1>1, <3>1, <3>2 DEF Visible
  <2>2. ASSUME NEW r \in Rules, ~enabled'[r]
        PROVE  Recorded(events', r)
    <3>1. Recorded(Here(w), r)
      <4>1. CASE ~enabled[r]
        BY <1>3, <4>1 DEF EnabledSettled, Recorded, Here
      <4>2. CASE r \in off[w]
        BY <1>3, <4>2 DEF WorkerSettles, OffRecorded
      <4> QED
        BY <1>1, <2>2, <4>1, <4>2
    <3> QED
      BY <1>5, <3>1, RecordedGrows
  <2> QED
    BY <2>1, <2>2 DEF EnabledSettled
<1>9. \A v \in Workers \ {w} : WorkerSettles(v)'
  BY <1>1, <1>2, <1>3, <1>4, SettleOther DEF SettleInv, Ran
<1> QED
  BY <1>1, <1>7, <1>8, <1>9, SettleGone DEF SettleInv

\* A deleted rule was never evaluated, so nothing was recorded of it.
LEMMA SettleDelete ==
  ASSUME TypeOK, SettleInv, NEW r \in Rules, DeleteRule(r)
  PROVE  SettleInv'
<1> DEFINE Null(e) == IF e.rule = r THEN [e EXCEPT !.rule = NoRule] ELSE e
<1>1. /\ runs[r] = <<>> /\ UNCHANGED <<runs, enabled, pc, mem, rows, off>>
      /\ events' = {Null(e) : e \in events}
      /\ ~Ran(r)
  BY DEF DeleteRule, worker, Ran
<1>2. \A e \in events : /\ Null(e).id = e.id /\ Null(e).run = e.run
                        /\ Null(e).rule = IF e.rule = r THEN NoRule ELSE e.rule
  BY DEF TypeOK, EventRow
<1> HIDE DEF Null
<1>3. LedgerSettled /\ EnabledSettled
  BY DEF SettleInv
<1>4. InFlight' = InFlight /\ \A e \in InFlight : Ran(e.rule) /\ e.rule # r
  BY <1>1 DEF InFlight, SettleInv, WorkerSettles, RunHere
<1>5. \A e \in Ledger' : \E f \in Ledger :
        /\ e.id = f.id /\ e.run = f.run
        /\ e.rule = IF f.rule = r THEN NoRule ELSE f.rule
  <2> TAKE e \in Ledger'
  <2>1. CASE e \in events'
    BY <1>1, <1>2, <2>1 DEF Ledger
  <2>2. CASE e \in InFlight
    BY <1>4, <2>2 DEF Ledger
  <2> QED
    BY <1>4, <2>1, <2>2 DEF Ledger
<1>6. LedgerSettled'
  <2>1. \A e, f \in Ledger' : e.id = f.id => Alike(e, f)
    BY <1>3, <1>5 DEF LedgerSettled, Alike
  <2>2. \A e \in Ledger' :
          e.rule # NoRule => (Kind[e.rule] = "once" => e.run # NoRun)
    BY <1>3, <1>5 DEF LedgerSettled
  <2>3. \A e \in events' : e.run # NoRun => Ran(e.rule)'
    BY <1>1, <1>2, <1>3 DEF LedgerSettled, Ran
  <2> QED
    BY <2>1, <2>2, <2>3 DEF LedgerSettled
<1>7. \A e \in events : Ran(e.rule) => \E f \in events' : Alike(e, f)
  BY <1>1, <1>2 DEF Alike
<1>8. EnabledSettled'
  <2>1. \A e \in events' :
          e.rule # NoRule => (Kind[e.rule] = "once" => ~enabled[e.rule])
    BY <1>1, <1>2, <1>3 DEF EnabledSettled
  <2>2. ASSUME NEW q \in Rules, ~enabled[q] PROVE Recorded(events', q)
    <3>1. Recorded(events, q)
      BY <1>3, <2>2 DEF EnabledSettled
    <3>2. \A e \in events : e.rule # NoRule /\ e.run # NoRun =>
            \E f \in events' : f.rule = e.rule /\ f.run = e.run
      BY <1>3, <1>7 DEF LedgerSettled, Alike
    <3> QED
      BY <3>1, <3>2, RecordedGrows
  <2> QED
    BY <1>1, <2>1, <2>2 DEF EnabledSettled
<1>9. \A w \in Workers : WorkerSettles(w)'
  BY <1>1, <1>3, <1>7, SettleOther DEF SettleInv, Ran
<1> QED
  BY <1>6, <1>8, <1>9 DEF SettleInv

LEMMA SettleUnchanged ==
  ASSUME SettleInv, UNCHANGED <<events, rows, off, enabled, runs, pc, mem>>
  PROVE  SettleInv'
<1>1. LedgerSettled' /\ EnabledSettled'
  BY DEF SettleInv, LedgerSettled, EnabledSettled, Ledger, InFlight, Alike,
    Recorded, Ran
<1>2. \A v \in Workers : WorkerSettles(v)'
  BY SettleOther DEF SettleInv, Alike, Ran
<1> QED
  BY <1>1, <1>2 DEF SettleInv

\* The candidates a worker may be at are of one rule.
LEMMA AtOneRule ==
  ASSUME TypeOK, NEW w \in Workers, NEW c \in At(w)
  PROVE  /\ c \in Candidate /\ c \in mem[w].cands /\ c.rule \in Rules
         /\ \A d \in At(w) : d.rule = c.rule
<1>1. mem[w] \in Mem
  BY DEF TypeOK
<1>2. \A d \in At(w) : /\ d \in Candidate /\ d \in mem[w].cands
                       /\ d.rule \in Rules /\ d.rule \in Nat
  BY <1>1, ParamAssumption DEF At, FirstCandidate, Mem, Candidate
<1> QED
  BY <1>2 DEF At, FirstCandidate

\* A step of w within its delivery.
LEMMA SettleDelivers ==
  ASSUME SettleInv, NEW w \in Workers, UNCHANGED <<events, runs, enabled>>,
         \A v \in Workers \ {w} : /\ pc'[v] = pc[v] /\ mem'[v] = mem[v]
                                  /\ rows'[v] = rows[v] /\ off'[v] = off[v],
         LedgerSettled', WorkerSettles(w)'
  PROVE  SettleInv'
<1>1. EnabledSettled'
  BY DEF SettleInv, EnabledSettled, Recorded
<1>2. \A v \in Workers \ {w} : WorkerSettles(v)'
  BY SettleOther DEF SettleInv, Alike, Ran
<1> QED
  BY <1>1, <1>2 DEF SettleInv

\* The loop is done with c, or has only its rule left to disable.
LEMMA SettleFinish ==
  ASSUME TypeOK, SettleInv, NEW w \in Workers, NEW c \in At(w), Finish(w, c),
         UNCHANGED <<events, runs, enabled, off>>,
         \A v \in Workers \ {w} : rows'[v] = rows[v],
         \A e \in rows'[w] :
           e.rule = c.rule \/ \E f \in rows[w] : f.rule = e.rule,
         \A e \in rows[w] :
           \E f \in rows'[w] : f.rule = e.rule /\ f.run = e.run,
         Kind[c.rule] = "once" => Recorded(Here(w)', c.rule),
         LedgerSettled'
  PROVE  SettleInv'
<1>1. /\ pc'[w] \in {"pick", "disable"}
      /\ mem'[w].cands \subseteq mem[w].cands
      /\ \A v \in Workers \ {w} : pc'[v] = pc[v] /\ mem'[v] = mem[v]
  BY FinishMoves
<1>2. mem[w] \in Mem /\ c.rule \in Rules
  BY AtOneRule DEF TypeOK
<1>3. mem'[w].seen = mem[w].seen
  <2>1. DropCandidate(mem[w], c).seen = mem[w].seen
    BY <1>2 DEF DropCandidate, Mem
  <2> QED
    BY <2>1 DEF Finish, Continue, TypeOK
<1>4. Kind[c.rule] = "once" => pc'[w] = "disable" /\ mem'[w] = mem[w]
  BY DEF Finish, Continue, TypeOK
<1>5. Kind[c.rule] # "once" => pc'[w] = "pick"
  BY DEF Finish, TypeOK
<1>6. WorkerSettles(w)
  BY DEF SettleInv
<1>7. ASSUME NEW r, Recorded(Here(w), r) PROVE Recorded(Here(w)', r)
  <2>1. \A e \in Here(w) : \E f \in Here(w)' : f.rule = e.rule /\ f.run = e.run
    BY DEF Here
  <2> QED
    BY <1>7, <2>1, RecordedGrows
<1>8. RunHere(w)'
  BY <1>1, <1>2, <1>6, AtOneRule DEF WorkerSettles, RunHere, Ran
<1>9. ReclaimsOwn(w)'
  BY <1>1 DEF ReclaimsOwn
<1>10. OffRecorded(w)'
  <2>1. \A r \in off'[w] : Recorded(Here(w)', r)
    BY <1>6, <1>7 DEF WorkerSettles, OffRecorded
  <2>2. ASSUME pc'[w] = "disable", NEW d \in At(w)'
        PROVE  Kind[d.rule] = "once" /\ Recorded(Here(w)', d.rule)
    <3>1. Kind[c.rule] = "once"
      BY <1>5, <2>2
    <3>2. d.rule = c.rule
      BY <1>4, <2>2, <3>1, AtOneRule DEF At
    <3> QED
      BY <3>1, <3>2
  <2> QED
    BY <1>1, <2>1, <2>2 DEF OffRecorded
<1>11. SeenRecorded(w)'
  <2> SUFFICES ASSUME NEW k \in mem[w].seen, NEW q \in Rules, Kind[q] = "once",
                      k[1] = Twin[q]
               PROVE  Recorded(Here(w)', q)
    BY <1>3 DEF SeenRecorded
  <2>1. CASE Recorded(Here(w), q)
    BY <1>7, <2>1
  <2>2. ASSUME NEW d \in At(w), Twin[d.rule] = Twin[q]
        PROVE  Recorded(Here(w)', q)
    <3>1. Twin[c.rule] = Twin[q]
      BY <2>2, AtOneRule
    <3>2. Kind[c.rule] = "once"
      BY <1>2, <3>1, TwinAssumption
    <3> QED
      BY <3>1, <3>2 DEF Recorded
  <2> QED
    BY <1>6, <2>1, <2>2 DEF WorkerSettles, SeenRecorded
<1>12. RowsDisabled(w)'
  <2> SUFFICES ASSUME NEW e \in rows'[w], Kind[e.rule] = "once",
                      e.rule \notin off[w]
               PROVE  /\ pc'[w] = "disable"
                      /\ \E d \in At(w)' : d.rule = e.rule
    BY DEF RowsDisabled
  <2>1. e.rule = c.rule
    BY <1>6, AtOneRule DEF WorkerSettles, RowsDisabled
  <2> QED
    BY <1>4, <2>1 DEF At
<1>13. WorkerSettles(w)'
  BY <1>8, <1>9, <1>10, <1>11, <1>12 DEF WorkerSettles
<1> QED
  BY <1>1, <1>13, SettleDelivers

\* A row that w sees of the candidate's rule, which is a once: rule, records it.
LEMMA SeenRow ==
  ASSUME TypeOK, SettleInv, NEW w \in Workers, NEW c \in At(w),
         NEW e \in Visible(w), SameKey(e, c), Kind[c.rule] = "once"
  PROVE  Recorded(Here(w), c.rule)
<1>1. e.rule = c.rule /\ e.rule # NoRule
  BY DEF SameKey
<1>2. e \in Ledger
  BY DEF Visible, Ledger, InFlight
<1>3. e.run # NoRun
  BY <1>1, <1>2 DEF SettleInv, LedgerSettled
<1> QED
  BY <1>1, <1>3 DEF Recorded, Here, Visible

\* Nothing is written for this candidate.
LEMMA SettlePass ==
  ASSUME TypeOK, SettleInv, NEW w \in Workers, NEW c \in At(w), Finish(w, c),
         UNCHANGED <<events, runs, enabled, off, rows>>,
         Kind[c.rule] = "once" => Recorded(Here(w), c.rule)
  PROVE  SettleInv'
<1>1. LedgerSettled'
  BY LedgerAlike DEF SettleInv, Ledger, InFlight, Alike
<1> QED
  BY <1>1, SettleFinish DEF Here, Recorded

\* The row x of candidate c is written.
LEMMA SettleHold ==
  ASSUME TypeOK, SettleInv, NEW w \in Workers, NEW c \in At(w), NEW x \in EventRow,
         Hold(w, c, x), UNCHANGED <<events, runs, enabled, off>>,
         pc[w] \in {"insert", "reclaim"},
         x.rule = c.rule,
         \/ \E f \in Ledger : Alike(x, f)
         \/ x.run # NoRun /\ \A f \in Ledger : f.id # x.id
  PROVE  SettleInv'
<1>1. PICK y : /\ y \in {x, Suppressed(x)}
               /\ rows' = [rows EXCEPT ![w] = @ \union {y}]
               /\ Finish(w, c) \/ /\ pc'  = [pc EXCEPT ![w] = "send"]
                                  /\ mem' = [mem EXCEPT ![w].hold = x.id]
  BY DEF Hold
<1>2. /\ y.id = x.id /\ y.rule = x.rule /\ y.run = x.run
  BY <1>1 DEF Suppressed, EventRow
<1>3. /\ rows'[w] = rows[w] \union {y}
      /\ \A v \in Workers \ {w} : rows'[v] = rows[v]
  BY <1>1 DEF TypeOK
<1>4. c.rule \in Rules /\ c.rule # NoRule
  BY AtOneRule, ParamAssumption
<1>5. LedgerSettled'
  <2>1. CASE \E f \in Ledger : Alike(x, f)
    <3>1. \A e \in rows'[w] : \E f \in Ledger : Alike(e, f)
      BY <1>2, <1>3, <2>1 DEF Alike, Ledger, InFlight
    <3> QED
      BY <1>3, <3>1, LedgerAlike DEF SettleInv
  <2>2. CASE x.run # NoRun /\ \A f \in Ledger : f.id # x.id
    BY <1>2, <1>3, <2>2, LedgerNew DEF SettleInv
  <2> QED
    BY <2>1, <2>2
<1>6. y.rule # NoRule => (Kind[y.rule] = "once" => y.run # NoRun)
  BY <1>3, <1>5 DEF LedgerSettled, Ledger, InFlight
<1>7. Kind[c.rule] = "once" => Recorded(Here(w)', c.rule)
  BY <1>2, <1>3, <1>4, <1>6 DEF Recorded, Here
<1>8. CASE Finish(w, c)
  BY <1>2, <1>3, <1>5, <1>7, <1>8, SettleFinish
<1>9. CASE /\ pc'  = [pc EXCEPT ![w] = "send"]
           /\ mem' = [mem EXCEPT ![w].hold = x.id]
  <2>1. /\ pc'[w] = "send"
        /\ mem'[w].cands = mem[w].cands /\ mem'[w].seen = mem[w].seen
        /\ \A v \in Workers \ {w} : pc'[v] = pc[v] /\ mem'[v] = mem[v]
    BY <1>9 DEF TypeOK, Mem
  <2>2. WorkerSettles(w) /\ At(w)' = At(w)
    BY <2>1 DEF SettleInv, At
  <2>3. RunHere(w)'
    BY <1>2, <1>3, <2>1, <2>2, AtOneRule DEF WorkerSettles, RunHere, Ran
  <2>4. ReclaimsOwn(w)'
    BY <2>1 DEF ReclaimsOwn
  <2>5. \A r : Recorded(Here(w), r) => Recorded(Here(w)', r)
    BY <1>3 DEF Recorded, Here
  <2>6. OffRecorded(w)'
    BY <1>7, <2>1, <2>2, <2>5, AtOneRule DEF WorkerSettles, OffRecorded
  <2>7. SeenRecorded(w)'
    BY <2>1, <2>2, <2>5 DEF WorkerSettles, SeenRecorded, Pending
  <2>8. RowsDisabled(w)'
    BY <1>2, <1>3, <2>1, <2>2 DEF WorkerSettles, RowsDisabled
  <2>9. WorkerSettles(w)'
    BY <2>3, <2>4, <2>6, <2>7, <2>8 DEF WorkerSettles
  <2> QED
    BY <1>3, <1>5, <2>1, <2>9, SettleDelivers
<1> QED
  BY <1>1, <1>8, <1>9

LEMMA SettleSend ==
  ASSUME TypeOK, SettleInv, NEW w \in Workers, NEW c \in At(w), Send(w, c)
  PROVE  SettleInv'
<1>1. /\ pc[w] = "send" /\ Finish(w, c)
      /\ UNCHANGED <<events, runs, enabled, off>>
  BY DEF Send, db
<1>2. PICK e \in rows[w] : Delivered(w, c, e) \/ Refused(w, e)
  BY DEF Send
<1>3. e \in EventRow
  BY DEF TypeOK
<1>4. PICK y \in {Sent(e), Suppressed(e)} : Replace(w, e, y)
  BY <1>2 DEF Delivered, Refused
<1>5. y.id = e.id /\ y.rule = e.rule /\ y.run = e.run
  BY <1>3 DEF Sent, Suppressed, EventRow
<1>6. /\ rows'[w] = (rows[w] \ {e}) \union {y}
      /\ \A v \in Workers \ {w} : rows'[v] = rows[v]
  BY <1>4 DEF Replace, TypeOK
<1>7. LedgerSettled'
  <2>1. \A f \in rows'[w] : \E g \in Ledger : Alike(f, g)
    BY <1>5, <1>6 DEF Alike, Ledger, InFlight
  <2> QED
    BY <1>1, <1>6, <2>1, LedgerAlike DEF SettleInv
<1>8. \A f \in rows'[w] : \E g \in rows[w] : g.rule = f.rule
  BY <1>5, <1>6
<1>9. \A f \in rows[w] : \E g \in rows'[w] : g.rule = f.rule /\ g.run = f.run
  BY <1>5, <1>6
<1>10. ASSUME Kind[c.rule] = "once" PROVE Recorded(Here(w)', c.rule)
  <2>1. Recorded(Here(w), c.rule)
    BY <1>1, <1>10 DEF SettleInv, WorkerSettles, OffRecorded
  <2>2. \A f \in Here(w) : \E g \in Here(w)' : g.rule = f.rule /\ g.run = f.run
    BY <1>1, <1>9 DEF Here
  <2> QED
    BY <2>1, <2>2, RecordedGrows
<1> QED
  BY <1>1, <1>6, <1>7, <1>8, <1>9, <1>10, SettleFinish

\* create_event_once finds an active row: a settled one is the record of c.
LEMMA SettleLook ==
  ASSUME TypeOK, TransactionsAgree, SettleInv,
         NEW w \in Workers, NEW c \in At(w), Look(w, c)
  PROVE  SettleInv'
<1> DEFINE found == {e \in Visible(w) : Active(e) /\ SameKey(e, c)}
<1>1. /\ pc[w] = "look" /\ UNCHANGED <<events, runs, enabled, rows, off>>
      /\ mem[w] \in Mem
  BY DEF Look, db, TypeOK
<1>2. LedgerSettled'
  BY <1>1, LedgerAlike DEF SettleInv, Ledger, InFlight, Alike
<1>3. ASSUME NEW e \in found, Finish(w, c) PROVE SettleInv'
  BY <1>1, <1>3, SeenRow, SettlePass
<1>4. ASSUME /\ pc'[w] \in {"insert", "reclaim"}
             /\ mem'[w].cands = mem[w].cands /\ mem'[w].seen = mem[w].seen
             /\ \A v \in Workers \ {w} : pc'[v] = pc[v] /\ mem'[v] = mem[v],
             ReclaimsOwn(w)'
      PROVE  SettleInv'
  <2>1. WorkerSettles(w) /\ At(w)' = At(w) /\ Here(w)' = Here(w)
    BY <1>1, <1>4 DEF SettleInv, At, Here
  <2>2. RunHere(w)' /\ OffRecorded(w)' /\ RowsDisabled(w)'
    BY <1>1, <1>4, <2>1
    DEF WorkerSettles, RunHere, OffRecorded, RowsDisabled, Ran
  <2>3. SeenRecorded(w)'
    BY <1>1, <1>4, <2>1 DEF WorkerSettles, SeenRecorded, Pending
  <2>4. WorkerSettles(w)'
    BY <1>4, <2>2, <2>3 DEF WorkerSettles
  <2> QED
    BY <1>1, <1>2, <1>4, <2>4, SettleDelivers
<1>5. CASE Continue(w, "insert")
  <2>1. /\ pc'[w] = "insert" /\ mem'[w] = mem[w]
        /\ \A v \in Workers \ {w} : pc'[v] = pc[v] /\ mem'[v] = mem[v]
    BY <1>5 DEF Continue, TypeOK
  <2> QED
    BY <1>4, <2>1 DEF ReclaimsOwn
<1>6. ASSUME NEW e \in found, ~Settled(e),
             pc' = [pc EXCEPT ![w] = "reclaim"],
             mem' = [mem EXCEPT ![w].hold = e.id]
      PROVE  SettleInv'
  <2>1. ~Final(e)
    BY <1>6 DEF Settled, Final, Active, ActiveStatus
  <2>2. e \in events
    BY <1>1, <2>1 DEF TransactionsAgree, RowsFinal, Visible
  <2>3. /\ pc'[w] = "reclaim" /\ mem'[w].hold = e.id
        /\ mem'[w].cands = mem[w].cands /\ mem'[w].seen = mem[w].seen
        /\ \A v \in Workers \ {w} : pc'[v] = pc[v] /\ mem'[v] = mem[v]
    BY <1>1, <1>6 DEF TypeOK, Mem
  <2>4. \A d \in At(w)' : e.rule = d.rule
    BY <2>3, AtOneRule DEF At, SameKey
  <2>5. ReclaimsOwn(w)'
    BY <1>1, <2>2, <2>3, <2>4 DEF ReclaimsOwn
  <2> QED
    BY <1>4, <2>3, <2>5
<1> QED
  BY <1>3, <1>5, <1>6 DEF Look

\* The next candidate: a twin of it has its row, or its own row comes next.
LEMMA SettleDecide ==
  ASSUME TypeOK, SettleInv, NEW w \in Workers, NEW c \in At(w),
         SkipTwin(w, c) \/ Decide(w, c)
  PROVE  SettleInv'
<1>1. /\ pc[w] = "pick" /\ UNCHANGED <<events, runs, enabled, rows, off>>
      /\ mem[w] \in Mem /\ WorkerSettles(w) /\ c.rule \in Rules
  BY AtOneRule DEF SkipTwin, Decide, db, TypeOK, SettleInv
<1>2. CASE SkipTwin(w, c)
  <2>1. Finish(w, c) /\ <<Twin[c.rule], c.expr>> \in mem[w].seen
    BY <1>2 DEF SkipTwin, TwinDelivered, ScheduledKey
  <2>2. <<Twin[c.rule], c.expr>>[1] = Twin[c.rule]
    OBVIOUS
  <2>3. Kind[c.rule] = "once" => Recorded(Here(w), c.rule)
    BY <1>1, <2>1, <2>2 DEF WorkerSettles, SeenRecorded, Pending
  <2> QED
    BY <1>1, <2>1, <2>3, SettlePass
<1>3. CASE Decide(w, c)
  <2>1. /\ pc'[w] = "look"
        /\ mem'[w].cands = mem[w].cands
        /\ mem'[w].seen \subseteq mem[w].seen \union {ScheduledKey(c)}
        /\ \A v \in Workers \ {w} : pc'[v] = pc[v] /\ mem'[v] = mem[v]
    BY <1>1, <1>3 DEF Decide, TypeOK, Mem
  <2>2. At(w)' = At(w) /\ Here(w)' = Here(w)
    BY <1>1, <2>1 DEF At, Here
  <2>3. RunHere(w)' /\ OffRecorded(w)' /\ RowsDisabled(w)' /\ ReclaimsOwn(w)'
    BY <1>1, <2>1, <2>2
    DEF WorkerSettles, RunHere, OffRecorded, RowsDisabled, ReclaimsOwn, Ran
  <2>4. ScheduledKey(c)[1] = Twin[c.rule]
    BY DEF ScheduledKey
  <2>5. SeenRecorded(w)'
    BY <1>1, <2>1, <2>2, <2>4 DEF WorkerSettles, SeenRecorded, Pending
  <2>6. WorkerSettles(w)'
    BY <2>3, <2>5 DEF WorkerSettles
  <2>7. LedgerSettled'
    BY <1>1, LedgerAlike DEF SettleInv, Ledger, InFlight, Alike
  <2> QED
    BY <1>1, <2>1, <2>6, <2>7, SettleDelivers
<1> QED
  BY <1>2, <1>3

LEMMA SettleReclaim ==
  ASSUME TypeOK, SettleInv, NEW w \in Workers, NEW c \in At(w), Reclaim(w, c)
  PROVE  SettleInv'
<1>1. /\ pc[w] = "reclaim" /\ UNCHANGED <<events, runs, enabled, off>>
  BY DEF Reclaim, db
<1> DEFINE Claimed(e) == [e EXCEPT !.status = "sending", !.claimed = now]
<1>2. PICK e \in events : e.id = mem[w].hold /\ Hold(w, c, Claimed(e))
  BY DEF Reclaim
<1>3. /\ Claimed(e) \in EventRow
      /\ Claimed(e).id = e.id /\ Claimed(e).rule = e.rule
      /\ Claimed(e).run = e.run
  <2>1. e \in EventRow /\ now \in Nat
    BY DEF TypeOK
  <2> QED
    BY <2>1 DEF EventRow, Status, ActiveStatus
<1> HIDE DEF Claimed
<1>4. e.rule = c.rule
  <2>1. PICK f \in events : f.id = mem[w].hold /\ f.rule = c.rule
    BY <1>1 DEF SettleInv, WorkerSettles, ReclaimsOwn
  <2> QED
    BY <1>2, <2>1 DEF SettleInv, LedgerSettled, Ledger, Alike
<1>5. \E f \in Ledger : Alike(Claimed(e), f)
  BY <1>3 DEF Ledger, Alike
<1> QED
  BY <1>1, <1>2, <1>3, <1>4, <1>5, SettleHold

LEMMA SettleInsert ==
  ASSUME TypeOK, TransactionsAgree, SettleInv,
         NEW w \in Workers, NEW c \in At(w), Insert(w, c)
  PROVE  SettleInv'
<1> DEFINE x == [id |-> nextId, rule |-> c.rule, expr |-> c.expr, win |-> c.win,
                 run |-> c.run, status |-> "sending", supp |-> FALSE,
                 sentAt |-> NoTime, created |-> now, claimed |-> now]
<1>1. /\ pc[w] = "insert" /\ UNCHANGED <<events, runs, enabled, off>>
      /\ \/ Taken(w, c, nextId) /\ Finish(w, c) /\ UNCHANGED rows
         \/ Hold(w, c, x)
  BY DEF Insert
<1>2. /\ x \in EventRow
      /\ x.id = nextId /\ x.rule = c.rule /\ x.run = c.run /\ nextId \in Nat
  BY AtOneRule
  DEF TypeOK, Candidate, EventRow, Status, ActiveStatus, NoTime
<1> HIDE DEF x
<1>3. CASE Taken(w, c, nextId) /\ Finish(w, c) /\ UNCHANGED rows
  BY <1>1, <1>3, SeenRow, SettlePass DEF Taken
<1>4. CASE Hold(w, c, x)
  <2>1. x.run # NoRun
    BY <1>2, AtOneRule DEF SettleInv, WorkerSettles, RunHere
  <2>2. \A f \in Ledger : f.id < nextId /\ f.id \in Nat
    BY DEF TransactionsAgree, IdsFresh, Ledger, InFlight, TypeOK, EventRow
  <2>3. \A f \in Ledger : f.id # x.id
    BY <1>2, <2>2
  <2> QED
    BY <1>1, <1>2, <1>4, <2>1, <2>3, SettleHold
<1> QED
  BY <1>1, <1>3, <1>4

LEMMA SettleDisable ==
  ASSUME TypeOK, SettleInv, NEW w \in Workers, NEW c \in At(w), Disable(w, c)
  PROVE  SettleInv'
<1>1. /\ pc[w] = "disable" /\ UNCHANGED <<events, runs, enabled, rows>>
      /\ off'[w] = off[w] \union {c.rule}
      /\ \A v \in Workers \ {w} :
           off'[v] = off[v] /\ pc'[v] = pc[v] /\ mem'[v] = mem[v]
      /\ pc'[w] = "pick" /\ mem'[w] = DropCandidate(mem[w], c)
  BY DEF Disable, db, TypeOK
<1>2. mem'[w].cands \subseteq mem[w].cands /\ mem'[w].seen = mem[w].seen
  BY <1>1 DEF TypeOK, Mem, DropCandidate
<1>3. WorkerSettles(w) /\ Here(w)' = Here(w)
  BY <1>1 DEF SettleInv, Here
<1>4. Recorded(Here(w), c.rule)
  BY <1>1, <1>3 DEF WorkerSettles, OffRecorded
<1>5. RunHere(w)' /\ ReclaimsOwn(w)'
  BY <1>1, <1>2, <1>3 DEF WorkerSettles, RunHere, ReclaimsOwn, Ran
<1>6. OffRecorded(w)'
  BY <1>1, <1>3, <1>4 DEF WorkerSettles, OffRecorded
<1>7. SeenRecorded(w)'
  BY <1>1, <1>2, <1>3 DEF WorkerSettles, SeenRecorded, Pending
<1>8. RowsDisabled(w)'
  BY <1>1, <1>3, AtOneRule DEF WorkerSettles, RowsDisabled
<1>9. WorkerSettles(w)'
  BY <1>5, <1>6, <1>7, <1>8 DEF WorkerSettles
<1>10. LedgerSettled'
  BY <1>1, LedgerAlike DEF SettleInv, Ledger, InFlight, Alike
<1> QED
  BY <1>1, <1>9, <1>10, SettleDelivers

\* Before the delivery: a cycle collects its candidates.
LEMMA SettleClaim ==
  ASSUME TypeOK, SettleInv, NEW w \in Workers,
         \/ ListRules(w)
         \/ ReleaseLock(w) /\ mem[w].due # {}
         \/ \E r \in Rules : CheckDue(w, r)
  PROVE  SettleInv'
<1>1. /\ mem[w] \in Mem
      /\ \A c \in mem[w].cands : Ran(c.rule) /\ c.run # NoRun
  BY DEF TypeOK, SettleInv, WorkerSettles, RunHere
<1>2. /\ UNCHANGED <<events, runs, rows, off, enabled>>
      /\ pc[w] \in {"sleep", "claim"} /\ pc'[w] \in {"claim", "eval"}
      /\ \A v \in Workers \ {w} : pc'[v] = pc[v] /\ mem'[v] = mem[v]
  BY DEF ListRules, ReleaseLock, CheckDue, db, TypeOK
<1>3. mem'[w].cands = mem[w].cands /\ mem'[w].seen = mem[w].seen
  <2>1. CASE ListRules(w)
    BY <1>1, <2>1 DEF ListRules, TypeOK, Mem
  <2>2. CASE ReleaseLock(w) /\ mem[w].due # {}
    <3> DEFINE m == [mem[w] EXCEPT !.todo = mem[w].due, !.due = {}]
    <3>1. mem' = [mem EXCEPT ![w] = m]
      BY <2>2 DEF ReleaseLock
    <3>2. m.cands = mem[w].cands /\ m.seen = mem[w].seen
      BY <1>1 DEF Mem
    <3> HIDE DEF m
    <3> QED
      BY <3>1, <3>2 DEF TypeOK
  <2>3. ASSUME NEW r \in Rules, CheckDue(w, r)
        PROVE  mem'[w].cands = mem[w].cands /\ mem'[w].seen = mem[w].seen
    BY <1>1, <2>3 DEF CheckDue, TypeOK, Mem
  <2> QED
    BY <2>1, <2>2, <2>3
<1>4. \A r : Ran(r) => Ran(r)'
  BY <1>2 DEF Ran
<1> QED
  BY <1>1, <1>2, <1>3, <1>4, SettleLocal DEF DeliveryPc

LEMMA SettleEvaluate ==
  ASSUME TypeOK, SettleInv, NEW w \in Workers, NEW r \in Rules, Evaluate(w, r)
  PROVE  SettleInv'
<1>1. /\ mem[w] \in Mem /\ runs[r] \in Seq(Nat) /\ Len(runs[r]) \in Nat
      /\ \A c \in mem[w].cands : Ran(c.rule) /\ c.run # NoRun
  BY DEF TypeOK, SettleInv, WorkerSettles, RunHere
<1>2. /\ UNCHANGED <<events, rows, off, enabled>>
      /\ pc[w] = "eval" /\ pc'[w] \in {"eval", "pick"}
      /\ \A v \in Workers \ {w} : pc'[v] = pc[v]
  BY DEF Evaluate, TypeOK
<1>3. ASSUME NEW holds \in BOOLEAN, Evaluated(w, r, holds)
      PROVE  SettleInv'
  <2> DEFINE c == [rule |-> r, expr |-> mem[w].snap[r], win |-> WindowOf(now),
                   run |-> Len(runs[r]) + 1]
  <2>1. /\ runs' = [runs EXCEPT ![r] = Append(@, now)]
        /\ mem' = [mem EXCEPT ![w].todo  = @ \ {r},
                              ![w].cands = IF holds THEN @ \union {c} ELSE @]
    BY <1>3 DEF Evaluated
  <2>2. c.rule = r /\ c.run # NoRun
    BY <1>1 DEF NoRun
  <2> HIDE DEF c
  <2>3. /\ mem'[w].cands \subseteq mem[w].cands \union {c}
        /\ mem'[w].seen = mem[w].seen
        /\ \A v \in Workers \ {w} : mem'[v] = mem[v]
    BY <1>1, <2>1 DEF TypeOK, Mem
  <2>4. Append(runs[r], now) # <<>>
    <3>1. now \in Nat
      BY DEF TypeOK
    <3> QED
      BY <1>1, <3>1
  <2>5. (\A q : Ran(q) => Ran(q)') /\ Ran(r)'
    BY <2>1, <2>4 DEF Ran, TypeOK
  <2> QED
    BY <1>1, <1>2, <2>2, <2>3, <2>5, SettleLocal DEF DeliveryPc
<1>4. CASE EvaluationFails(w, r)
  <2>1. /\ UNCHANGED runs
        /\ mem'[w].cands = mem[w].cands /\ mem'[w].seen = mem[w].seen
        /\ \A v \in Workers \ {w} : mem'[v] = mem[v]
    BY <1>1, <1>4 DEF EvaluationFails, TypeOK, Mem
  <2>2. \A q : Ran(q) => Ran(q)'
    BY <2>1 DEF Ran
  <2> QED
    BY <1>1, <1>2, <2>1, <2>2, SettleLocal DEF DeliveryPc
<1> QED
  BY <1>3, <1>4 DEF Evaluate

LEMMA SettleStep ==
  ASSUME TypeOK, TransactionsAgree, SettleInv, [Next]_vars
  PROVE  SettleInv'
<1>1. ASSUME NEW w \in Workers, Step(w) \/ Abort(w) \/ Crash(w)
      PROVE  SettleInv'
  <2>1. FirstRule(mem[w].todo) \subseteq Rules
    BY DEF FirstRule, TypeOK, Mem
  <2>2. CASE \/ LockBusy(w) \/ ReclaimConflicts(w) \/ Abort(w) \/ Crash(w)
             \/ \E r \in Rules : ClaimRaises(w, r)
             \/ ReleaseLock(w) /\ mem[w].due = {}
    <3>1. PICK wake : Idle(w, wake)
      BY <2>2 DEF LockBusy, ReclaimConflicts, Abort, Crash, ClaimRaises,
        ReleaseLock, EndCycle
    <3>2. UNCHANGED <<events, runs, enabled>>
      BY <2>2 DEF LockBusy, ReclaimConflicts, Abort, Crash, ClaimRaises,
        ReleaseLock, db
    <3> QED
      BY <3>1, <3>2, SettleRollback
  <2>3. CASE \E c \in At(w) :
               \/ SkipTwin(w, c) \/ Decide(w, c) \/ Look(w, c) \/ Reclaim(w, c)
               \/ Insert(w, c) \/ Send(w, c) \/ Disable(w, c)
    BY <2>3, SettleDecide, SettleLook, SettleReclaim, SettleInsert, SettleSend,
      SettleDisable
  <2> QED
    BY <1>1, <2>1, <2>2, <2>3, SettleClaim, SettleEvaluate, SettleCommit
    DEF Step, At
<1>2. CASE \/ \E r \in Rules, x \in Exprs : EditRule(r, x)
           \/ Tick \/ Horizon \/ UNCHANGED vars
  BY <1>2, SettleUnchanged DEF EditRule, Tick, Horizon, vars, db, worker
<1> QED
  BY <1>1, <1>2, SettleDelete DEF Next

\* Whatever crashes, aborts or is lost, a once: rule ends in the very commit
\* that records its event, and ends for no other reason than the record of it or
\* of a twin: both are written by one transaction of evaluate_rules.
THEOREM OnceSettledCorrect ==
  ASSUME NoOnceLegacy
  PROVE  Spec => []OnceSettled
<1>1. Init => SettleInv
  BY SettleInit
<1>2. TypeOK /\ TransactionsAgree /\ SettleInv /\ [Next]_vars => SettleInv'
  BY SettleStep
<1>3. TypeOK /\ SettleInv => OnceSettled
  <2> SUFFICES ASSUME TypeOK, SettleInv, NEW r \in live, Kind[r] = "once"
               PROVE  /\ \A e \in events : e.rule = r => ~enabled[r]
                      /\ ~enabled[r] => \E q \in Rules :
                           /\ Twin[q] = Twin[r]
                           /\ \E e \in events : e.rule = q /\ e.run # NoRun
    BY DEF OnceSettled
  <2>1. r \in Rules /\ r # NoRule
    BY ParamAssumption DEF TypeOK
  <2>2. \A e \in events : e.rule # NoRule => e.rule \in Rules
    BY DEF TypeOK, EventRow
  <2> QED
    BY <2>1, <2>2 DEF SettleInv, EnabledSettled, Recorded
<1> QED
  BY <1>1, <1>2, <1>3, TypeCorrect, TransactionsAgreeCorrect, PTL DEF Spec
=============================================================================
