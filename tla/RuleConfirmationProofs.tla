----------------------- MODULE RuleConfirmationProofs -----------------------
(***************************************************************************)
(* What holds of RuleConfirmation for any threads, faults, lifetime and    *)
(* model, obedient or not, but for two theorems that state a hypothesis:   *)
(* UnderstoodConfirmCorrect (Frank) and HistoryPairedCorrect.              *)
(***************************************************************************)
EXTENDS RuleConfirmation, SequenceTheorems, TLAPS

-----------------------------------------------------------------------------
(* Operators on the tables.                                                *)

LEMMA LogType ==
  ASSUME NEW d \in Tables
  PROVE  /\ d.log \in Seq(Effect)
         /\ \A i \in DOMAIN d.log : d.log[i].n \in Nat
<1>1. d.log \in Seq(Effect)
  BY DEF Tables
<1>2. ASSUME NEW i \in DOMAIN d.log PROVE d.log[i] \in Effect
  BY <1>1, <1>2
<1>3. ASSUME NEW i \in DOMAIN d.log PROVE d.log[i].n \in Nat
  BY <1>2, <1>3 DEF Effect
<1> QED
  BY <1>1, <1>3

\* More proposals and later times keep a table tracked.
LEMMA TrackedLater ==
  ASSUME NEW d \in Tables, NEW made \in Nat, NEW time \in Nat,
         NEW more \in Nat, NEW later \in Nat,
         Tracked(d, made, time), made <= more, time <= later
  PROVE  Tracked(d, more, later)
<1>1. \A c \in Contexts : \A p \in d.slot[c] : p.n \in Nat /\ p.at \in Nat
  BY DEF Tables, Proposal
<1>2. \A i \in DOMAIN d.log : d.log[i].n \in Nat
  BY LogType
<1>3. \A n \in d.dropped : n \in Nat
  BY DEF Tables
<1> QED
  BY <1>1, <1>2, <1>3 DEF Tracked

\* Clearing a slot keeps a table tracked: its proposal has found its fate.
LEMMA DropTracked ==
  ASSUME NEW d \in Tables, NEW c \in Contexts, NEW made, NEW time,
         Tracked(d, made, time)
  PROVE  Drop(d, c) \in Tables /\ Tracked(Drop(d, c), made, time)
<1> DEFINE e == Drop(d, c)
<1>1. /\ e.slot = [d.slot EXCEPT ![c] = {}]
      /\ e.dropped = d.dropped \union Numbers(d.slot[c])
      /\ e.log = d.log
  BY DEF Drop, Tables
<1>2. Numbers(d.slot[c]) \subseteq Nat
  BY DEF Numbers, Tables, Proposal
<1>3. e \in Tables
  BY <1>2 DEF Drop, Tables
<1>4. d.slot \in [Contexts -> SUBSET Proposal]
  BY DEF Tables
<1>5. LogNumbers(e) = LogNumbers(d)
  BY <1>1 DEF LogNumbers
<1>6. \A b \in Contexts : e.slot[b] = IF b = c THEN {} ELSE d.slot[b]
  BY <1>1, <1>4
<1>7. Fates(e)
  <2>1. LogNumbers(e) \cap e.dropped = {}
    BY <1>1, <1>5 DEF Tracked, Fates, Numbers
  <2>2. ASSUME NEW b \in Contexts, NEW p \in e.slot[b]
        PROVE  /\ p.n \notin LogNumbers(e) \union e.dropped
               /\ \A a \in Contexts \ {b} : p.n \notin Numbers(e.slot[a])
    <3>1. b # c /\ p \in d.slot[b]
      BY <1>6, <2>2
    <3>2. p.n \notin Numbers(d.slot[c])
      BY <3>1 DEF Tracked, Fates
    <3>3. \A a \in Contexts : Numbers(e.slot[a]) \subseteq Numbers(d.slot[a])
      BY <1>6 DEF Numbers
    <3> QED
      BY <1>1, <1>5, <3>1, <3>2, <3>3 DEF Tracked, Fates
  <2> QED
    BY <1>1, <2>1, <2>2 DEF Tracked, Fates
<1>8. Tracked(e, made, time)
  BY <1>1, <1>6, <1>7 DEF Tracked, Numbers
<1> QED
  BY <1>3, <1>8

\* A new proposal keeps a table tracked, and voids the one it replaces.
LEMMA StoreTracked ==
  ASSUME NEW d \in Tables, NEW c \in Contexts, NEW made \in Nat, NEW time \in Nat,
         NEW p \in Proposal, p.n = made + 1, p.at = time,
         Tracked(d, made, time)
  PROVE  Store(d, c, p) \in Tables /\ Tracked(Store(d, c, p), made + 1, time)
<1> DEFINE e == Store(d, c, p)
           o == Drop(d, c)
<1>1. o \in Tables /\ Tracked(o, made, time)
  BY DropTracked
<1>2. /\ e.slot = [o.slot EXCEPT ![c] = {p}]
      /\ e.dropped = o.dropped
      /\ e.log = o.log
  BY DEF Drop, Store, Tables
<1>3. e \in Tables
  <2>1. Numbers(d.slot[c]) \subseteq Nat
    BY DEF Numbers, Tables, Proposal
  <2> QED
    BY <2>1 DEF Store, Tables
<1>4. Tracked(o, made + 1, time)
  BY <1>1, TrackedLater
<1>5. o.slot \in [Contexts -> SUBSET Proposal]
  BY <1>1 DEF Tables
<1>6. LogNumbers(e) = LogNumbers(o)
  BY <1>2 DEF LogNumbers
<1>7. \A b \in Contexts : e.slot[b] = IF b = c THEN {p} ELSE o.slot[b]
  BY <1>2, <1>5
<1>8. /\ \A b \in Contexts : \A q \in o.slot[b] : q.n # p.n
      /\ p.n \notin LogNumbers(o)
      /\ p.n \notin o.dropped
  <2>1. \A b \in Contexts : \A q \in o.slot[b] : q.n <= made /\ q.n \in Nat
    BY <1>1, <1>5 DEF Tracked, Proposal
  <2>2. \A i \in DOMAIN o.log : o.log[i].n <= made /\ o.log[i].n \in Nat
    BY <1>1, LogType DEF Tracked
  <2>3. \A n \in o.dropped : n <= made /\ n \in Nat
    BY <1>1 DEF Tracked, Tables
  <2> QED
    BY <2>1, <2>2, <2>3 DEF LogNumbers
<1>9. Fates(e)
  <2>1. ASSUME NEW b \in Contexts, NEW q \in e.slot[b]
        PROVE  /\ q.n \notin LogNumbers(e) \union e.dropped
               /\ \A a \in Contexts \ {b} : q.n \notin Numbers(e.slot[a])
    <3>1. CASE b = c
      <4>1. q = p
        BY <1>7, <2>1, <3>1
      <4> QED
        BY <1>2, <1>6, <1>7, <1>8, <3>1, <4>1 DEF Numbers
    <3>2. CASE b # c
      <4>1. q \in o.slot[b]
        BY <1>7, <2>1, <3>2
      <4>2. q.n # p.n
        BY <1>8, <4>1
      <4>3. \A a \in Contexts \ {b} : q.n \notin Numbers(o.slot[a])
        BY <1>1, <4>1 DEF Tracked, Fates
      <4>4. q.n \notin LogNumbers(o) \union o.dropped
        BY <1>1, <4>1 DEF Tracked, Fates
      <4> QED
        BY <1>2, <1>6, <1>7, <4>2, <4>3, <4>4 DEF Numbers
    <3> QED
      BY <3>1, <3>2
  <2> QED
    BY <1>1, <1>2, <1>6, <2>1 DEF Tracked, Fates
<1>10. \A b \in Contexts : \A q, r \in e.slot[b] : q = r
  BY <1>1, <1>7 DEF Tracked
<1>11. \A b \in Contexts : \A q \in e.slot[b] : q.n <= made + 1 /\ q.at <= time
  BY <1>4, <1>7 DEF Tracked
<1> QED
  BY <1>2, <1>3, <1>4, <1>9, <1>10, <1>11 DEF Tracked

\* Executing the proposal in the slot keeps a table tracked: it leaves the slot
\* as it enters the log.
LEMMA ExecuteTracked ==
  ASSUME TypeOK, NEW d \in Tables, NEW c \in Contexts, NEW p \in d.slot[c],
         NEW rules \in SUBSET Rule, ~Older(p.at),
         Tracked(d, proposals, now)
  PROVE  /\ Execute(d, c, p, rules) \in Tables
         /\ Tracked(Execute(d, c, p, rules), proposals, now)
<1> DEFINE e == Execute(d, c, p, rules)
           x == EffectOf(p)
<1>1. p \in Proposal /\ p.n <= proposals /\ p.at <= now
  BY DEF Tracked, Tables
<1>2. x \in Effect /\ x.n = p.n /\ x.age <= Ttl
  <2>1. now - p.at \in Nat /\ now - p.at <= Ttl
    BY <1>1, ConfirmationAssumption DEF TypeOK, Proposal, Older
  <2>2. heard[turn.ctx] \in Nat /\ messages \in Nat
    BY DEF TypeOK, Turn
  <2> QED
    BY <1>1, <2>1, <2>2 DEF EffectOf, Effect, Proposal
<1>3. /\ e.slot = [d.slot EXCEPT ![c] = {}]
      /\ e.dropped = d.dropped
      /\ e.log = Append(d.log, x)
  BY DEF Execute, Tables
<1>4. d.slot \in [Contexts -> SUBSET Proposal] /\ d.log \in Seq(Effect)
  BY DEF Tables
<1>5. Append(d.log, x) \in Seq(Effect)
  BY <1>2, <1>4
<1>6. e \in Tables
  <2>1. [d.slot EXCEPT ![c] = {}] \in [Contexts -> SUBSET Proposal]
    BY <1>4
  <2> QED
    BY <1>5, <2>1 DEF Execute, Tables
<1>7. /\ DOMAIN e.log = 1 .. Len(d.log) + 1
      /\ DOMAIN d.log = 1 .. Len(d.log)
      /\ Len(d.log) \in Nat
      /\ e.log[Len(d.log) + 1] = x
      /\ \A i \in DOMAIN d.log : e.log[i] = d.log[i]
  BY <1>2, <1>3, <1>4
<1>8. LogNumbers(e) = LogNumbers(d) \union {p.n}
  <2>1. LogNumbers(e) \subseteq LogNumbers(d) \union {p.n}
    BY <1>2, <1>7 DEF LogNumbers
  <2>2. LogNumbers(d) \union {p.n} \subseteq LogNumbers(e)
    BY <1>2, <1>7 DEF LogNumbers
  <2> QED
    BY <2>1, <2>2
<1>9. p.n \notin LogNumbers(d) /\ p.n \notin d.dropped
  BY DEF Tracked, Fates
<1>10. \A b \in Contexts : e.slot[b] = IF b = c THEN {} ELSE d.slot[b]
  BY <1>3, <1>4
<1>11. Fates(e)
  <2>1. ASSUME NEW i \in DOMAIN e.log, NEW j \in DOMAIN e.log,
               e.log[i].n = e.log[j].n
        PROVE  i = j
    <3>1. \A k \in DOMAIN d.log : d.log[k].n # p.n
      BY <1>9 DEF LogNumbers
    <3>2. CASE i \in DOMAIN d.log /\ j \in DOMAIN d.log
      BY <1>7, <2>1, <3>2 DEF Tracked, Fates
    <3>3. CASE i \notin DOMAIN d.log \/ j \notin DOMAIN d.log
      BY <1>2, <1>7, <2>1, <3>1, <3>3
    <3> QED
      BY <3>2, <3>3
  <2>2. LogNumbers(e) \cap e.dropped = {}
    BY <1>3, <1>8, <1>9 DEF Tracked, Fates
  <2>3. ASSUME NEW b \in Contexts, NEW q \in e.slot[b]
        PROVE  /\ q.n \notin LogNumbers(e) \union e.dropped
               /\ \A a \in Contexts \ {b} : q.n \notin Numbers(e.slot[a])
    <3>1. b # c /\ q \in d.slot[b]
      BY <1>10, <2>3
    <3>2. q.n \notin Numbers(d.slot[c])
      BY <3>1 DEF Tracked, Fates
    <3>3. q.n # p.n
      BY <3>2 DEF Numbers
    <3>4. \A a \in Contexts : Numbers(e.slot[a]) \subseteq Numbers(d.slot[a])
      BY <1>10 DEF Numbers
    <3>5. q.n \notin LogNumbers(d) \union d.dropped
      BY <3>1 DEF Tracked, Fates
    <3>6. \A a \in Contexts \ {b} : q.n \notin Numbers(d.slot[a])
      BY <3>1 DEF Tracked, Fates
    <3>7. \A a \in Contexts \ {b} : q.n \notin Numbers(e.slot[a])
      BY <3>4, <3>6
    <3> HIDE DEF e, x
    <3> QED
      BY <1>3, <1>8, <3>3, <3>5, <3>7
  <2> QED
    BY <2>1, <2>2, <2>3 DEF Fates
<1>12. \A i \in DOMAIN e.log : e.log[i].n <= proposals /\ e.log[i].age <= Ttl
  BY <1>1, <1>2, <1>7 DEF Tracked
<1> QED
  BY <1>3, <1>6, <1>10, <1>11, <1>12 DEF Tracked

\* Tracked looks at the slots, the log and the dropped proposals only.
LEMMA FrameTracked ==
  ASSUME NEW d \in Tables, NEW e \in Tables, NEW made, NEW time,
         Tracked(d, made, time),
         e.slot = d.slot, e.log = d.log, e.dropped = d.dropped
  PROVE  Tracked(e, made, time)
BY DEF Tracked, Fates, LogNumbers

LEMMA LoadedTracked ==
  ASSUME NEW d \in Tables, NEW c \in Contexts, NEW made, NEW time,
         Tracked(d, made, time)
  PROVE  Loaded(d, c) \in Tables /\ Tracked(Loaded(d, c), made, time)
<1>1. Loaded(d, c) \in Tables
  <2>1. [d.history EXCEPT ![c] = <<>>]
          \in [Contexts -> Seq([by : {"user", "bot"}, turn : Nat])]
    BY DEF Tables
  <2>2. [d.savedAt EXCEPT ![c] = 0] \in [Contexts -> Nat]
    BY DEF Tables
  <2> QED
    BY <2>1, <2>2 DEF Loaded, Tables
<1>2. /\ Loaded(d, c).slot = d.slot
      /\ Loaded(d, c).log = d.log
      /\ Loaded(d, c).dropped = d.dropped
  BY DEF Loaded, Tables
<1> QED
  BY <1>1, <1>2, FrameTracked

LEMMA CheckedTracked ==
  ASSUME NEW d \in Tables, NEW c \in Contexts, NEW made, NEW time,
         Tracked(d, made, time)
  PROVE  Checked(d, c) \in Tables /\ Tracked(Checked(d, c), made, time)
BY DropTracked DEF Checked

\* Trimming a history leaves a history.
LEMMA NewestType ==
  ASSUME NEW S, NEW s \in Seq(S)
  PROVE  Newest(s) \in Seq(S)
<1>1. CASE Len(s) > MaxHistory
  <2>1. /\ Len(s) - MaxHistory + 1 \in Int
        /\ Len(s) \in Int
        /\ Len(s) - MaxHistory + 1 >= 1
    BY <1>1, ConfirmationAssumption
  <2>2. \A i \in Len(s) - MaxHistory + 1 .. Len(s) : s[i] \in S
    BY <2>1
  <2>3. SubSeq(s, Len(s) - MaxHistory + 1, Len(s)) \in Seq(S)
    BY <2>1, <2>2, SubSeqProperties
  <2> QED
    BY <1>1, <2>3 DEF Newest
<1>2. CASE ~(Len(s) > MaxHistory)
  BY <1>2 DEF Newest
<1> QED
  BY <1>1, <1>2

LEMMA SavedTracked ==
  ASSUME TypeOK, NEW d \in Tables, NEW c \in Contexts, NEW made, NEW time,
         Tracked(d, made, time)
  PROVE  Saved(d, c) \in Tables /\ Tracked(Saved(d, c), made, time)
<1> DEFINE S == [by : {"user", "bot"}, turn : Nat]
<1>1. d.history \in [Contexts -> Seq(S)]
  BY DEF Tables
<1>2. Remember(d.history[c]) \in Seq(S)
  <2>1. /\ [by |-> "user", turn |-> messages] \in S
        /\ [by |-> "bot", turn |-> messages] \in S
    BY DEF TypeOK
  <2>2. Append(d.history[c], [by |-> "user", turn |-> messages]) \in Seq(S)
    BY <1>1, <2>1
  <2>3. Newest(Append(d.history[c], [by |-> "user", turn |-> messages])) \in Seq(S)
    BY <2>2, NewestType
  <2>4. Append(Newest(Append(d.history[c], [by |-> "user", turn |-> messages])),
               [by |-> "bot", turn |-> messages]) \in Seq(S)
    BY <2>1, <2>3
  <2> QED
    BY <2>4, NewestType DEF Remember
<1>3. Saved(d, c) \in Tables
  <2>1. [d.history EXCEPT ![c] = Remember(@)] \in [Contexts -> Seq(S)]
    BY <1>1, <1>2
  <2>2. now \in Nat
    BY DEF TypeOK
  <2> QED
    BY <2>1, <2>2 DEF Saved, Tables
<1>4. /\ Saved(d, c).slot = d.slot
      /\ Saved(d, c).log = d.log
      /\ Saved(d, c).dropped = d.dropped
  BY DEF Saved, Tables
<1> QED
  BY <1>3, <1>4, FrameTracked

-----------------------------------------------------------------------------
(* The tools.                                                              *)

IInv == TypeOK /\ ProposalsTracked

LEMMA CreateTracked ==
  ASSUME IInv, NEW c \in Contexts, NEW p \in Pending(c), Create(c, p)
  PROVE  tx' \in Tables /\ Tracked(tx', proposals, now) /\ ruleIds' \in Nat
<1> DEFINE r == [id |-> ruleIds + 1, from |-> p.n, ctx |-> c, expr |-> p.expr,
                 scheduled |-> p.kind = "schedule", edited |-> FALSE]
<1>1. tx \in Tables /\ p \in tx.slot[c] /\ ~Older(p.at) /\ p \in Proposal
  BY DEF IInv, TypeOK, Pending, Tables
<1>2. r \in Rule
  BY <1>1 DEF IInv, TypeOK, Rule, Proposal
<1>3. tx.rules \union {r} \in SUBSET Rule
  BY <1>1, <1>2 DEF Tables
<1> QED
  BY <1>1, <1>3, ExecuteTracked DEF Create, IInv, TypeOK, ProposalsTracked

LEMMA ConfirmTracked ==
  ASSUME IInv, NEW c \in Contexts, Confirm(c)
  PROVE  tx' \in Tables /\ Tracked(tx', proposals, now) /\ ruleIds' \in Nat
<1>1. tx \in Tables /\ Tracked(tx, proposals, now) /\ ruleIds \in Nat
  BY DEF IInv, TypeOK, ProposalsTracked
<1>2. CASE ConfirmNothing(c)
  BY <1>1, <1>2, CheckedTracked DEF ConfirmNothing
<1>3. ASSUME NEW p \in Pending(c),
             \/ ConfirmCreate(c, p)
             \/ ConfirmSchedule(c, p)
             \/ ConfirmEdit(c, p)
             \/ ConfirmUnlocated(p)
             \/ ConfirmDelete(c, p)
      PROVE  tx' \in Tables /\ Tracked(tx', proposals, now) /\ ruleIds' \in Nat
  <2>1. p \in tx.slot[c] /\ ~Older(p.at) /\ p \in Proposal
    BY <1>1 DEF Pending, Tables
  <2>2. tx.rules \in SUBSET Rule
    BY <1>1 DEF Tables
  <2>3. CASE ConfirmCreate(c, p)
    BY <2>3, CreateTracked DEF ConfirmCreate
  <2>4. CASE ConfirmSchedule(c, p)
    BY <1>1, <2>1, <2>2, <2>4, CreateTracked, ExecuteTracked
    DEF ConfirmSchedule, IInv
  <2>5. CASE ConfirmEdit(c, p)
    <3>1. {IF r.id = p.target
             THEN [r EXCEPT !.expr = p.expr, !.edited = TRUE]
             ELSE r : r \in tx.rules} \in SUBSET Rule
      <4>1. p.expr \in Exprs
        BY <2>1 DEF Proposal
      <4>2. ASSUME NEW r \in Rule
            PROVE  [r EXCEPT !.expr = p.expr, !.edited = TRUE] \in Rule
        BY <4>1 DEF Rule
      <4> QED
        BY <2>2, <4>2
    <3> QED
      BY <1>1, <2>1, <2>5, <3>1, ExecuteTracked DEF ConfirmEdit, IInv
  <2>6. CASE ConfirmUnlocated(p)
    BY <1>1, <2>6 DEF ConfirmUnlocated
  <2>7. CASE ConfirmDelete(c, p)
    <3>1. {r \in tx.rules : r.id # p.target} \in SUBSET Rule
      BY <2>2
    <3> QED
      BY <1>1, <2>1, <2>7, <3>1, ExecuteTracked, DropTracked
      DEF ConfirmDelete, IInv
  <2> QED
    BY <1>3, <2>3, <2>4, <2>5, <2>6, <2>7
<1> QED
  BY <1>2, <1>3 DEF Confirm

LEMMA CancelTracked ==
  ASSUME IInv, NEW c \in Contexts, Cancel(c)
  PROVE  tx' \in Tables /\ Tracked(tx', proposals, now) /\ ruleIds' \in Nat
BY DropTracked DEF Cancel, IInv, TypeOK, ProposalsTracked

-----------------------------------------------------------------------------
(* Every step keeps the invariant.                                         *)

LEMMA InvInit == Init => IInv
<1> SUFFICES ASSUME Init PROVE IInv
  OBVIOUS
<1>1. db \in Tables
  BY DEF Init, Tables
<1>2. turn \in Turn
  BY DEF Init, NewTurn, Turn, Words, Phases
<1>3. Tracked(db, proposals, now)
  BY DEF Init, Tracked, Fates, LogNumbers, Numbers
<1>4. TypeOK
  BY <1>1, <1>2 DEF Init, TypeOK
<1> QED
  BY <1>3, <1>4 DEF Init, IInv, ProposalsTracked

\* What is left to show of a step that leaves the worker's columns alone.
LEMMA InvStep ==
  ASSUME IInv,
         now' = now, evaluated' = evaluated, disabled' = disabled,
         db' \in Tables, tx' \in Tables, turn' \in Turn,
         heard' \in [Contexts -> Nat],
         proposals' \in Nat, ruleIds' \in Nat, messages' \in Nat,
         Tracked(db', proposals', now), Tracked(tx', proposals', now)
  PROVE  IInv'
<1>1. \A c \in Contexts : \A p, q \in db'.slot[c] : p = q
  BY DEF Tracked
<1>2. TypeOK'
  BY <1>1 DEF IInv, TypeOK
<1>3. ProposalsTracked'
  BY DEF ProposalsTracked, Tracked, Fates, LogNumbers, Numbers
<1> QED
  BY <1>2, <1>3 DEF IInv

LEMMA NewTurnType ==
  ASSUME NEW c \in Contexts, NEW word \in Words, NEW phase \in Phases
  PROVE  NewTurn(c, word, phase) \in Turn
BY DEF NewTurn, Turn

LEMMA RoundType ==
  ASSUME NEW t \in Turn
  PROVE  /\ [t EXCEPT !.rounds = @ + 1] \in Turn
         /\ [t EXCEPT !.rounds = @ + 1, !.aborted = TRUE] \in Turn
<1>1. t.rounds + 1 \in Nat
  BY DEF Turn
<1>2. [t EXCEPT !.rounds = t.rounds + 1] \in Turn
  BY <1>1 DEF Turn
<1>3. [t EXCEPT !.rounds = t.rounds + 1, !.aborted = TRUE] \in Turn
  BY <1>1 DEF Turn
<1> QED
  BY <1>2, <1>3

LEMMA OfferType ==
  ASSUME NEW t \in Turn, NEW n \in Nat
  PROVE  [t EXCEPT !.rounds = @ + 1, !.offered = n + 1] \in Turn
<1>1. t.rounds + 1 \in Nat /\ n + 1 \in Nat
  BY DEF Turn
<1> QED
  BY <1>1 DEF Turn

LEMMA EndTurnInv ==
  ASSUME IInv, EndTurn
  PROVE  /\ tx' \in Tables
         /\ turn' \in Turn
         /\ Tracked(tx', proposals, now)
BY DEF IInv, TypeOK, ProposalsTracked, EndTurn, NewTurn, Turn, Words, Phases

LEMMA ReceiveInv ==
  ASSUME IInv, NEW c \in Contexts, NEW word \in Words, Receive(c, word)
  PROVE  IInv'
<1>1. /\ db \in Tables
      /\ Tracked(db, proposals, now)
  BY DEF IInv, TypeOK, ProposalsTracked
<1>2. Checked(db, c) \in Tables /\ Tracked(Checked(db, c), proposals, now)
  BY <1>1, CheckedTracked
<1>3. tx' \in Tables /\ Tracked(tx', proposals, now)
  BY <1>1, <1>2, LoadedTracked DEF Receive
<1>4. turn' \in Turn
  BY NewTurnType DEF Receive, Phases
<1>5. messages' \in Nat
  BY DEF Receive, IInv, TypeOK
<1>6. /\ now' = now /\ evaluated' = evaluated /\ disabled' = disabled
      /\ db' = db /\ heard' = heard /\ proposals' = proposals
      /\ ruleIds' = ruleIds
  BY DEF Receive
<1>7. /\ heard \in [Contexts -> Nat] /\ proposals \in Nat /\ ruleIds \in Nat
  BY DEF IInv, TypeOK
<1> QED
  BY <1>1, <1>3, <1>4, <1>5, <1>6, <1>7, InvStep

LEMMA ProposeInv ==
  ASSUME IInv, NEW kind \in Kinds, NEW expr \in Exprs, NEW target \in Nat,
         NEW located \in BOOLEAN, Propose(kind, expr, target, located)
  PROVE  IInv'
<1> DEFINE p == [n |-> proposals + 1, kind |-> kind, expr |-> expr,
                 target |-> target, located |-> located, at |-> now]
<1>1. /\ db \in Tables /\ tx \in Tables /\ turn \in Turn
      /\ proposals \in Nat /\ now \in Nat /\ messages \in Nat
      /\ heard \in [Contexts -> Nat] /\ ruleIds \in Nat
      /\ Tracked(db, proposals, now) /\ Tracked(tx, proposals, now)
  BY DEF IInv, TypeOK, ProposalsTracked
<1>2. p \in Proposal /\ p.n = proposals + 1 /\ p.at = now
  BY <1>1 DEF Proposal
<1>3. turn.ctx \in Contexts
  BY <1>1 DEF Turn
<1>4. /\ Store(tx, turn.ctx, p) \in Tables
      /\ Tracked(Store(tx, turn.ctx, p), proposals + 1, now)
  BY <1>1, <1>2, <1>3, StoreTracked
<1>5. Tracked(db, proposals + 1, now)
  BY <1>1, TrackedLater
<1>6. /\ now' = now /\ evaluated' = evaluated /\ disabled' = disabled
      /\ db' = db /\ heard' = heard /\ ruleIds' = ruleIds
      /\ messages' = messages
      /\ proposals' = proposals + 1
      /\ tx' = Store(tx, turn.ctx, p)
      /\ turn' = [turn EXCEPT !.rounds = @ + 1, !.offered = proposals + 1]
  BY DEF Propose
<1>7. turn' \in Turn
  BY <1>1, <1>6, OfferType
<1> HIDE DEF p
<1> QED
  BY <1>1, <1>4, <1>5, <1>6, <1>7, InvStep

LEMMA NextInv == IInv /\ [Next]_vars => IInv'
<1> SUFFICES ASSUME IInv, [Next]_vars PROVE IInv'
  OBVIOUS
<1>1. /\ db \in Tables /\ tx \in Tables /\ turn \in Turn
      /\ proposals \in Nat /\ now \in Nat /\ messages \in Nat
      /\ heard \in [Contexts -> Nat] /\ ruleIds \in Nat
      /\ Tracked(db, proposals, now) /\ Tracked(tx, proposals, now)
  BY DEF IInv, TypeOK, ProposalsTracked
<1>2. turn.ctx \in Contexts
  BY <1>1 DEF Turn
<1>3. ASSUME NEW c \in Contexts, NEW word \in Words, Receive(c, word)
      PROVE  IInv'
  BY <1>3, ReceiveInv
<1>4. ASSUME NEW kind \in Kinds, NEW expr \in Exprs, NEW located \in BOOLEAN,
             ProposeNew(kind, expr, located)
      PROVE  IInv'
  BY <1>4, ProposeInv DEF ProposeNew, NoRule
<1>5. ASSUME NEW id \in Ids(tx)
      PROVE  id \in Nat
  BY <1>1, <1>5 DEF Ids, Tables, Rule
<1>6. ASSUME NEW expr \in Exprs, NEW id \in 0..ruleIds, NEW located \in BOOLEAN,
             ProposeEdit(expr, id, located)
      PROVE  IInv'
  <2>1. Propose("edit", expr, id, located)
    BY <1>6 DEF ProposeEdit
  <2>2. "edit" \in Kinds /\ id \in Nat
    BY <1>1, <1>6 DEF Kinds
  <2> QED
    BY <2>1, <2>2, ProposeInv
<1>7. ASSUME NEW id \in Ids(tx), ProposeDelete(id)
      PROVE  IInv'
  <2>1. PICK r \in tx.rules : Propose("delete", r.expr, id, FALSE)
    BY <1>7 DEF ProposeDelete
  <2>2. "delete" \in Kinds /\ id \in Nat /\ r.expr \in Exprs
    BY <1>1, <1>5, <1>7 DEF Kinds, Tables, Rule
  <2> QED
    BY <2>1, <2>2, ProposeInv
<1>8. CASE AgentConfirm
  <2>1. tx' \in Tables /\ Tracked(tx', proposals, now) /\ ruleIds' \in Nat
    BY <1>1, <1>2, <1>8, ConfirmTracked DEF AgentConfirm
  <2>2. turn' \in Turn
    BY <1>1, <1>8, RoundType DEF AgentConfirm
  <2> QED
    BY <1>1, <1>8, <2>1, <2>2, InvStep DEF AgentConfirm
<1>9. CASE AgentCancel
  <2>1. tx' \in Tables /\ Tracked(tx', proposals, now) /\ ruleIds' \in Nat
    BY <1>2, <1>9, CancelTracked DEF AgentCancel
  <2>2. turn' \in Turn
    BY <1>1, <1>9, RoundType DEF AgentCancel
  <2> QED
    BY <1>1, <1>9, <2>1, <2>2, InvStep DEF AgentCancel
<1>10. CASE Answer
  <2>1. turn' \in Turn
    BY <1>1, <1>10 DEF Answer, Turn, Phases
  <2> QED
    BY <1>1, <1>10, <2>1, InvStep DEF Answer
<1>11. CASE AgentFails
  <2>1. turn' \in Turn
    <3>1. [turn EXCEPT !.retried = TRUE, !.rounds = 0, !.offered = 0] \in Turn
      BY <1>1 DEF Turn
    <3>2. [turn EXCEPT !.phase = "save", !.shows = FALSE] \in Turn
      BY <1>1 DEF Turn, Phases
    <3> QED
      BY <1>11, <3>1, <3>2 DEF AgentFails
  <2> QED
    BY <1>1, <1>11, <2>1, InvStep DEF AgentFails
<1>12. CASE DirectConfirm
  <2>1. tx' \in Tables /\ Tracked(tx', proposals, now) /\ ruleIds' \in Nat
    BY <1>2, <1>12, ConfirmTracked DEF DirectConfirm
  <2>2. turn' \in Turn
    BY <1>1, <1>12 DEF DirectConfirm, Turn, Phases
  <2> QED
    BY <1>1, <1>12, <2>1, <2>2, InvStep DEF DirectConfirm
<1>13. CASE DirectCancel
  <2>1. tx' \in Tables /\ Tracked(tx', proposals, now) /\ ruleIds' \in Nat
    BY <1>2, <1>13, CancelTracked DEF DirectCancel
  <2>2. turn' \in Turn
    BY <1>1, <1>13 DEF DirectCancel, Turn, Phases
  <2> QED
    BY <1>1, <1>13, <2>1, <2>2, InvStep DEF DirectCancel
<1>14. CASE DirectConfirmRaises
  BY <1>1, <1>14, EndTurnInv, InvStep DEF DirectConfirmRaises
<1>15. CASE Save
  <2>1. Saved(tx, turn.ctx) \in Tables
        /\ Tracked(Saved(tx, turn.ctx), proposals, now)
    BY <1>1, <1>2, SavedTracked DEF IInv
  <2>2. /\ db' \in Tables /\ Tracked(db', proposals, now)
        /\ tx' = db'
    BY <1>1, <1>15, <2>1 DEF Save
  <2>3. turn' \in Turn
    BY <1>1, <1>15 DEF Save, Turn, Phases
  <2> QED
    BY <1>1, <1>15, <2>2, <2>3, InvStep DEF Save
<1>16. CASE Reply
  <2>1. heard' \in [Contexts -> Nat]
    BY <1>1, <1>16 DEF Reply, Turn
  <2> QED
    BY <1>1, <1>16, <2>1, EndTurnInv, InvStep DEF Reply
<1>17. CASE SessionLost
  BY <1>1, <1>17, EndTurnInv, InvStep DEF SessionLost
<1>18. CASE Crash
  BY <1>1, <1>18, EndTurnInv, InvStep DEF Crash
<1>19. ASSUME NEW id \in Ids(db), WorkerEvaluates(id) \/ WorkerDisables(id)
       PROVE  IInv'
  <2>1. id \in Nat
    BY <1>1, <1>19 DEF Ids, Tables, Rule
  <2>2. TypeOK'
    BY <1>19, <2>1 DEF IInv, TypeOK, WorkerEvaluates, WorkerDisables
  <2>3. ProposalsTracked'
    BY <1>1, <1>19
    DEF ProposalsTracked, Tracked, Fates, LogNumbers, Numbers,
        WorkerEvaluates, WorkerDisables
  <2> QED
    BY <2>2, <2>3 DEF IInv
<1>20. CASE Tick
  <2>1. TypeOK'
    BY <1>20 DEF IInv, TypeOK, Tick
  <2>2. Tracked(db, proposals, now + 1) /\ Tracked(tx, proposals, now + 1)
    BY <1>1, TrackedLater
  <2>3. ProposalsTracked'
    BY <1>20, <2>2
    DEF ProposalsTracked, Tracked, Fates, LogNumbers, Numbers, Tick
  <2> QED
    BY <2>1, <2>3 DEF IInv
<1>21. CASE UNCHANGED vars
  BY <1>21
  DEF IInv, TypeOK, ProposalsTracked, Tracked, Fates, LogNumbers, Numbers, vars
<1> QED
  BY <1>3, <1>4, <1>6, <1>7, <1>8, <1>9, <1>10, <1>11, <1>12, <1>13, <1>14,
     <1>15, <1>16, <1>17, <1>18, <1>19, <1>20, <1>21 DEF Next, Silence

-----------------------------------------------------------------------------
(* The theorems.                                                           *)

LEMMA IInvCorrect == Spec => []IInv
BY InvInit, NextInv, PTL DEF Spec

\* Every value the conversation computes has its type, and a slot of the
\* committed context holds at most one pending confirmation.
THEOREM ConfirmationTypeCorrect == Spec => []TypeOK
<1>1. IInv => TypeOK
  BY DEF IInv
<1> QED
  BY <1>1, IInvCorrect, PTL

\* The bookkeeping of the committed tables and of the open transaction agrees
\* with every proposal ever made.
THEOREM ProposalsTrackedCorrect == Spec => []ProposalsTracked
<1>1. IInv => ProposalsTracked
  BY DEF IInv
<1> QED
  BY <1>1, IInvCorrect, PTL

\* A proposal is executed at most once, and never after it was cancelled,
\* replaced or found expired, whatever fails in between.
THEOREM OneFateCorrect == Spec => []OneFate
<1>1. IInv => OneFate
  BY DEF IInv, ProposalsTracked, Tracked, OneFate
<1> QED
  BY <1>1, IInvCorrect, PTL

\* No proposal is executed after its lifetime.
THEOREM NothingStaleCorrect == Spec => []NothingStale
<1>1. IInv => NothingStale
  BY DEF IInv, ProposalsTracked, Tracked, NothingStale
<1> QED
  BY <1>1, IInvCorrect, PTL

-----------------------------------------------------------------------------
(* The rules and the proposals they come from.                             *)

\* OneRulePerProposal of the committed tables and of the transaction's, whose rules
\* have had their ids from the sequence.
Sourced(d, ids) ==
  /\ \A r, q \in d.rules : r.from = q.from \/ r.id = q.id => r = q
  /\ \A r \in d.rules : r.from \in LogNumbers(d) /\ r.id <= ids

RInv == IInv /\ Sourced(db, ruleIds) /\ Sourced(tx, ruleIds)

\* A longer log and a longer sequence do no harm.
LEMMA SourcedLater ==
  ASSUME NEW d \in Tables, NEW e, NEW ids \in Nat, NEW more \in Nat, ids <= more,
         Sourced(d, ids), e.rules \subseteq d.rules, LogNumbers(d) \subseteq LogNumbers(e)
  PROVE  Sourced(e, more)
<1>1. \A r \in d.rules : r.id \in Nat
  BY DEF Tables, Rule
<1> QED
  BY <1>1 DEF Sourced

\* What only touches slots and histories.
LEMMA UntouchedRules ==
  ASSUME NEW d \in Tables, NEW e, NEW c \in Contexts,
         \/ e = Drop(d, c)
         \/ \E p : e = Store(d, c, p)
         \/ e = Loaded(d, c)
         \/ e = Checked(d, c)
         \/ e = Saved(d, c)
  PROVE  e.rules = d.rules /\ LogNumbers(e) = LogNumbers(d)
<1>1. CASE e = Drop(d, c)
  BY <1>1 DEF Drop, Tables, LogNumbers
<1>2. CASE \E p : e = Store(d, c, p)
  <2>1. PICK p : e = Store(d, c, p)
    BY <1>2
  <2>2. e.rules = d.rules /\ e.log = d.log
    BY <2>1 DEF Store, Tables
  <2> QED
    BY <2>2 DEF LogNumbers
<1>3. CASE e = Loaded(d, c)
  BY <1>3 DEF Loaded, Tables, LogNumbers
<1>4. CASE e = Checked(d, c)
  BY <1>1, <1>4 DEF Checked
<1>5. CASE e = Saved(d, c)
  BY <1>5 DEF Saved, Tables, LogNumbers
<1> QED
  BY <1>1, <1>2, <1>3, <1>4, <1>5

\* An execution puts its proposal, and no other, in the log.
LEMMA ExecutedLog ==
  ASSUME IInv, NEW c \in Contexts, NEW p \in Pending(c), NEW rules,
         NEW e, e = Execute(tx, c, p, rules)
  PROVE  /\ e.rules = rules
         /\ LogNumbers(e) = LogNumbers(tx) \union {p.n}
         /\ p.n \notin LogNumbers(tx)
<1> DEFINE x == EffectOf(p)
<1>1. tx \in Tables /\ p \in tx.slot[c] /\ Fates(tx)
  BY DEF IInv, TypeOK, ProposalsTracked, Tracked, Pending
<1>2. tx.log \in Seq(Effect)
  BY <1>1 DEF Tables
<1>3. e.rules = rules /\ e.log = Append(tx.log, x)
  BY <1>1 DEF Execute, Tables
<1>4. x.n = p.n
  BY DEF EffectOf
<1> HIDE DEF x
<1>5. /\ DOMAIN e.log = 1 .. Len(tx.log) + 1
      /\ DOMAIN tx.log = 1 .. Len(tx.log)
      /\ Len(tx.log) \in Nat
      /\ e.log[Len(tx.log) + 1] = x
      /\ \A i \in DOMAIN tx.log : e.log[i] = tx.log[i]
  BY <1>2, <1>3
<1>6. LogNumbers(e) \subseteq LogNumbers(tx) \union {p.n}
  BY <1>4, <1>5 DEF LogNumbers
<1>7. LogNumbers(tx) \union {p.n} \subseteq LogNumbers(e)
  BY <1>4, <1>5 DEF LogNumbers
<1> QED
  BY <1>1, <1>3, <1>6, <1>7 DEF Fates

\* A new rule has a proposal that has no rule yet, and a new id.
LEMMA CreateSourced ==
  ASSUME IInv, Sourced(tx, ruleIds), NEW c \in Contexts, NEW p \in Pending(c), Create(c, p)
  PROVE  Sourced(tx', ruleIds') /\ ruleIds <= ruleIds'
<1> DEFINE r == [id |-> ruleIds + 1, from |-> p.n, ctx |-> c, expr |-> p.expr,
                 scheduled |-> p.kind = "schedule", edited |-> FALSE]
<1>1. tx' = Execute(tx, c, p, tx.rules \union {r}) /\ ruleIds' = ruleIds + 1
  BY DEF Create
<1>2. r.id = ruleIds + 1 /\ r.from = p.n
  OBVIOUS
<1> HIDE DEF r
<1>3. /\ tx'.rules = tx.rules \union {r}
      /\ LogNumbers(tx') = LogNumbers(tx) \union {p.n}
      /\ p.n \notin LogNumbers(tx)
  BY <1>1, ExecutedLog
<1>4. ruleIds \in Nat /\ \A q \in tx.rules : q.id \in Nat
  BY DEF IInv, TypeOK, Tables, Rule
<1>5. \A q \in tx'.rules : q.from \in LogNumbers(tx') /\ q.id <= ruleIds'
  <2>1. ruleIds' = ruleIds + 1
    BY <1>1
  <2>2. \A q \in tx.rules : q.from \in LogNumbers(tx) /\ q.id <= ruleIds
    BY DEF Sourced
  <2>3. \A q \in tx.rules : q.id <= ruleIds'
    BY <1>4, <2>1, <2>2
  <2>4. r.id <= ruleIds'
    BY <1>2, <1>4, <2>1
  <2> QED
    BY <1>2, <1>3, <2>2, <2>3, <2>4
<1>6. \A q \in tx.rules : q.id # r.id /\ q.from # r.from
  BY <1>2, <1>3, <1>4 DEF Sourced
<1>7. \A q, o \in tx'.rules : q.from = o.from \/ q.id = o.id => q = o
  BY <1>3, <1>6 DEF Sourced
<1>8. ruleIds <= ruleIds'
  BY <1>1, <1>4
<1> QED
  BY <1>5, <1>7, <1>8 DEF Sourced

LEMMA ConfirmSourced ==
  ASSUME IInv, Sourced(tx, ruleIds), NEW c \in Contexts, Confirm(c)
  PROVE  Sourced(tx', ruleIds') /\ ruleIds <= ruleIds'
<1>1. tx \in Tables /\ ruleIds \in Nat /\ \A q \in tx.rules : q.id \in Nat
  BY DEF IInv, TypeOK, Tables, Rule
<1>2. ASSUME tx'.rules \subseteq tx.rules, LogNumbers(tx) \subseteq LogNumbers(tx'),
             UNCHANGED ruleIds
      PROVE  Sourced(tx', ruleIds') /\ ruleIds <= ruleIds'
  BY <1>1, <1>2, SourcedLater
<1>3. CASE ConfirmNothing(c)
  <2>1. tx'.rules = tx.rules /\ LogNumbers(tx') = LogNumbers(tx) /\ UNCHANGED ruleIds
    BY <1>1, <1>3, UntouchedRules DEF ConfirmNothing
  <2> QED
    BY <1>2, <2>1
<1>4. ASSUME NEW p \in Pending(c),
             \/ ConfirmCreate(c, p)
             \/ ConfirmSchedule(c, p)
             \/ ConfirmEdit(c, p)
             \/ ConfirmUnlocated(p)
             \/ ConfirmDelete(c, p)
      PROVE  Sourced(tx', ruleIds') /\ ruleIds <= ruleIds'
  <2>1. ASSUME NEW rules, rules \subseteq tx.rules, tx' = Execute(tx, c, p, rules),
               UNCHANGED ruleIds
        PROVE  Sourced(tx', ruleIds') /\ ruleIds <= ruleIds'
    <3>1. tx'.rules \subseteq tx.rules /\ LogNumbers(tx) \subseteq LogNumbers(tx')
      BY <2>1, ExecutedLog
    <3> QED
      BY <1>2, <2>1, <3>1
  <2>2. CASE ConfirmCreate(c, p)
    BY <2>2, CreateSourced DEF ConfirmCreate
  <2>3. CASE ConfirmSchedule(c, p)
    BY <2>1, <2>3, CreateSourced DEF ConfirmSchedule
  <2>4. CASE ConfirmEdit(c, p)
    <3> DEFINE Edited(r) == IF r.id = p.target
                              THEN [r EXCEPT !.expr = p.expr, !.edited = TRUE] ELSE r
               rules == {Edited(r) : r \in tx.rules}
    <3>1. CASE p.target \in Ids(tx)
      <4>1. \A r \in tx.rules : Edited(r).id = r.id /\ Edited(r).from = r.from
        BY <1>1 DEF Tables, Rule
      <4>2. tx' = Execute(tx, c, p, rules) /\ UNCHANGED ruleIds
        BY <2>4, <3>1 DEF ConfirmEdit
      <4> HIDE DEF Edited
      <4>3. tx'.rules = rules /\ LogNumbers(tx) \subseteq LogNumbers(tx')
        BY <4>2, ExecutedLog
      <4> QED
        BY <4>1, <4>2, <4>3, <1>1 DEF Sourced
    <3>2. CASE p.target \notin Ids(tx)
      BY <1>1, <2>4, <3>2 DEF ConfirmEdit
    <3> QED
      BY <3>1, <3>2
  <2>5. CASE ConfirmUnlocated(p)
    BY <1>1, <2>5 DEF ConfirmUnlocated
  <2>6. CASE ConfirmDelete(c, p)
    <3>1. CASE tx' = Drop(tx, c)
      <4>1. tx'.rules = tx.rules /\ LogNumbers(tx') = LogNumbers(tx)
        BY <1>1, <3>1, UntouchedRules
      <4> QED
        BY <1>2, <2>6, <4>1 DEF ConfirmDelete
    <3>2. CASE tx' = Execute(tx, c, p, {r \in tx.rules : r.id # p.target})
      BY <2>1, <2>6, <3>2 DEF ConfirmDelete
    <3> QED
      BY <2>6, <3>1, <3>2 DEF ConfirmDelete
  <2> QED
    BY <1>4, <2>2, <2>3, <2>4, <2>5, <2>6
<1> QED
  BY <1>3, <1>4, Confirm(c) DEF Confirm

LEMMA CancelSourced ==
  ASSUME IInv, Sourced(tx, ruleIds), NEW c \in Contexts, Cancel(c)
  PROVE  Sourced(tx', ruleIds') /\ ruleIds <= ruleIds'
<1>1. tx \in Tables /\ ruleIds \in Nat
  BY DEF IInv, TypeOK
<1>2. tx' = Drop(tx, c) /\ ruleIds' = ruleIds
  BY DEF Cancel
<1>3. tx'.rules = tx.rules /\ LogNumbers(tx') = LogNumbers(tx)
  BY <1>1, <1>2, UntouchedRules
<1> QED
  BY <1>1, <1>2, <1>3, SourcedLater

LEMMA RInvNext == RInv /\ [Next]_vars => RInv'
<1> SUFFICES ASSUME RInv, [Next]_vars PROVE RInv'
  OBVIOUS
<1>1. IInv /\ IInv' /\ Sourced(db, ruleIds) /\ Sourced(tx, ruleIds)
  BY NextInv DEF RInv
<1>2. /\ db \in Tables /\ tx \in Tables /\ ruleIds \in Nat /\ ruleIds' \in Nat
      /\ turn.ctx \in Contexts
  BY <1>1 DEF IInv, TypeOK, Turn
<1>3. ASSUME UNCHANGED db, Sourced(tx', ruleIds'), ruleIds <= ruleIds'
      PROVE  RInv'
  <2>1. Sourced(db, ruleIds')
    BY <1>1, <1>2, <1>3, SourcedLater
  <2> QED
    BY <1>1, <1>3, <2>1 DEF RInv
<1>4. ASSUME UNCHANGED <<db, ruleIds>>, tx' = db \/ tx' = tx
      PROVE  RInv'
  BY <1>1, <1>2, <1>3, <1>4
<1>5. ASSUME NEW c \in Contexts, NEW word \in Words, Receive(c, word)
      PROVE  RInv'
  <2>1. UNCHANGED <<db, ruleIds>>
    BY <1>5 DEF Receive
  <2>2. tx'.rules = db.rules /\ LogNumbers(tx') = LogNumbers(db)
    <3>1. Checked(db, c) \in Tables
      BY <1>1, <1>2, CheckedTracked DEF IInv, ProposalsTracked
    <3>2. CASE tx' = db
      BY <3>2
    <3>3. CASE tx' = Loaded(Checked(db, c), c)
      BY <1>2, <3>1, <3>3, UntouchedRules
    <3>4. CASE tx' = Loaded(db, c)
      BY <1>2, <3>4, UntouchedRules
    <3> QED
      BY <1>5, <3>2, <3>3, <3>4 DEF Receive
  <2> QED
    BY <1>1, <1>2, <1>3, <2>1, <2>2, SourcedLater
<1>6. ASSUME NEW kind, NEW expr, NEW target, NEW located,
             Propose(kind, expr, target, located)
      PROVE  RInv'
  <2>1. /\ UNCHANGED <<db, ruleIds>>
        /\ \E p : tx' = Store(tx, turn.ctx, p)
    BY <1>6 DEF Propose
  <2>2. tx'.rules = tx.rules /\ LogNumbers(tx') = LogNumbers(tx)
    BY <1>2, <2>1, UntouchedRules
  <2> QED
    BY <1>1, <1>2, <1>3, <2>1, <2>2, SourcedLater
<1>7. CASE AgentConfirm
  <2>1. CASE Confirm(turn.ctx)
    BY <1>1, <1>2, <1>3, <1>7, <2>1, ConfirmSourced DEF AgentConfirm
  <2>2. CASE UNCHANGED <<tx, ruleIds>>
    BY <1>4, <1>7, <2>2 DEF AgentConfirm
  <2> QED
    BY <1>7, <2>1, <2>2 DEF AgentConfirm
<1>8. CASE AgentCancel \/ DirectCancel
  BY <1>1, <1>2, <1>3, <1>8, CancelSourced DEF AgentCancel, DirectCancel
<1>9. CASE DirectConfirm
  BY <1>1, <1>2, <1>3, <1>9, ConfirmSourced DEF DirectConfirm
<1>10. CASE Save
  <2>1. UNCHANGED ruleIds /\ tx' = db'
        /\ (db' = db \/ db' = Saved(tx, turn.ctx))
    BY <1>10 DEF Save
  <2>2. CASE db' = db
    BY <1>1, <2>1, <2>2 DEF RInv
  <2>3. CASE db' = Saved(tx, turn.ctx)
    <3>1. db'.rules = tx.rules /\ LogNumbers(db') = LogNumbers(tx)
      BY <1>2, <2>3, UntouchedRules
    <3>2. Sourced(db', ruleIds')
      BY <1>1, <1>2, <2>1, <3>1, SourcedLater
    <3> QED
      BY <1>1, <2>1, <3>2 DEF RInv
  <2> QED
    BY <2>1, <2>2, <2>3
<1>11. CASE DirectConfirmRaises \/ Reply \/ SessionLost \/ Crash
  BY <1>4, <1>11 DEF DirectConfirmRaises, Reply, SessionLost, Crash, EndTurn
<1>12. CASE Answer \/ AgentFails \/ Tick \/ Silence
  BY <1>4, <1>12 DEF Answer, AgentFails, Tick, Silence, vars
<1>13. ASSUME NEW id, WorkerEvaluates(id) \/ WorkerDisables(id)
       PROVE  RInv'
  BY <1>4, <1>13 DEF WorkerEvaluates, WorkerDisables
<1>14. CASE UNCHANGED vars
  BY <1>4, <1>14 DEF vars
<1> QED
  BY <1>5, <1>6, <1>7, <1>8, <1>9, <1>10, <1>11, <1>12, <1>13, <1>14
  DEF Next, ProposeNew, ProposeEdit, ProposeDelete

\* Whatever fails between the writes and the reply, no proposal has two rules and
\* no rule lacks one.
THEOREM OneRulePerProposalCorrect == Spec => []OneRulePerProposal
<1>1. Init => RInv
  BY InvInit DEF Init, RInv, Sourced
<1>2. RInv => OneRulePerProposal
  BY DEF RInv, Sourced, OneRulePerProposal
<1> QED
  BY <1>1, <1>2, RInvNext, PTL DEF Spec

-----------------------------------------------------------------------------
(* What the user says yes to.                                              *)

\* What a confirmation or a cancellation can do besides writing rules: it empties
\* a slot, it logs a proposal that was pending, and it leaves the histories alone.
LEMMA ToolEffect ==
  ASSUME IInv, NEW c \in Contexts, Confirm(c) \/ Cancel(c)
  PROVE  /\ tx'.history = tx.history
         /\ \A b \in Contexts : tx'.slot[b] \subseteq tx.slot[b]
         /\ \/ tx'.log = tx.log
            \/ \E p \in Pending(c) : tx'.log = Append(tx.log, EffectOf(p))
<1>1. tx \in Tables
  BY DEF IInv, TypeOK
<1>2. CASE tx' = Drop(tx, c)
  BY <1>1, <1>2 DEF Drop, Tables
<1>3. CASE tx' = tx
  BY <1>3
<1>4. CASE \E p \in Pending(c) : \E rules : tx' = Execute(tx, c, p, rules)
  BY <1>1, <1>4 DEF Execute, Tables
<1>5. CASE Cancel(c)
  BY <1>2, <1>5 DEF Cancel
<1>6. CASE ConfirmNothing(c)
  BY <1>2, <1>3, <1>6 DEF ConfirmNothing, Checked
<1>7. ASSUME NEW p \in Pending(c),
             \/ ConfirmCreate(c, p)
             \/ ConfirmSchedule(c, p)
             \/ ConfirmEdit(c, p)
             \/ ConfirmUnlocated(p)
             \/ ConfirmDelete(c, p)
      PROVE  \/ tx' = Drop(tx, c) \/ tx' = tx
             \/ \E q \in Pending(c) : \E rules : tx' = Execute(tx, c, q, rules)
  BY <1>7 DEF ConfirmCreate, ConfirmSchedule, Create, ConfirmEdit, ConfirmUnlocated,
              ConfirmDelete
<1> QED
  BY <1>2, <1>3, <1>4, <1>5, <1>6, <1>7 DEF Confirm

\* What the answer of this turn will have shown last in the thread.
Shown(c) == IF c = turn.ctx /\ turn.offered # 0 THEN turn.offered ELSE heard[c]

LogHeard(d) == \A i \in DOMAIN d.log : d.log[i].n = d.log[i].heard

SlotsShown == \A c \in Contexts : \A p \in tx.slot[c] : p.n = Shown(c)

\* Until the commit the user knows the committed slots.
SlotsHeard == Open => \A c \in Contexts : \A p \in db.slot[c] : p.n = heard[c]

\* A turn that proposes does nothing else, and presents its proposal.
Presented ==
  /\ turn.phase \in {"save", "reply"} /\ turn.offered # 0 => turn.shows
  /\ turn.phase \in {"direct", "idle"} \/ turn.aborted => turn.offered = 0

UInv ==
  /\ IInv
  /\ LogHeard(db) /\ LogHeard(tx)
  /\ SlotsShown
  /\ SlotsHeard
  /\ turn.phase \in {"idle", "reply"} => tx = db
  /\ Presented

\* A log that grows by what was shown.
LEMMA LogHeardAppend ==
  ASSUME NEW d \in Tables, NEW e, LogHeard(d), NEW x, x.n = x.heard,
         e.log = Append(d.log, x)
  PROVE  LogHeard(e)
<1>1. d.log \in Seq(Effect)
  BY DEF Tables
<1>2. /\ DOMAIN e.log = 1 .. Len(d.log) + 1
      /\ DOMAIN d.log = 1 .. Len(d.log)
      /\ Len(d.log) \in Nat
      /\ e.log[Len(d.log) + 1] = x
      /\ \A i \in DOMAIN d.log : e.log[i] = d.log[i]
  BY <1>1
<1> QED
  BY <1>2 DEF LogHeard

\* Confirming or cancelling before anything was proposed in the turn.
LEMMA ToolHeard ==
  ASSUME UInv, Confirm(turn.ctx) \/ Cancel(turn.ctx), turn.offered = 0,
         turn.phase \in {"direct", "agent"}, UNCHANGED <<db, heard>>,
         turn'.ctx = turn.ctx, turn'.offered = 0,
         turn'.phase \in {"agent", "save"}
  PROVE  LogHeard(tx') /\ SlotsShown' /\ SlotsHeard' /\ Presented'
<1>1. turn.ctx \in Contexts /\ tx \in Tables
  BY DEF UInv, IInv, TypeOK, Turn
<1>2. /\ \A b \in Contexts : tx'.slot[b] \subseteq tx.slot[b]
      /\ \/ tx'.log = tx.log
         \/ \E p \in Pending(turn.ctx) : tx'.log = Append(tx.log, EffectOf(p))
  BY <1>1, ToolEffect DEF UInv
<1>3. SlotsShown' /\ SlotsHeard' /\ Presented'
  BY <1>2 DEF UInv, SlotsShown, Shown, SlotsHeard, Open, Presented
<1>4. ASSUME NEW p \in Pending(turn.ctx)
      PROVE  EffectOf(p).n = EffectOf(p).heard
  BY <1>1, <1>4 DEF UInv, SlotsShown, Shown, Pending, EffectOf
<1>5. LogHeard(tx')
  <2>1. CASE tx'.log = tx.log
    BY <2>1 DEF UInv, LogHeard
  <2>2. CASE \E p \in Pending(turn.ctx) : tx'.log = Append(tx.log, EffectOf(p))
    BY <1>1, <1>4, <2>2, LogHeardAppend DEF UInv
  <2> QED
    BY <1>2, <2>1, <2>2
<1> QED
  BY <1>3, <1>5

\* The end of a turn before its commit.
LEMMA EndTurnHeard ==
  ASSUME UInv, IInv', EndTurn, UNCHANGED <<db, heard>>, Open \/ turn.phase = "idle"
  PROVE  UInv'
<1>1. /\ turn'.ctx = turn.ctx /\ turn'.phase = "idle" /\ turn'.offered = 0
      /\ ~turn'.aborted /\ tx' = db
  BY DEF EndTurn, NewTurn
<1>2. \A c \in Contexts : \A p \in db.slot[c] : p.n = heard[c]
  BY DEF UInv, SlotsHeard, SlotsShown, Shown, Open, Presented
<1> QED
  BY <1>1, <1>2
  DEF UInv, LogHeard, SlotsShown, Shown, SlotsHeard, Open, Presented

\* An obedient model, and no failure after which the user knows less than the
\* database: a lost session loses both.
Frank == Obedient /\ Faults \subseteq {"session"}

LEMMA ReceiveHeard ==
  ASSUME UInv, IInv', NEW c \in Contexts, NEW word \in Words, Receive(c, word)
  PROVE  UInv'
<1>1. db \in Tables /\ turn.phase = "idle" /\ tx = db /\ turn.offered = 0
  BY DEF UInv, IInv, TypeOK, Receive, Presented
<1>2. /\ turn'.phase \in {"direct", "agent"} /\ turn'.offered = 0 /\ ~turn'.aborted
      /\ UNCHANGED <<db, heard>>
  BY DEF Receive, NewTurn
<1>3. \A b \in Contexts : \A p \in db.slot[b] : p.n = heard[b]
  BY <1>1 DEF UInv, SlotsShown, Shown
<1>4. ASSUME NEW d \in Tables
      PROVE  /\ Loaded(d, c).slot = d.slot /\ Loaded(d, c).log = d.log
             /\ \A b \in Contexts : Checked(d, c).slot[b] \subseteq d.slot[b]
             /\ Checked(d, c).log = d.log
  BY DEF Loaded, Checked, Drop, Tables
<1>5. Checked(db, c) \in Tables
  BY <1>1, CheckedTracked DEF UInv, IInv, ProposalsTracked
<1>6. tx'.log = db.log /\ \A b \in Contexts : tx'.slot[b] \subseteq db.slot[b]
  BY <1>1, <1>4, <1>5 DEF Receive
<1>7. LogHeard(db) /\ LogHeard(db)' /\ LogHeard(tx')
  BY <1>2, <1>6 DEF UInv, LogHeard
<1>8. SlotsShown' /\ SlotsHeard'
  BY <1>2, <1>3, <1>6 DEF SlotsShown, Shown, SlotsHeard
<1> QED
  BY <1>2, <1>7, <1>8 DEF UInv, LogHeard, Presented

LEMMA ProposeHeard ==
  ASSUME UInv, IInv', Obedient, NEW kind, NEW expr, NEW target, NEW located,
         Propose(kind, expr, target, located)
  PROVE  UInv'
<1>1. /\ tx \in Tables /\ turn \in Turn /\ turn.ctx \in Contexts /\ proposals \in Nat
      /\ turn.phase = "agent" /\ ~turn.aborted /\ turn.offered = 0
      /\ UNCHANGED <<db, heard>>
  BY DEF UInv, IInv, TypeOK, Turn, Propose, Calls, WillingToCall
<1>2. PICK p : p.n = proposals + 1 /\ tx' = Store(tx, turn.ctx, p)
  BY DEF Propose
<1>3. /\ turn'.ctx = turn.ctx /\ turn'.phase = "agent" /\ ~turn'.aborted
      /\ turn'.offered = proposals + 1
  BY <1>1 DEF Propose, Turn
<1>4. /\ \A b \in Contexts :
           tx'.slot[b] = IF b = turn.ctx THEN {p} ELSE tx.slot[b]
      /\ tx'.log = tx.log
  BY <1>1, <1>2 DEF Store, Tables
<1>5. LogHeard(tx') /\ LogHeard(db)'
  BY <1>1, <1>4 DEF UInv, LogHeard
<1>6. SlotsShown'
  BY <1>1, <1>2, <1>3, <1>4 DEF UInv, SlotsShown, Shown
<1> QED
  BY <1>1, <1>3, <1>5, <1>6 DEF UInv, LogHeard, SlotsHeard, Open, Presented

LEMMA SaveHeard ==
  ASSUME UInv, IInv', Save
  PROVE  UInv'
<1>1. tx \in Tables /\ turn \in Turn /\ turn.ctx \in Contexts /\ turn.phase = "save"
  BY DEF UInv, IInv, TypeOK, Turn, Save
<1>2. /\ turn'.ctx = turn.ctx /\ turn'.phase = "reply" /\ turn'.aborted = turn.aborted
      /\ turn'.offered = turn.offered /\ turn'.shows = turn.shows
      /\ tx' = db' /\ UNCHANGED heard
  BY <1>1 DEF Save, Turn
<1>3. Presented' /\ SlotsHeard'
  BY <1>1, <1>2 DEF UInv, Presented, SlotsHeard, Open
<1>4. CASE turn.aborted
  <2>1. turn.offered = 0 /\ db' = db
    BY <1>4 DEF UInv, Presented, Save
  <2>2. SlotsShown'
    BY <1>1, <1>2, <2>1 DEF UInv, SlotsHeard, SlotsShown, Shown, Open
  <2> QED
    BY <1>2, <1>3, <2>1, <2>2 DEF UInv, LogHeard
<1>5. CASE ~turn.aborted
  <2>1. db'.slot = tx.slot /\ db'.log = tx.log
    BY <1>1, <1>5 DEF Save, Saved, Tables
  <2>2. SlotsShown'
    BY <1>2, <2>1 DEF UInv, SlotsShown, Shown
  <2> QED
    BY <1>2, <1>3, <2>1, <2>2 DEF UInv, LogHeard
<1> QED
  BY <1>4, <1>5

\* The reply makes the user know what the database holds.
LEMMA ReplyHeard ==
  ASSUME UInv, IInv', "reply" \notin Faults, Reply
  PROVE  UInv'
<1>1. /\ turn \in Turn /\ turn.ctx \in Contexts /\ heard \in [Contexts -> Nat]
      /\ turn.phase = "reply" /\ tx = db /\ UNCHANGED db
  BY DEF UInv, IInv, TypeOK, Turn, Reply
<1>2. /\ turn'.ctx = turn.ctx /\ turn'.phase = "idle" /\ turn'.offered = 0
      /\ ~turn'.aborted /\ tx' = db
  BY DEF Reply, EndTurn, NewTurn
<1>3. \A c \in Contexts : heard'[c] = Shown(c)
  BY <1>1 DEF Reply, Shown, UInv, Presented
<1>4. SlotsShown'
  BY <1>1, <1>2, <1>3 DEF UInv, SlotsShown, Shown
<1> QED
  BY <1>1, <1>2, <1>4 DEF UInv, LogHeard, SlotsHeard, Open, Presented

LEMMA UInvNext ==
  ASSUME Frank, UInv, [Next]_vars
  PROVE  UInv'
<1>1. IInv'
  BY NextInv DEF UInv
<1>2. turn \in Turn /\ turn.ctx \in Contexts
  BY DEF UInv, IInv, TypeOK, Turn
<1>3. ASSUME NEW c \in Contexts, NEW word \in Words, Receive(c, word)
      PROVE  UInv'
  BY <1>1, <1>3, ReceiveHeard
<1>4. ASSUME NEW kind, NEW expr, NEW target, NEW located,
             Propose(kind, expr, target, located)
      PROVE  UInv'
  BY <1>1, <1>4, ProposeHeard DEF Frank
<1>5. ASSUME Confirm(turn.ctx) \/ Cancel(turn.ctx),
             turn.phase \in {"direct", "agent"}, turn.offered = 0,
             \/ turn' = [turn EXCEPT !.rounds = @ + 1]
             \/ turn' = [turn EXCEPT !.phase = "save"],
             UNCHANGED <<db, heard>>, turn'.phase \in {"agent", "save"}
      PROVE  UInv'
  <2>1. turn'.ctx = turn.ctx /\ turn'.offered = 0
    BY <1>2, <1>5 DEF Turn
  <2>2. LogHeard(tx') /\ SlotsShown' /\ SlotsHeard' /\ Presented'
    BY <1>5, <2>1, ToolHeard
  <2> QED
    BY <1>1, <1>5, <2>2 DEF UInv, LogHeard
<1>6. CASE AgentConfirm
  <2>1. turn.phase = "agent" /\ turn.offered = 0 /\ UNCHANGED <<db, heard>>
    BY <1>6 DEF AgentConfirm, Calls, WillingToCall, Frank
  <2>2. CASE Confirm(turn.ctx) /\ turn' = [turn EXCEPT !.rounds = @ + 1]
    BY <1>2, <1>5, <2>1, <2>2 DEF Turn
  <2>3. CASE /\ turn' = [turn EXCEPT !.rounds = @ + 1, !.aborted = TRUE]
             /\ UNCHANGED tx
    <3>1. turn'.ctx = turn.ctx /\ turn'.offered = 0 /\ turn'.phase = "agent"
      BY <1>2, <2>1, <2>3 DEF Turn
    <3> QED
      BY <1>1, <2>1, <2>3, <3>1
      DEF UInv, LogHeard, SlotsShown, Shown, SlotsHeard, Open, Presented
  <2> QED
    BY <1>6, <2>2, <2>3 DEF AgentConfirm
<1>7. CASE AgentCancel
  <2>1. /\ turn.phase = "agent" /\ turn.offered = 0 /\ UNCHANGED <<db, heard>>
        /\ Cancel(turn.ctx) /\ turn' = [turn EXCEPT !.rounds = @ + 1]
    BY <1>7 DEF AgentCancel, Calls, WillingToCall, Frank
  <2> QED
    BY <1>2, <1>5, <2>1 DEF Turn
<1>8. CASE DirectConfirm \/ DirectCancel
  <2>1. /\ turn.phase = "direct" /\ turn.offered = 0 /\ UNCHANGED <<db, heard>>
        /\ Confirm(turn.ctx) \/ Cancel(turn.ctx)
        /\ turn' = [turn EXCEPT !.phase = "save"]
    BY <1>8 DEF DirectConfirm, DirectCancel, UInv, Presented
  <2> QED
    BY <1>2, <1>5, <2>1 DEF Turn
<1>9. CASE Answer
  <2>1. /\ turn.phase = "agent" /\ UNCHANGED <<db, tx, heard>>
        /\ turn' = [turn EXCEPT !.phase = "save", !.shows = TRUE]
    BY <1>9 DEF Answer, Frank
  <2>2. /\ turn'.ctx = turn.ctx /\ turn'.offered = turn.offered /\ turn'.phase = "save"
        /\ turn'.aborted = turn.aborted /\ turn'.shows
    BY <1>2, <2>1 DEF Turn
  <2> QED
    BY <1>1, <2>1, <2>2
    DEF UInv, LogHeard, SlotsShown, Shown, SlotsHeard, Open, Presented
<1>10. CASE Save
  BY <1>1, <1>10, SaveHeard
<1>11. CASE Reply
  BY <1>1, <1>11, ReplyHeard DEF Frank
<1>12. CASE DirectConfirmRaises \/ SessionLost
  BY <1>1, <1>12, EndTurnHeard DEF DirectConfirmRaises, SessionLost, Open
<1>13. ~AgentFails /\ ~Crash
  BY DEF AgentFails, Crash, Frank
<1>14. CASE UNCHANGED <<db, tx, turn, heard>>
  BY <1>1, <1>14
  DEF UInv, LogHeard, SlotsShown, Shown, SlotsHeard, Open, Presented
<1>15. ASSUME \/ \E id \in Ids(db) : WorkerEvaluates(id) \/ WorkerDisables(id)
              \/ Tick \/ Silence \/ UNCHANGED vars
       PROVE  UNCHANGED <<db, tx, turn, heard>>
  BY <1>15 DEF WorkerEvaluates, WorkerDisables, Tick, Silence, vars
<1> QED
  BY <1>3, <1>4, <1>6, <1>7, <1>8, <1>9, <1>10, <1>11, <1>12, <1>13, <1>14, <1>15
  DEF Next, ProposeNew, ProposeEdit, ProposeDelete

\* An obedient model and an answer that always arrives, whatever else fails: what a
\* "tak" executes is what the user was shown last.  A lost answer, a failure of the
\* model or a crash after the commit each leave a proposal nobody has seen in the
\* slot: without the hypothesis the theorem does not hold.
THEOREM UnderstoodConfirmCorrect ==
  ASSUME Frank
  PROVE  Spec => []UnderstoodConfirm
<1>1. Init => UInv
  <2> SUFFICES ASSUME Init PROVE UInv
    OBVIOUS
  <2>1. IInv
    BY InvInit
  <2>2. turn.phase = "idle" /\ turn.offered = 0 /\ ~turn.aborted
    BY DEF Init, NewTurn
  <2>3. /\ \A c \in Contexts : db.slot[c] = {}
        /\ db.log = <<>> /\ tx = db
    BY DEF Init
  <2>4. LogHeard(db)
    BY <2>3 DEF LogHeard
  <2> QED
    BY <2>1, <2>2, <2>3, <2>4 DEF UInv, SlotsShown, SlotsHeard, Open, Presented
<1>2. UInv => UnderstoodConfirm
  BY DEF UInv, LogHeard, UnderstoodConfirm
<1> QED
  BY <1>1, <1>2, UInvNext, PTL DEF Spec

-----------------------------------------------------------------------------
(* Scheduled rules.                                                        *)

\* An enabled scheduled rule as it was confirmed.
Plain(r) == r.scheduled /\ r.id \notin disabled /\ ~r.edited

Twins(r, q) == Plain(r) /\ Plain(q) /\ r.ctx = q.ctx /\ r.expr = q.expr

NoTwins(rules) == \A r, q \in rules : Twins(r, q) => r = q

NInv == IInv /\ NoTwins(db.rules) /\ NoTwins(tx.rules)

\* The confirmation looks for a match among all rules the transaction sees.
LEMMA ConfirmTwins ==
  ASSUME NInv, NEW c \in Contexts, Confirm(c) \/ Cancel(c)
  PROVE  NoTwins(tx'.rules)
<1>1. tx \in Tables /\ tx.rules \subseteq Rule /\ NoTwins(tx.rules)
  BY DEF NInv, IInv, TypeOK, Tables
<1>2. ASSUME tx'.rules \subseteq tx.rules PROVE NoTwins(tx'.rules)
  BY <1>1, <1>2 DEF NoTwins
<1>3. CASE ConfirmNothing(c) \/ Cancel(c)
  <2>1. tx'.rules = tx.rules
    BY <1>1, <1>3, UntouchedRules DEF ConfirmNothing, Cancel
  <2> QED
    BY <1>2, <2>1
<1>4. ASSUME NEW p \in Pending(c),
             \/ ConfirmCreate(c, p)
             \/ ConfirmSchedule(c, p)
             \/ ConfirmEdit(c, p)
             \/ ConfirmUnlocated(p)
             \/ ConfirmDelete(c, p)
      PROVE  NoTwins(tx'.rules)
  <2>1. ASSUME NEW rules, tx' = Execute(tx, c, p, rules) PROVE tx'.rules = rules
    BY <1>1, <2>1 DEF Execute, Tables
  <2>2. CASE Create(c, p) /\ (p.kind = "schedule" => Matching(c, p) = {})
    <3> DEFINE r == [id |-> ruleIds + 1, from |-> p.n, ctx |-> c, expr |-> p.expr,
                     scheduled |-> p.kind = "schedule", edited |-> FALSE]
    <3>1. tx'.rules = tx.rules \union {r}
      BY <2>1, <2>2 DEF Create
    <3>2. /\ r.ctx = c /\ r.expr = p.expr
          /\ r.scheduled => p.kind = "schedule"
      OBVIOUS
    <3> HIDE DEF r
    <3>3. \A q \in tx.rules : ~Twins(r, q) /\ ~Twins(q, r)
      BY <2>2, <3>2 DEF Twins, Plain, Matching
    <3> QED
      BY <1>1, <3>1, <3>3 DEF NoTwins
  <2>3. CASE ConfirmCreate(c, p) \/ ConfirmSchedule(c, p)
    <3>1. CASE tx' = Execute(tx, c, p, tx.rules)
      BY <1>2, <2>1, <3>1
    <3> QED
      BY <2>2, <2>3, <3>1 DEF ConfirmCreate, ConfirmSchedule
  <2>4. CASE ConfirmEdit(c, p)
    <3> DEFINE Edited(r) == IF r.id = p.target
                              THEN [r EXCEPT !.expr = p.expr, !.edited = TRUE] ELSE r
               rules == {Edited(r) : r \in tx.rules}
    <3>1. tx' = tx \/ tx' = Execute(tx, c, p, rules)
      BY <2>4 DEF ConfirmEdit
    <3>2. tx' = tx \/ tx'.rules = rules
      BY <2>1, <3>1
    <3>3. \A r \in tx.rules : Edited(r) = r \/ ~Plain(Edited(r))
      BY <1>1 DEF Plain, Rule
    <3> HIDE DEF Edited
    <3>4. \A r \in rules : r \in tx.rules \/ ~Plain(r)
      BY <3>3
    <3> QED
      BY <1>1, <3>2, <3>4 DEF NoTwins, Twins
  <2>5. CASE ConfirmUnlocated(p)
    BY <1>2, <2>5 DEF ConfirmUnlocated
  <2>6. CASE ConfirmDelete(c, p)
    <3>1. CASE tx' = Drop(tx, c)
      BY <1>1, <1>2, <3>1, UntouchedRules
    <3>2. CASE tx' = Execute(tx, c, p, {r \in tx.rules : r.id # p.target})
      BY <1>2, <2>1, <3>2
    <3> QED
      BY <2>6, <3>1, <3>2 DEF ConfirmDelete
  <2> QED
    BY <1>4, <2>3, <2>4, <2>5, <2>6
<1> QED
  BY <1>3, <1>4 DEF Confirm

LEMMA NInvNext ==
  ASSUME NInv, [Next]_vars
  PROVE  NInv'
<1>1. IInv' /\ NoTwins(db.rules) /\ NoTwins(tx.rules)
  BY NextInv DEF NInv
<1>2. db \in Tables /\ tx \in Tables /\ turn.ctx \in Contexts
  BY DEF NInv, IInv, TypeOK, Turn
<1>3. ASSUME UNCHANGED disabled, NoTwins(db'.rules), NoTwins(tx'.rules)
      PROVE  NInv'
  BY <1>1, <1>3 DEF NInv, NoTwins, Twins, Plain
<1>4. ASSUME UNCHANGED <<db, disabled>>, tx' = db \/ tx' = tx
      PROVE  NInv'
  BY <1>1, <1>3, <1>4
<1>5. ASSUME NEW c \in Contexts, NEW word \in Words, Receive(c, word)
      PROVE  NInv'
  <2>1. Checked(db, c) \in Tables
    BY <1>2, CheckedTracked DEF NInv, IInv, ProposalsTracked
  <2>2. \A d \in Tables : /\ Loaded(d, c).rules = d.rules
                          /\ Checked(d, c).rules = d.rules
    BY UntouchedRules
  <2>3. tx'.rules = db.rules
    BY <1>2, <1>5, <2>1, <2>2 DEF Receive
  <2> QED
    BY <1>1, <1>3, <1>5, <2>3 DEF Receive
<1>6. ASSUME NEW kind, NEW expr, NEW target, NEW located,
             Propose(kind, expr, target, located)
      PROVE  NInv'
  <2>1. /\ UNCHANGED <<db, disabled>>
        /\ \E p : tx' = Store(tx, turn.ctx, p)
    BY <1>6 DEF Propose
  <2>2. tx'.rules = tx.rules
    BY <1>2, <2>1, UntouchedRules
  <2> QED
    BY <1>1, <1>3, <2>1, <2>2
<1>7. CASE AgentConfirm \/ DirectConfirm \/ AgentCancel \/ DirectCancel
  <2>1. UNCHANGED <<db, disabled>>
    BY <1>7 DEF AgentConfirm, DirectConfirm, AgentCancel, DirectCancel
  <2>2. CASE Confirm(turn.ctx) \/ Cancel(turn.ctx)
    BY <1>1, <1>2, <1>3, <2>1, <2>2, ConfirmTwins
  <2>3. CASE UNCHANGED tx
    BY <1>4, <2>1, <2>3
  <2> QED
    BY <1>7, <2>2, <2>3 DEF AgentConfirm, DirectConfirm, AgentCancel, DirectCancel
<1>8. CASE Save
  <2>1. /\ UNCHANGED disabled /\ tx' = db'
        /\ db' = db \/ db' = Saved(tx, turn.ctx)
    BY <1>8 DEF Save
  <2>2. db'.rules = db.rules \/ db'.rules = tx.rules
    BY <1>2, <2>1, UntouchedRules
  <2> QED
    BY <1>1, <1>3, <2>1, <2>2
<1>9. CASE DirectConfirmRaises \/ Reply \/ SessionLost \/ Crash
  BY <1>4, <1>9 DEF DirectConfirmRaises, Reply, SessionLost, Crash, EndTurn
<1>10. CASE Answer \/ AgentFails \/ Tick \/ Silence \/ UNCHANGED vars
  BY <1>4, <1>10 DEF Answer, AgentFails, Tick, Silence, vars
<1>11. ASSUME NEW id, WorkerEvaluates(id) \/ WorkerDisables(id)
       PROVE  NInv'
  <2>1. UNCHANGED <<db, tx>> /\ disabled \subseteq disabled'
    BY <1>11 DEF WorkerEvaluates, WorkerDisables
  <2> QED
    BY <1>1, <2>1 DEF NInv, NoTwins, Twins, Plain
<1> QED
  BY <1>5, <1>6, <1>7, <1>8, <1>9, <1>10, <1>11
  DEF Next, ProposeNew, ProposeEdit, ProposeDelete

\* However often the same schedule is proposed and confirmed, also after a failed
\* turn, and whichever rules the worker disables meanwhile: one rule stands for it.
THEOREM NoScheduledTwinsCorrect == Spec => []NoScheduledTwins
<1>1. Init => NInv
  BY InvInit DEF Init, NInv, NoTwins
<1>2. NInv => NoScheduledTwins
  BY DEF NInv, NoTwins, Twins, Plain, NoScheduledTwins
<1> QED
  BY <1>1, <1>2, NInvNext, PTL DEF Spec

-----------------------------------------------------------------------------
(* The stored history.                                                     *)

Entry == [by : {"user", "bot"}, turn : Nat]

\* Whole turns in their order, the last of them not after "latest".
Paired(h, latest) ==
  /\ Len(h) <= MaxHistory
  /\ Len(h) % 2 = 0
  /\ \A i \in DOMAIN h : h[i].by = IF i % 2 = 1 THEN "user" ELSE "bot"
  /\ \A i \in DOMAIN h : i % 2 = 0 => h[i].turn = h[i - 1].turn
  /\ \A i, j \in DOMAIN h : i < j => h[i].turn <= h[j].turn
  /\ \A i \in DOMAIN h : h[i].turn <= latest

Histories(d) == \A c \in Contexts : Paired(d.history[c], messages)

HInv == IInv /\ Histories(db) /\ Histories(tx)

\* What fits is kept as it is.
LEMMA NewestRoom ==
  ASSUME NEW S, NEW s \in Seq(S), Len(s) <= MaxHistory
  PROVE  Newest(s) = s
<1>1. Len(s) \in Nat /\ MaxHistory \in Nat
  BY ConfirmationAssumption
<1>2. ~(Len(s) > MaxHistory)
  BY <1>1
<1> QED
  BY <1>2 DEF Newest

\* Of one entry too many the first is dropped.
LEMMA NewestFull ==
  ASSUME NEW S, NEW s \in Seq(S), Len(s) = MaxHistory + 1
  PROVE  /\ Newest(s) \in Seq(S) /\ Len(Newest(s)) = MaxHistory
         /\ \A i \in 1 .. MaxHistory : Newest(s)[i] = s[i + 1]
<1>1. MaxHistory \in Nat \ {0}
  BY ConfirmationAssumption
<1>2. PICK n \in Nat : n = MaxHistory + 1
  BY <1>1
<1>3. Len(s) > MaxHistory /\ Len(s) - MaxHistory + 1 = 2 /\ Len(s) = n
  BY <1>1, <1>2
<1>4. Newest(s) = SubSeq(s, 2, n)
  BY <1>3 DEF Newest
<1>5. \A i \in 2 .. n : s[i] \in S
  BY <1>3
<1>6. /\ SubSeq(s, 2, n) \in Seq(S)
      /\ Len(SubSeq(s, 2, n)) = IF 2 <= n THEN n - 2 + 1 ELSE 0
      /\ \A i \in 1 .. n - 2 + 1 : SubSeq(s, 2, n)[i] = s[2 + i - 1]
  BY <1>5, SubSeqProperties
<1>7. /\ (IF 2 <= n THEN n - 2 + 1 ELSE 0) = MaxHistory
      /\ n - 2 + 1 = MaxHistory
      /\ \A i \in 1 .. MaxHistory : 2 + i - 1 = i + 1
  BY <1>1, <1>2
<1> QED
  BY <1>4, <1>6, <1>7

\* Two entries are added, and two are dropped if there is no room for them.
LEMMA Remembered ==
  ASSUME MaxHistory % 2 = 0, messages \in Nat, NEW h \in Seq(Entry),
         Len(h) <= MaxHistory, Len(h) % 2 = 0
  PROVE  \E lost \in {0, 2}, kept \in Nat :
           /\ kept = Len(h) - lost
           /\ kept % 2 = 0 /\ kept + 2 <= MaxHistory
           /\ Remember(h) \in Seq(Entry) /\ Len(Remember(h)) = kept + 2
           /\ \A i \in 1 .. kept : Remember(h)[i] = h[i + lost]
           /\ Remember(h)[kept + 1] = [by |-> "user", turn |-> messages]
           /\ Remember(h)[kept + 2] = [by |-> "bot", turn |-> messages]
<1>1. /\ MaxHistory \in Nat /\ MaxHistory >= 2 /\ Len(h) \in Nat
  BY ConfirmationAssumption
<1>2. PICK u : u = [by |-> "user", turn |-> messages]
  OBVIOUS
<1>3. PICK b : b = [by |-> "bot", turn |-> messages]
  OBVIOUS
<1>4. u \in Entry /\ b \in Entry
  BY <1>2, <1>3 DEF Entry
<1>5. PICK asked : asked = Append(h, u)
  OBVIOUS
<1>6. /\ asked \in Seq(Entry)
      /\ Len(asked) = Len(h) + 1 /\ asked[Len(h) + 1] = u
      /\ \A i \in 1 .. Len(h) : asked[i] = h[i]
  BY <1>4, <1>5
<1>7. PICK g : g = Newest(Append(Newest(asked), b))
  OBVIOUS
<1>8. g = Remember(h)
  BY <1>2, <1>3, <1>5, <1>7 DEF Remember
<1>9. CASE Len(h) # MaxHistory
  <2>1. Len(h) + 2 <= MaxHistory
    BY <1>1, <1>9
  <2>2. Len(asked) <= MaxHistory
    BY <1>1, <1>6, <2>1
  <2>3. Newest(asked) = asked
    BY <1>6, <2>2, NewestRoom
  <2>4. PICK y : y = Append(asked, b)
    OBVIOUS
  <2>5. /\ y \in Seq(Entry) /\ Len(y) = Len(h) + 2
        /\ \A i \in 1 .. Len(h) : y[i] = h[i]
        /\ y[Len(h) + 1] = u /\ y[Len(h) + 2] = b
    BY <1>1, <1>4, <1>6, <2>4
  <2>6. g = y
    BY <1>7, <2>1, <2>3, <2>4, <2>5, NewestRoom
  <2>7. /\ Len(h) = Len(h) - 0
        /\ \A i \in 1 .. Len(h) : i + 0 = i
    BY <1>1
  <2> QED
    BY <1>1, <1>2, <1>3, <1>8, <2>1, <2>5, <2>6, <2>7
<1>10. CASE Len(h) = MaxHistory
  <2>1. PICK x \in Seq(Entry) : x = Newest(asked)
    BY <1>6, <1>10, NewestFull
  <2>2. Len(x) = MaxHistory /\ \A i \in 1 .. MaxHistory : x[i] = asked[i + 1]
    BY <1>6, <1>10, <2>1, NewestFull
  <2>3. PICK y : y = Append(x, b)
    OBVIOUS
  <2>4. /\ y \in Seq(Entry) /\ Len(y) = MaxHistory + 1 /\ y[MaxHistory + 1] = b
        /\ \A i \in 1 .. MaxHistory : y[i] = asked[i + 1]
    BY <1>1, <1>4, <2>2, <2>3
  <2>5. g = Newest(y)
    BY <1>7, <2>1, <2>3
  <2>6. /\ g \in Seq(Entry) /\ Len(g) = MaxHistory
        /\ \A i \in 1 .. MaxHistory : g[i] = y[i + 1]
    BY <2>4, <2>5, NewestFull
  <2>7. PICK kept \in Nat : kept = MaxHistory - 2
    BY <1>1
  <2>8. kept % 2 = 0 /\ kept + 2 = MaxHistory /\ kept + 2 + 1 = MaxHistory + 1
    BY <1>1, <2>7
  <2>9. \A i \in 1 .. kept : g[i] = h[i + 2]
    <3> SUFFICES ASSUME NEW i \in 1 .. kept PROVE g[i] = h[i + 2]
      OBVIOUS
    <3>1. /\ i \in 1 .. MaxHistory /\ i + 1 \in 1 .. MaxHistory
          /\ i + 2 \in 1 .. Len(h) /\ i + 1 + 1 = i + 2
      BY <1>1, <1>10, <2>7
    <3>2. g[i] = y[i + 1] /\ y[i + 1] = asked[i + 1 + 1]
      BY <2>4, <2>6, <3>1
    <3> QED
      BY <1>6, <3>1, <3>2
  <2>10. g[kept + 1] = u /\ g[kept + 2] = b
    <3>1. /\ kept + 1 \in 1 .. MaxHistory /\ kept + 2 \in 1 .. MaxHistory
          /\ kept + 1 + 1 = kept + 2 /\ kept + 2 + 1 = MaxHistory + 1
          /\ kept + 2 = MaxHistory
      BY <1>1, <2>7
    <3>2. g[kept + 1] = y[kept + 2] /\ y[kept + 2] = asked[kept + 2 + 1]
      BY <2>4, <2>6, <3>1
    <3>3. g[kept + 2] = y[kept + 2 + 1]
      BY <2>6, <3>1
    <3> QED
      BY <1>6, <1>10, <2>4, <3>1, <3>2, <3>3
  <2> QED
    BY <1>1, <1>2, <1>3, <1>8, <1>10, <2>6, <2>7, <2>8, <2>9, <2>10
<1> QED
  BY <1>9, <1>10

LEMMA Parity ==
  ASSUME NEW i \in Nat, NEW lost \in {0, 2}
  PROVE  /\ (i + lost) % 2 = i % 2
         /\ i % 2 = 0 => (i + 1) % 2 = 1 /\ (i + 2) % 2 = 0
OBVIOUS

\* The turn at hand is the latest one.
LEMMA RememberedPaired ==
  ASSUME MaxHistory % 2 = 0, messages \in Nat, NEW h \in Seq(Entry),
         Paired(h, messages)
  PROVE  Paired(Remember(h), messages)
<1>1. PICK lost \in {0, 2}, kept \in Nat :
        /\ kept = Len(h) - lost
        /\ kept % 2 = 0 /\ kept + 2 <= MaxHistory
        /\ Remember(h) \in Seq(Entry) /\ Len(Remember(h)) = kept + 2
        /\ \A i \in 1 .. kept : Remember(h)[i] = h[i + lost]
        /\ Remember(h)[kept + 1] = [by |-> "user", turn |-> messages]
        /\ Remember(h)[kept + 2] = [by |-> "bot", turn |-> messages]
  BY Remembered DEF Paired
<1>2. PICK g : g = Remember(h)
  OBVIOUS
<1>3. g \in Seq(Entry) /\ Len(g) = kept + 2
  BY <1>1, <1>2
<1>4. DOMAIN g = 1 .. kept + 2 /\ DOMAIN h = 1 .. Len(h) /\ Len(h) \in Nat
  BY <1>3
<1>5. ASSUME NEW i \in 1 .. kept
      PROVE  i + lost \in DOMAIN h /\ g[i] = h[i + lost] /\ (i + lost) % 2 = i % 2
  <2>1. i + lost \in 1 .. Len(h)
    BY <1>1, <1>4
  <2>2. g[i] = h[i + lost]
    BY <1>1, <1>2
  <2>3. (i + lost) % 2 = i % 2
    BY Parity
  <2> QED
    BY <1>4, <2>1, <2>2, <2>3
<1>6. /\ g[kept + 1].by = "user" /\ g[kept + 1].turn = messages
      /\ g[kept + 2].by = "bot" /\ g[kept + 2].turn = messages
      /\ (kept + 1) % 2 = 1 /\ (kept + 2) % 2 = 0
  <2>1. (kept + 1) % 2 = 1 /\ (kept + 2) % 2 = 0
    BY <1>1, Parity
  <2> QED
    BY <1>1, <1>2, <2>1
<1>7. \A i \in DOMAIN g : i \in 1 .. kept \/ i = kept + 1 \/ i = kept + 2
  BY <1>4
<1>8. Len(g) <= MaxHistory /\ Len(g) % 2 = 0
  BY <1>1, <1>3, <1>6
<1>9. \A i \in DOMAIN g : g[i].by = IF i % 2 = 1 THEN "user" ELSE "bot"
  <2>1. \A i \in 1 .. kept : g[i].by = IF i % 2 = 1 THEN "user" ELSE "bot"
    BY <1>5 DEF Paired
  <2> QED
    BY <1>6, <1>7, <2>1
<1>10. \A i \in DOMAIN g : g[i].turn <= messages
  <2>1. \A i \in 1 .. kept : g[i].turn <= messages
    BY <1>5 DEF Paired
  <2> QED
    BY <1>6, <1>7, <2>1
<1>11. ASSUME NEW i \in DOMAIN g, i % 2 = 0 PROVE g[i].turn = g[i - 1].turn
  <2>1. CASE i \in 1 .. kept
    <3>1. i - 1 \in 1 .. kept /\ (i - 1) + lost = (i + lost) - 1
      BY <1>11, <2>1
    <3>2. h[i + lost].turn = h[(i + lost) - 1].turn
      BY <1>5, <1>11, <2>1 DEF Paired
    <3> QED
      BY <1>5, <2>1, <3>1, <3>2
  <2>2. CASE i = kept + 2
    <3>1. i - 1 = kept + 1
      BY <2>2
    <3> QED
      BY <1>6, <2>2, <3>1
  <2> QED
    BY <1>6, <1>7, <1>11, <2>1, <2>2
<1>12. ASSUME NEW i \in DOMAIN g, NEW j \in DOMAIN g, i < j
       PROVE  g[i].turn <= g[j].turn
  <2>1. CASE j \in 1 .. kept
    <3>1. i \in 1 .. kept /\ i + lost < j + lost
      BY <1>4, <1>12, <2>1
    <3> QED
      BY <1>5, <2>1, <3>1 DEF Paired
  <2>2. CASE j = kept + 1 \/ j = kept + 2
    BY <1>6, <1>10, <2>2
  <2> QED
    BY <1>7, <2>1, <2>2
<1> QED
  BY <1>2, <1>8, <1>9, <1>10, <1>11, <1>12 DEF Paired

LEMMA HInvNext ==
  ASSUME MaxHistory % 2 = 0, HInv, [Next]_vars
  PROVE  HInv'
<1>1. IInv' /\ Histories(db) /\ Histories(tx)
  BY NextInv DEF HInv
<1>2. /\ db \in Tables /\ tx \in Tables /\ turn.ctx \in Contexts /\ messages \in Nat
      /\ \A d \in Tables : d.history \in [Contexts -> Seq(Entry)]
  BY DEF HInv, IInv, TypeOK, Turn, Tables, Entry
<1>3. ASSUME UNCHANGED <<messages, db>>, tx'.history = db.history \/ tx'.history = tx.history
      PROVE  HInv'
  BY <1>1, <1>3 DEF HInv, Histories
<1>4. ASSUME NEW c \in Contexts, NEW word \in Words, Receive(c, word)
      PROVE  HInv'
  <2>1. messages' = messages + 1 /\ UNCHANGED db
    BY <1>4 DEF Receive
  <2>2. ASSUME NEW h, Paired(h, messages), h \in Seq(Entry)
        PROVE  Paired(h, messages)'
    <3>1. ASSUME NEW i \in DOMAIN h PROVE h[i].turn \in Nat
      <4>1. h[i] \in Entry
        BY <2>2, <3>1
      <4> QED
        BY <4>1 DEF Entry
    <3>2. \A i \in DOMAIN h : h[i].turn <= messages + 1
      BY <1>2, <2>2, <3>1 DEF Paired
    <3> QED
      BY <2>1, <2>2, <3>2 DEF Paired
  <2>3. Histories(db)'
    BY <1>1, <1>2, <2>1, <2>2 DEF Histories
  <2>4. Paired(<<>>, messages)'
    BY ConfirmationAssumption DEF Paired
  <2>5. Checked(db, c) \in Tables /\ Checked(db, c).history = db.history
    BY <1>2, CheckedTracked DEF HInv, IInv, ProposalsTracked, Checked, Drop, Tables
  <2>6. ASSUME NEW d \in Tables
        PROVE  \A b \in Contexts : \/ Loaded(d, c).history[b] = d.history[b]
                                   \/ Loaded(d, c).history[b] = <<>>
    BY <1>2 DEF Loaded, Tables
  <2>7. \A b \in Contexts : tx'.history[b] = db.history[b] \/ tx'.history[b] = <<>>
    BY <1>2, <1>4, <2>5, <2>6 DEF Receive
  <2>8. Histories(tx)'
    BY <1>1, <1>2, <2>2, <2>4, <2>7 DEF Histories
  <2> QED
    BY <1>1, <2>3, <2>8 DEF HInv
<1>5. ASSUME NEW kind, NEW expr, NEW target, NEW located,
             Propose(kind, expr, target, located)
      PROVE  HInv'
  BY <1>2, <1>3, <1>5 DEF Propose, Store, Tables
<1>6. CASE AgentConfirm \/ DirectConfirm \/ AgentCancel \/ DirectCancel
  <2>1. UNCHANGED <<messages, db>>
    BY <1>6 DEF AgentConfirm, DirectConfirm, AgentCancel, DirectCancel
  <2>2. CASE Confirm(turn.ctx) \/ Cancel(turn.ctx)
    BY <1>2, <1>3, <2>1, <2>2, ToolEffect DEF HInv
  <2>3. CASE UNCHANGED tx
    BY <1>3, <2>1, <2>3
  <2> QED
    BY <1>6, <2>2, <2>3 DEF AgentConfirm, DirectConfirm, AgentCancel, DirectCancel
<1>7. CASE Save
  <2>1. /\ UNCHANGED messages /\ tx' = db'
        /\ db' = db \/ db' = Saved(tx, turn.ctx)
    BY <1>7 DEF Save
  <2>2. Saved(tx, turn.ctx).history =
          [tx.history EXCEPT ![turn.ctx] = Remember(tx.history[turn.ctx])]
    BY <1>2 DEF Saved, Tables
  <2>3. /\ tx.history[turn.ctx] \in Seq(Entry)
        /\ Paired(tx.history[turn.ctx], messages)
    BY <1>1, <1>2 DEF Histories
  <2>4. Paired(Remember(tx.history[turn.ctx]), messages)
    BY <1>2, <2>3, RememberedPaired
  <2>5. Histories(Saved(tx, turn.ctx))
    BY <1>1, <1>2, <2>2, <2>4 DEF Histories
  <2>6. Histories(db)'
    BY <1>1, <2>1, <2>5 DEF Histories
  <2> QED
    BY <1>1, <2>1, <2>6 DEF HInv, Histories
<1>8. CASE DirectConfirmRaises \/ Reply \/ SessionLost \/ Crash
  BY <1>3, <1>8 DEF DirectConfirmRaises, Reply, SessionLost, Crash, EndTurn
<1>9. CASE Answer \/ AgentFails \/ Tick \/ Silence \/ UNCHANGED vars
  BY <1>3, <1>9 DEF Answer, AgentFails, Tick, Silence, vars
<1>10. ASSUME NEW id, WorkerEvaluates(id) \/ WorkerDisables(id)
       PROVE  HInv'
  BY <1>3, <1>10 DEF WorkerEvaluates, WorkerDisables
<1> QED
  BY <1>4, <1>5, <1>6, <1>7, <1>8, <1>9, <1>10
  DEF Next, ProposeNew, ProposeEdit, ProposeDelete

\* With an even limit (MAX_TURNS is 20) trimming drops whole turns only, whatever
\* fails and whenever the history expires.  An odd one would leave an answer
\* without its question.
THEOREM HistoryPairedCorrect ==
  ASSUME MaxHistory % 2 = 0
  PROVE  Spec => []HistoryPaired
<1>1. Init => HInv
  <2>1. Paired(<<>>, messages)
    BY ConfirmationAssumption DEF Paired
  <2> QED
    BY <2>1, InvInit DEF Init, HInv, Histories
<1>2. HInv => HistoryPaired
  BY DEF HInv, Histories, Paired, HistoryPaired
<1> QED
  BY <1>1, <1>2, HInvNext, PTL DEF Spec

=============================================================================
