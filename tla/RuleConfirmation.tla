-------------------------- MODULE RuleConfirmation --------------------------
(***************************************************************************)
(* How a notification rule comes into being, is changed and is deleted: a  *)
(* turn of the conversation stores a proposal in the pending slot of its   *)
(* chat thread, a later turn confirms or cancels it.  A turn is one        *)
(* database transaction; it answers "tak" and "nie" by itself and lets a   *)
(* language model with tools answer everything else.                       *)
(*                                                                         *)
(* Updates are handled one after the other (the Application is built       *)
(* without concurrent updates) and tools run under one lock, so the only   *)
(* concurrent actor is the worker, which evaluates rules.                  *)
(***************************************************************************)
EXTENDS Naturals, Sequences

CONSTANTS
  Contexts,      \* the chat threads (context keys) of one user
  Exprs,         \* what a rule watches for
  Obedient,      \* the model follows weather_agent.md, see Willing
  Fallback,      \* a fallback model is configured
  Faults,        \* what may go wrong
  Ttl,           \* default_ttl_days
  MaxHistory,    \* MAX_TURNS
  MaxRounds,     \* max_tool_rounds (one tool call per round)
  MaxProposals, MaxMessages, MaxTime

FaultKinds == {"agent", "reply", "session", "crash"}

ASSUME ConfirmationAssumption ==
  /\ Obedient \in BOOLEAN
  /\ Fallback \in BOOLEAN
  /\ Faults \subseteq FaultKinds
  /\ Ttl \in Nat
  /\ MaxHistory \in Nat \ {0}
  /\ MaxRounds \in Nat \ {0}
  /\ MaxProposals \in Nat
  /\ MaxMessages \in Nat
  /\ MaxTime \in Nat

VARIABLES
  now,
  db,        \* the committed tables, see Tables
  evaluated, \* rules with a RuleEvaluationRun (written by the worker)
  disabled,  \* rules with enabled = False (written by the worker)
  turn,      \* the turn in progress
  tx,        \* the tables as the turn's transaction sees them
  heard,     \* history: per thread the last proposal the user was shown
  proposals, \* history: how many proposals were ever made
  ruleIds,   \* the id sequence of notification_rules
  messages   \* how many messages were received

vars == <<now, db, evaluated, disabled, turn, tx, heard, proposals, ruleIds,
          messages>>

-----------------------------------------------------------------------------
(* Tables and the turn.                                                    *)

Kinds  == {"create", "edit", "schedule", "delete"}
Words  == {"yes", "no", "agree", "other"}
Phases == {"idle", "direct", "agent", "save", "reply"}

NoRule == 0

\* A PendingConfirmation; n numbers the proposals, located tells whether a location
\* was resolved.
Proposal ==
  [n : Nat, kind : Kinds, expr : Exprs, target : Nat, located : BOOLEAN,
   at : Nat]

\* from is the proposal that created the rule.
Rule ==
  [id : Nat, from : Nat, ctx : Contexts, expr : Exprs, scheduled : BOOLEAN,
   edited : BOOLEAN]

\* A confirmed proposal: heard is what the user had been shown last.
Effect == [n : Nat, age : Nat, heard : Nat]

\* slot holds no proposal or one; log and dropped are histories: the proposals
\* executed, in order, and those cancelled, replaced, expired or void.
Tables ==
  [slot    : [Contexts -> SUBSET Proposal],
   rules   : SUBSET Rule,
   history : [Contexts -> Seq([by : {"user", "bot"}, turn : Nat])],
   savedAt : [Contexts -> Nat],
   log     : Seq(Effect),
   dropped : SUBSET Nat]

\* shows: the answer presents the proposal the answering model made.
Turn ==
  [ctx : Contexts, word : Words, phase : Phases, rounds : Nat, retried : BOOLEAN,
   offered : Nat, shows : BOOLEAN, aborted : BOOLEAN]

Open == turn.phase \in {"direct", "agent", "save"}

Ids(d) == {r.id : r \in d.rules}

\* Mutant: nothing ever expires.
OlderNever(at) == FALSE

\* _is_expired: strictly older than the lifetime.
Older(at) == now - at > Ttl

Pending(c) == {p \in tx.slot[c] : ~Older(p.at)}

Numbers(S) == {p.n : p \in S}

\* Mutant: the proposal is void and stays in the slot.
DropAndKeep(d, c) == [d EXCEPT !.dropped = @ \union Numbers(d.slot[c])]

\* clear_pending_confirmation after a proposal that is not executed
Drop(d, c) ==
  [d EXCEPT !.slot    = [d.slot EXCEPT ![c] = {}],
            !.dropped = @ \union Numbers(d.slot[c])]

\* Mutant: the first proposal is kept.
KeepFirst(d, c, p) ==
  [d EXCEPT !.slot    = [d.slot EXCEPT ![c] = IF @ = {} THEN {p} ELSE @],
            !.dropped = @ \union (IF d.slot[c] = {} THEN {} ELSE {p.n})]

\* Mutant: the new proposal is put beside the old one.
StoreBeside(d, c, p) == [d EXCEPT !.slot = [d.slot EXCEPT ![c] = @ \union {p}]]

\* store_pending_confirmation: a proposal in the slot is overwritten.
Store(d, c, p) ==
  [d EXCEPT !.slot    = [d.slot EXCEPT ![c] = {p}],
            !.dropped = @ \union Numbers(d.slot[c])]

EffectOf(p) ==
  [n |-> p.n, age |-> now - p.at, heard |-> heard[turn.ctx]]

\* Mutant: the slot is not cleared after the rule was written.
ExecuteAndKeep(d, c, p, rules) ==
  [d EXCEPT !.rules = rules, !.log = Append(@, EffectOf(p))]

\* The rules are written and the slot is cleared, in the turn's transaction.
Execute(d, c, p, rules) ==
  [d EXCEPT !.rules = rules,
            !.slot  = [d.slot EXCEPT ![c] = {}],
            !.log   = Append(@, EffectOf(p))]

-----------------------------------------------------------------------------
(* A message arrives.                                                      *)

NewTurn(c, word, phase) ==
  [ctx |-> c, word |-> word, phase |-> phase, rounds |-> 0, retried |-> FALSE,
   offered |-> 0, shows |-> FALSE, aborted |-> FALSE]

\* load_turns: an expired history is deleted.
Loaded(d, c) ==
  IF Older(d.savedAt[c])
    THEN [d EXCEPT !.history = [d.history EXCEPT ![c] = <<>>],
                   !.savedAt = [d.savedAt EXCEPT ![c] = 0]]
    ELSE d

\* _handle_direct_confirmation's first read: an expired slot is cleared.
Checked(d, c) ==
  IF \E p \in d.slot[c] : Older(p.at) THEN Drop(d, c) ELSE d

Found(c) == \E p \in db.slot[c] : ~Older(p.at)

\* A direct word with a proposal pending is handled without the model.
Receive(c, word) ==
  /\ turn.phase = "idle"
  /\ messages < MaxMessages
  /\ messages' = messages + 1
  /\ \/ /\ word \in {"yes", "no"}
        /\ Found(c)
        /\ turn' = NewTurn(c, word, "direct")
        /\ tx' = db
     \/ /\ word \in {"yes", "no"}
        /\ ~Found(c)
        /\ turn' = NewTurn(c, word, "agent")
        /\ tx' = Loaded(Checked(db, c), c)
     \/ /\ word \notin {"yes", "no"}
        /\ turn' = NewTurn(c, word, "agent")
        /\ tx' = Loaded(db, c)
  /\ UNCHANGED <<now, db, evaluated, disabled, heard, proposals, ruleIds>>

-----------------------------------------------------------------------------
(* The tools.                                                              *)

\* confirm_pending_action finds no proposal, or an expired one.
ConfirmNothing(c) ==
  /\ Pending(c) = {}
  /\ tx' = Checked(tx, c)
  /\ UNCHANGED ruleIds

Create(c, p) ==
  LET r == [id |-> ruleIds + 1, from |-> p.n, ctx |-> c, expr |-> p.expr,
            scheduled |-> p.kind = "schedule", edited |-> FALSE]
  IN /\ ruleIds' = ruleIds + 1
     /\ tx' = Execute(tx, c, p, tx.rules \union {r})

\* Mutant: no rule counts as the same.
NoMatch(c, p) == {}

\* find_matching_scheduled_rule
Matching(c, p) ==
  {r \in tx.rules : /\ r.scheduled
                    /\ r.ctx = c
                    /\ r.expr = p.expr
                    /\ r.id \notin disabled}

ConfirmCreate(c, p) == p.kind = "create" /\ Create(c, p)

ConfirmSchedule(c, p) ==
  /\ p.kind = "schedule"
  /\ \/ /\ Matching(c, p) = {}
        /\ Create(c, p)
     \/ /\ Matching(c, p) # {}
        /\ tx' = Execute(tx, c, p, tx.rules)
        /\ UNCHANGED ruleIds

\* An edit of a rule that is gone returns before the slot is cleared.
ConfirmEdit(c, p) ==
  /\ p.kind = "edit"
  /\ tx' = IF p.target \in Ids(tx)
             THEN Execute(tx, c, p,
                    {IF r.id = p.target
                       THEN [r EXCEPT !.expr = p.expr, !.edited = TRUE]
                       ELSE r : r \in tx.rules})
             ELSE tx
  /\ UNCHANGED ruleIds

\* Neither the proposal nor the default names a location: the slot is kept.
ConfirmUnlocated(p) ==
  /\ p.kind # "delete"
  /\ ~p.located
  /\ UNCHANGED <<tx, ruleIds>>

ConfirmDelete(c, p) ==
  /\ p.kind = "delete"
  /\ p.target \notin evaluated
  /\ tx' = IF p.target \in Ids(tx)
             THEN Execute(tx, c, p, {r \in tx.rules : r.id # p.target})
             ELSE Drop(tx, c)
  /\ UNCHANGED ruleIds

\* The runs of the rule refer to it: DELETE raises IntegrityError, and the
\* transaction can only be rolled back.
DeleteRefused(c) ==
  \E p \in Pending(c) : /\ p.kind = "delete"
                        /\ p.target \in evaluated \cap Ids(tx)

\* _execute_confirm, up to the exception of DeleteRefused
Confirm(c) ==
  \/ ConfirmNothing(c)
  \/ \E p \in Pending(c) :
       \/ ConfirmCreate(c, p)
       \/ ConfirmSchedule(c, p)
       \/ ConfirmEdit(c, p)
       \/ ConfirmUnlocated(p)
       \/ ConfirmDelete(c, p)

\* _execute_cancel
Cancel(c) ==
  /\ tx' = Drop(tx, c)
  /\ UNCHANGED ruleIds

\* weather_agent.md: propose, then wait; confirm when the user agrees.
WillingToCall    == Obedient => turn.offered = 0
WillingToConfirm == Obedient => turn.word \in {"yes", "agree"}

\* One tool call of the model.  In an aborted transaction every tool returns
\* its error and changes nothing.
Calls ==
  /\ turn.phase = "agent"
  /\ ~turn.aborted
  /\ turn.rounds < MaxRounds
  /\ WillingToCall

\* propose_notification_rule, schedule_notification, delete_notification
Propose(kind, expr, target, located) ==
  LET p == [n |-> proposals + 1, kind |-> kind, expr |-> expr,
            target |-> target, located |-> located, at |-> now]
  IN /\ Calls
     /\ proposals < MaxProposals
     /\ proposals' = proposals + 1
     /\ tx' = Store(tx, turn.ctx, p)
     /\ turn' = [turn EXCEPT !.rounds = @ + 1, !.offered = p.n]
     /\ UNCHANGED <<now, db, evaluated, disabled, heard, ruleIds, messages>>

ProposeNew(kind, expr, located) ==
  kind \in {"create", "schedule"} /\ Propose(kind, expr, NoRule, located)

\* The id of the rule is looked up only when the edit is confirmed.
ProposeEdit(expr, id, located) == Propose("edit", expr, id, located)

\* The expression of a deletion is of no account.
ProposeDelete(id) ==
  \E r \in tx.rules : r.id = id /\ Propose("delete", r.expr, id, FALSE)

AgentConfirm ==
  /\ Calls
  /\ WillingToConfirm
  /\ \/ Confirm(turn.ctx) /\ turn' = [turn EXCEPT !.rounds = @ + 1]
     \/ /\ DeleteRefused(turn.ctx)
        /\ turn' = [turn EXCEPT !.rounds = @ + 1, !.aborted = TRUE]
        /\ UNCHANGED <<tx, ruleIds>>
  /\ UNCHANGED <<now, db, evaluated, disabled, heard, proposals, messages>>

AgentCancel ==
  /\ Calls
  /\ Cancel(turn.ctx)
  /\ turn' = [turn EXCEPT !.rounds = @ + 1]
  /\ UNCHANGED <<now, db, evaluated, disabled, heard, proposals, messages>>

\* The model answers, or has used up its rounds and answers nothing useful.
Answer ==
  /\ turn.phase = "agent"
  /\ \E shows \in (IF Obedient THEN {TRUE} ELSE BOOLEAN) :
       turn' = [turn EXCEPT !.phase = "save", !.shows = shows]
  /\ UNCHANGED <<now, db, evaluated, disabled, tx, heard, proposals, ruleIds,
                 messages>>

\* invoke_agent_with_timeout: a timeout or an error of the model between two
\* tool calls.  The fallback model begins anew, on what the tools have done.
AgentFails ==
  /\ "agent" \in Faults
  /\ turn.phase = "agent"
  /\ \/ /\ Fallback
        /\ ~turn.retried
        /\ turn' = [turn EXCEPT !.retried = TRUE, !.rounds = 0, !.offered = 0]
     \/ turn' = [turn EXCEPT !.phase = "save", !.shows = FALSE]
  /\ UNCHANGED <<now, db, evaluated, disabled, tx, heard, proposals, ruleIds,
                 messages>>

-----------------------------------------------------------------------------
(* The end of a turn.                                                      *)

\* The session is closed; what was not committed is gone.
EndTurn ==
  /\ turn' = NewTurn(turn.ctx, "other", "idle")
  /\ tx' = db

DirectConfirm ==
  /\ turn.phase = "direct"
  /\ turn.word = "yes"
  /\ Confirm(turn.ctx)
  /\ turn' = [turn EXCEPT !.phase = "save"]
  /\ UNCHANGED <<now, db, evaluated, disabled, heard, proposals, messages>>

DirectCancel ==
  /\ turn.phase = "direct"
  /\ turn.word = "no"
  /\ Cancel(turn.ctx)
  /\ turn' = [turn EXCEPT !.phase = "save"]
  /\ UNCHANGED <<now, db, evaluated, disabled, heard, proposals, messages>>

\* The exception leaves handle_reply: no commit and no reply.
DirectConfirmRaises ==
  /\ turn.phase = "direct"
  /\ turn.word = "yes"
  /\ DeleteRefused(turn.ctx)
  /\ EndTurn
  /\ UNCHANGED <<now, db, evaluated, disabled, heard, proposals, ruleIds,
                 messages>>

\* Mutant: one entry more than the limit is kept.
NewestOneMore(s) ==
  IF Len(s) > MaxHistory + 1 THEN SubSeq(s, Len(s) - MaxHistory, Len(s)) ELSE s

Newest(s) ==
  IF Len(s) > MaxHistory THEN SubSeq(s, Len(s) - MaxHistory + 1, Len(s)) ELSE s

\* save_turn, for the user's message and for the answer
Remember(h) ==
  Newest(Append(Newest(Append(h, [by |-> "user", turn |-> messages])),
                [by |-> "bot", turn |-> messages]))

Saved(d, c) ==
  [d EXCEPT !.history = [d.history EXCEPT ![c] = Remember(@)],
            !.savedAt = [d.savedAt EXCEPT ![c] = now]]

\* save_turn and the commit.  In an aborted transaction save_turn only logs its
\* failure and COMMIT rolls back without an error.
Save ==
  /\ turn.phase = "save"
  /\ db' = IF turn.aborted THEN db ELSE Saved(tx, turn.ctx)
  /\ tx' = db'
  /\ turn' = [turn EXCEPT !.phase = "reply"]
  /\ UNCHANGED <<now, evaluated, disabled, heard, proposals, ruleIds, messages>>

\* reply_text; its failure is only counted.
Reply ==
  /\ turn.phase = "reply"
  /\ \/ heard' = [heard EXCEPT ![turn.ctx] =
                    IF turn.shows /\ turn.offered # 0 THEN turn.offered ELSE @]
     \/ "reply" \in Faults /\ UNCHANGED heard
  /\ EndTurn
  /\ UNCHANGED <<now, db, evaluated, disabled, proposals, ruleIds, messages>>

\* The connection is lost, also when a timeout cancels a statement: the session
\* can no longer commit, and handle_reply raises.
SessionLost ==
  /\ "session" \in Faults
  /\ Open
  /\ EndTurn
  /\ UNCHANGED <<now, db, evaluated, disabled, heard, proposals, ruleIds,
                 messages>>

\* The restarted bot drops pending updates.
Crash ==
  /\ "crash" \in Faults
  /\ turn.phase # "idle"
  /\ EndTurn
  /\ UNCHANGED <<now, db, evaluated, disabled, heard, proposals, ruleIds,
                 messages>>

-----------------------------------------------------------------------------
(* The worker and the clock.                                               *)

\* The worker records a run of an enabled rule.  It waits for a transaction
\* that has deleted the rule.
WorkerEvaluates(id) ==
  /\ id \in Ids(db) \ (evaluated \union disabled)
  /\ Open => id \in Ids(tx)
  /\ evaluated' = evaluated \union {id}
  /\ UNCHANGED <<now, db, disabled, turn, tx, heard, proposals, ruleIds, messages>>

\* A once: rule is disabled after its delivery.
WorkerDisables(id) ==
  /\ \E r \in db.rules : r.id = id /\ r.scheduled
  /\ id \in evaluated \ disabled
  /\ disabled' = disabled \union {id}
  /\ UNCHANGED <<now, db, evaluated, turn, tx, heard, proposals, ruleIds, messages>>

Tick ==
  /\ now < MaxTime
  /\ now' = now + 1
  /\ UNCHANGED <<db, evaluated, disabled, turn, tx, heard, proposals, ruleIds,
                 messages>>

\* The bounded conversation is over.
Silence ==
  /\ turn.phase = "idle"
  /\ messages = MaxMessages
  /\ UNCHANGED vars

Init ==
  /\ now = 0
  /\ db = [slot    |-> [c \in Contexts |-> {}],
           rules   |-> {},
           history |-> [c \in Contexts |-> <<>>],
           savedAt |-> [c \in Contexts |-> 0],
           log     |-> <<>>,
           dropped |-> {}]
  /\ evaluated = {}
  /\ disabled = {}
  /\ \E c \in Contexts : turn = NewTurn(c, "other", "idle")
  /\ tx = db
  /\ heard = [c \in Contexts |-> 0]
  /\ proposals = 0
  /\ ruleIds = 0
  /\ messages = 0

Next ==
  \/ \E c \in Contexts, word \in Words : Receive(c, word)
  \/ \E kind \in Kinds, expr \in Exprs, located \in BOOLEAN :
       ProposeNew(kind, expr, located)
  \/ \E expr \in Exprs, id \in 0..ruleIds, located \in BOOLEAN :
       ProposeEdit(expr, id, located)
  \/ \E id \in Ids(tx) : ProposeDelete(id)
  \/ AgentConfirm
  \/ AgentCancel
  \/ Answer
  \/ AgentFails
  \/ DirectConfirm
  \/ DirectCancel
  \/ DirectConfirmRaises
  \/ Save
  \/ Reply
  \/ SessionLost
  \/ Crash
  \/ \E id \in Ids(db) : WorkerEvaluates(id) \/ WorkerDisables(id)
  \/ Tick
  \/ Silence

Spec == Init /\ [][Next]_vars

-----------------------------------------------------------------------------
(* Properties.                                                             *)

TypeOK ==
  /\ now \in Nat
  /\ db \in Tables
  /\ evaluated \subseteq Nat
  /\ disabled \subseteq Nat
  /\ turn \in Turn
  /\ tx \in Tables
  /\ heard \in [Contexts -> Nat]
  /\ proposals \in Nat
  /\ ruleIds \in Nat
  /\ messages \in Nat
  /\ \A c \in Contexts : \A p, q \in db.slot[c] : p = q

LogNumbers(d) == {d.log[i].n : i \in DOMAIN d.log}

\* A proposal has one fate: it waits in one slot, or it was executed once, or it
\* was cancelled, replaced or expired - whatever fails between the write of the
\* rule and the reply, and however often the tools run again.
Fates(d) ==
  /\ \A i, j \in DOMAIN d.log : d.log[i].n = d.log[j].n => i = j
  /\ LogNumbers(d) \cap d.dropped = {}
  /\ \A c \in Contexts : \A p \in d.slot[c] :
       /\ p.n \notin LogNumbers(d) \union d.dropped
       /\ \A b \in Contexts \ {c} : p.n \notin Numbers(d.slot[b])
OneFate == Fates(db)

\* OneFate for every value of the constants: the same of the committed tables and
\* of the transaction's, whose proposals are all numbered and of the past, none
\* executed after its lifetime.
Tracked(d, made, time) ==
  /\ Fates(d)
  /\ \A c \in Contexts : \A p, q \in d.slot[c] : p = q
  /\ \A c \in Contexts : \A p \in d.slot[c] : p.n <= made /\ p.at <= time
  /\ \A i \in DOMAIN d.log : d.log[i].n <= made /\ d.log[i].age <= Ttl
  /\ \A n \in d.dropped : n <= made
ProposalsTracked ==
  Tracked(db, proposals, now) /\ Tracked(tx, proposals, now)

\* At most one rule exists per confirmed proposal, and every rule has one.
OneRulePerProposal ==
  /\ \A r, q \in db.rules : r.from = q.from \/ r.id = q.id => r = q
  /\ \A r \in db.rules : r.from \in LogNumbers(db)

\* What is executed is what the user was shown last in the thread, not a proposal
\* that has taken its place in the slot since.
UnderstoodConfirm ==
  \A i \in DOMAIN db.log : db.log[i].n = db.log[i].heard

\* A proposal older than its lifetime is never executed, also when it expires
\* between the check for a direct word and the tool.
NothingStale == \A i \in DOMAIN db.log : db.log[i].age <= Ttl

\* No two enabled scheduled rules of a thread say the same, unless one was edited
\* into the other's likeness: find_matching_scheduled_rule came first.
NoScheduledTwins ==
  \A r, q \in db.rules :
    /\ r.scheduled /\ r.id \notin disabled /\ ~r.edited
    /\ q.scheduled /\ q.id \notin disabled /\ ~q.edited
    /\ r.ctx = q.ctx
    /\ r.expr = q.expr
    => r = q

\* The stored history is whole turns in their order, within its limit: trimming
\* and failures never leave an answer without its question.
HistoryPaired ==
  \A c \in Contexts :
    LET h == db.history[c]
    IN /\ Len(h) <= MaxHistory
       /\ \A i \in DOMAIN h : h[i].by = IF i % 2 = 1 THEN "user" ELSE "bot"
       /\ \A i \in DOMAIN h : i % 2 = 0 => h[i].turn = h[i - 1].turn
       /\ \A i, j \in DOMAIN h : i < j => h[i].turn <= h[j].turn

\* A user who says "tak" to a deletion that is pending gets rid of the rule.
ConfirmedDeletionDeletes ==
  [][\A p \in Pending(turn.ctx) :
       /\ turn.phase = "direct" /\ turn.word = "yes" /\ p.kind = "delete"
       /\ turn'.phase # "direct"
       => p.target \notin Ids(tx')]_vars

=============================================================================
