------------------------------- MODULE Access -------------------------------
(***************************************************************************)
(* Whom the bot answers: the process and its pid file (cmd/bot.py,         *)
(* infrastructure/utils.py), the list of users in its memory               *)
(* (domain/auth.py), the table of users and the invite codes               *)
(* (infrastructure/repositories/auth_repository.py), and the commands that *)
(* change them (adapters/telegram/bot.py).                                 *)
(*                                                                         *)
(* A bot handles one update after the other.  There may be several bots:   *)
(* an old one that is still finishing an update while its successor runs,  *)
(* which is what the row locks of the repository are for.  Each has a      *)
(* container of its own.                                                   *)
(***************************************************************************)
EXTENDS Naturals, FiniteSets

CONSTANTS
  Bots,       \* containers of the bot
  Users,      \* Telegram users
  EnvLists,   \* the lists of users an operator may configure
  Codes,      \* invite codes
  Pids,       \* process ids of a container; its first process is always 1
  Lifetime,   \* of a code
  MaxTime,    \* bound: the clock
  MaxKills,   \* bound: processes killed
  MaxDeploys, \* bound: containers created anew
  MaxFaults   \* bound: failing statements and lost answers of the database

NoUser == "nobody"

ASSUME AccessAssumption ==
  /\ EnvLists \subseteq SUBSET Users
  /\ EnvLists # {}
  /\ NoUser \notin Users
  /\ Pids \subseteq Nat \ {0}
  /\ Lifetime \in Nat \ {0}
  /\ MaxTime \in Nat
  /\ MaxKills \in Nat
  /\ MaxDeploys \in Nat
  /\ MaxFaults \in Nat

VARIABLES
  users,      \* the committed rows of authorized_users
  invites,    \* the committed codes of global_settings
  env,        \* per bot: the configured list of its container
  proc,       \* per bot: where its process is, and the redemption it handles
  allowed,    \* per bot: AuthorizationService._allowed
  admins,     \* per bot: AuthorizationService._admins
  file,       \* per bot: the pid in its pid file, or NoPid
  now,
  admitted,   \* history: the redemptions committed
  configured, \* history: users who were on a list that some process has read
  spent       \* counters: kills, deploys, faults

vars == <<users, invites, env, proc, allowed, admins, file, now, admitted,
          configured, spent>>
db == <<users, invites>>
memory == <<allowed, admins>>
container == <<env, file>>
histories == <<admitted, configured>>

-----------------------------------------------------------------------------
(* Rows, codes and processes.                                              *)

NoPid == 0

\* StoredInviteCode: expires_at and used_by.  A code is absent, or it is stored
\* and then used at most once.
Invite == [expires : Nat, usedBy : Users \union {NoUser}]
NoInvite == [expires |-> 0, usedBy |-> NoUser]

Stored(c) == invites[c] # NoInvite

\* redeem_invite_code, statement by statement; "remember" is after its commit.
Redeeming == {"lock", "add", "insert", "commit", "remember"}
Pc == {"down", "loading", "serving"} \union Redeeming

Proc == [pc : Pc, user : Users \union {NoUser}, code : SUBSET Codes,
         asked : Nat, pid : Pids \union {NoPid}]

\* A process that handles no redemption.
Process(pc, pid) ==
  [pc |-> pc, user |-> NoUser, code |-> {}, asked |-> 0, pid |-> pid]

Down == Process("down", NoPid)

At(b, pc) == proc[b].pc = pc

Goto(b, pc) == proc' = [proc EXCEPT ![b].pc = pc]

\* The update is handled: what it was about is forgotten.
Serve(b) == proc' = [proc EXCEPT ![b] = Process("serving", proc[b].pid)]

Spend(kind) == spent' = [spent EXCEPT ![kind] = @ + 1]

\* Mutant: the code is read without FOR UPDATE.
HoldsNothing(b, c) == FALSE

\* The locks of the open transactions: the row of the code from its FOR UPDATE,
\* the unique telegram_user_id from the INSERT on.
HoldsInvite(b, c) ==
  proc[b].pc \in {"add", "insert", "commit"} /\ c \in proc[b].code

HoldsUser(b, u) == At(b, "commit") /\ proc[b].user = u /\ u \notin users

-----------------------------------------------------------------------------
(* The process.                                                            *)

\* acquire_lock: a file with the pid of a process that exists is respected.  The
\* only process of the container is the one that asks.
LockFree(b, pid) == file[b] # pid

\* The lock is taken before the settings are loaded and the tables migrated.
Boot(b, pid) ==
  /\ At(b, "down")
  /\ LockFree(b, pid)
  /\ file' = [file EXCEPT ![b] = pid]
  /\ proc' = [proc EXCEPT ![b] = Process("loading", pid)]
  /\ UNCHANGED <<db, env, memory, now, histories, spent>>

\* Mutant: only the configured users are loaded.
KnownEnv(b) == env[b]

\* The configured users and those on record, all of them as administrators.
Known(b) == env[b] \union users

Load(b) ==
  /\ At(b, "loading")
  /\ allowed' = [allowed EXCEPT ![b] = Known(b)]
  /\ admins' = [admins EXCEPT ![b] = Known(b)]
  /\ configured' = configured \union env[b]
  /\ Serve(b)
  /\ UNCHANGED <<db, container, now, admitted, spent>>

\* The process ends with an exception or an interrupt: its finally removes the
\* pid file.
Stop(b) ==
  /\ proc[b].pc \in {"loading", "serving"}
  /\ spent["kills"] < MaxKills
  /\ file' = [file EXCEPT ![b] = NoPid]
  /\ proc' = [proc EXCEPT ![b] = Down]
  /\ Spend("kills")
  /\ UNCHANGED <<db, env, memory, now, histories>>

\* The process is killed: its transaction is rolled back, its file stays.
Kill(b) ==
  /\ ~At(b, "down")
  /\ spent["kills"] < MaxKills
  /\ proc' = [proc EXCEPT ![b] = Down]
  /\ Spend("kills")
  /\ UNCHANGED <<db, container, memory, now, histories>>

\* A deployment: a new container with a list of its own and no file.
Recreate(b, list) ==
  /\ At(b, "down")
  /\ spent["deploys"] < MaxDeploys
  /\ env' = [env EXCEPT ![b] = list]
  /\ file' = [file EXCEPT ![b] = NoPid]
  /\ Spend("deploys")
  /\ UNCHANGED <<db, proc, memory, now, histories>>

-----------------------------------------------------------------------------
(* Commands.                                                               *)

\* /kod: a new code, in a transaction of its own.
Kod(b, u, c) ==
  /\ At(b, "serving")
  /\ u \in admins[b]
  /\ ~Stored(c)
  /\ invites' = [invites EXCEPT ![c].expires = now + Lifetime]
  /\ UNCHANGED <<users, proc, container, memory, now, histories, spent>>

\* A message or /dodaj_lok of somebody the bot knows: his row is created if
\* there is none (get_or_create_authorized_user_id).
Converse(b, u) ==
  /\ At(b, "serving")
  /\ u \in allowed[b]
  /\ \A o \in Bots : ~HoldsUser(o, u)
  /\ users' = users \union {u}
  /\ UNCHANGED <<invites, proc, container, memory, now, histories, spent>>

\* /start with a code, of somebody the bot does not know and who is not on record
\* (ALREADY_AUTHORIZED needs no code and changes nothing).  The time of the request
\* is the one the expiry is compared with.
Ask(b, u, c) ==
  /\ At(b, "serving")
  /\ u \notin allowed[b]
  /\ u \notin users
  /\ proc' = [proc EXCEPT ![b] = [pc |-> "lock", user |-> u, code |-> {c},
                                  asked |-> now, pid |-> proc[b].pid]]
  /\ UNCHANGED <<db, container, memory, now, histories, spent>>

Expired(c, asked) == invites[c].expires <= asked

Usable(c, asked) ==
  /\ Stored(c)
  /\ invites[c].usedBy = NoUser
  /\ ~Expired(c, asked)

\* SELECT ... FOR UPDATE waits for the transaction that has the row and then
\* sees what it committed.
LockInvite(b, c) ==
  /\ At(b, "lock")
  /\ c \in proc[b].code
  /\ \A o \in Bots \ {b} : ~HoldsInvite(o, c)
  /\ IF Usable(c, proc[b].asked) THEN Goto(b, "add") ELSE Serve(b)
  /\ UNCHANGED <<db, container, memory, now, histories, spent>>

\* add_user looks for the row before it inserts one.
SelectUser(b) ==
  /\ At(b, "add")
  /\ Goto(b, IF proc[b].user \in users THEN "commit" ELSE "insert")
  /\ UNCHANGED <<db, container, memory, now, histories, spent>>

\* Mutant: a failed INSERT is repeated in the same transaction.
InsertUserAgain(b) ==
  /\ At(b, "insert")
  /\ \A o \in Bots \ {b} : ~HoldsUser(o, proc[b].user)
  /\ IF proc[b].user \in users THEN UNCHANGED proc ELSE Goto(b, "commit")
  /\ UNCHANGED <<db, container, memory, now, histories, spent>>

\* The INSERT waits for a transaction that has inserted the same user, and fails
\* if that one commits: the exception is answered, the transaction rolled back.
InsertUser(b) ==
  /\ At(b, "insert")
  /\ \A o \in Bots \ {b} : ~HoldsUser(o, proc[b].user)
  /\ IF proc[b].user \in users THEN Serve(b) ELSE Goto(b, "commit")
  /\ UNCHANGED <<db, container, memory, now, histories, spent>>

\* Mutant: the mark names the code.
AdmitNamingCode(b, c, answered) ==
  /\ users' = users \union {proc[b].user}
  /\ invites' = [invites EXCEPT ![c].usedBy = c]
  /\ admitted' = admitted

\* The user and the mark on the code become visible together.
Admit(b, c, answered) ==
  /\ users' = users \union {proc[b].user}
  /\ invites' = [invites EXCEPT ![c].usedBy = proc[b].user]
  /\ admitted' = admitted \union {[code |-> c, user |-> proc[b].user,
                                   bot |-> b, answered |-> answered]}

Commit(b, c) ==
  /\ At(b, "commit")
  /\ c \in proc[b].code
  /\ Admit(b, c, TRUE)
  /\ Goto(b, "remember")
  /\ UNCHANGED <<container, memory, now, configured, spent>>

\* The commit is done, but its answer is an exception: the user is told to try
\* again, and this process does not know him.
CommitUnanswered(b, c) ==
  /\ At(b, "commit")
  /\ c \in proc[b].code
  /\ spent["faults"] < MaxFaults
  /\ Admit(b, c, FALSE)
  /\ Serve(b)
  /\ Spend("faults")
  /\ UNCHANGED <<container, memory, now, configured>>

\* A statement fails: rollback, and the user is told to try again.
StatementFails(b) ==
  /\ proc[b].pc \in {"lock", "add", "insert", "commit"}
  /\ spent["faults"] < MaxFaults
  /\ Serve(b)
  /\ Spend("faults")
  /\ UNCHANGED <<db, container, memory, now, histories>>

\* Mutant: the user is known before the commit.
RememberEarly(b) ==
  /\ proc[b].pc \in {"commit", "remember"}
  /\ allowed' = [allowed EXCEPT ![b] = @ \union {proc[b].user}]
  /\ IF At(b, "remember") THEN Serve(b) ELSE UNCHANGED proc
  /\ UNCHANGED <<db, container, admins, now, histories, spent>>

\* add_authorized_user: after the commit.
Remember(b) ==
  /\ At(b, "remember")
  /\ allowed' = [allowed EXCEPT ![b] = @ \union {proc[b].user}]
  /\ Serve(b)
  /\ UNCHANGED <<db, container, admins, now, histories, spent>>

Tick ==
  /\ now < MaxTime
  /\ now' = now + 1
  /\ UNCHANGED <<db, container, proc, memory, histories, spent>>

-----------------------------------------------------------------------------
Init ==
  /\ users = {}
  /\ invites = [c \in Codes |-> NoInvite]
  /\ env \in [Bots -> EnvLists]
  /\ proc = [b \in Bots |-> Down]
  /\ allowed = [b \in Bots |-> {}]
  /\ admins = [b \in Bots |-> {}]
  /\ file = [b \in Bots |-> NoPid]
  /\ now = 0
  /\ admitted = {}
  /\ configured = {}
  /\ spent = [kind \in {"kills", "deploys", "faults"} |-> 0]

\* What a process does by itself.
Step(b) ==
  \/ \E pid \in Pids : Boot(b, pid)
  \/ Load(b)
  \/ \E c \in Codes : LockInvite(b, c)
  \/ SelectUser(b)
  \/ InsertUser(b)
  \/ \E c \in Codes : Commit(b, c)
  \/ Remember(b)

Next ==
  \/ \E b \in Bots :
       \/ Step(b)
       \/ Stop(b)
       \/ Kill(b)
       \/ \E list \in EnvLists : Recreate(b, list)
       \/ \E u \in Users, c \in Codes : Kod(b, u, c)
       \/ \E u \in Users : Converse(b, u)
       \/ \E u \in Users, c \in Codes : Ask(b, u, c)
       \/ \E c \in Codes : CommitUnanswered(b, c)
       \/ StatementFails(b)
  \/ Tick

Spec == Init /\ [][Next]_vars

\* asyncio, the database and Docker's restart policy run what can run.
FairSpec == Spec /\ \A b \in Bots : WF_vars(Step(b))

-----------------------------------------------------------------------------
(* Properties.                                                             *)

Admission ==
  [code : Codes, user : Users, bot : Bots, answered : BOOLEAN]

TypeOK ==
  /\ users \subseteq Users
  /\ invites \in [Codes -> Invite]
  /\ env \in [Bots -> EnvLists]
  /\ proc \in [Bots -> Proc]
  /\ allowed \in [Bots -> SUBSET Users]
  /\ admins \in [Bots -> SUBSET Users]
  /\ file \in [Bots -> Pids \union {NoPid}]
  /\ now \in Nat
  /\ admitted \subseteq Admission
  /\ configured \subseteq Users
  /\ spent \in [{"kills", "deploys", "faults"} -> Nat]

\* A code admits one user ("dziala tylko raz"), however many bots redeem it at
\* once, die, or lose the answer to their commit.
OneUserPerCode ==
  \A a, o \in admitted : a.code = o.code => a.user = o.user

\* Whom a bot knows was configured or is on record: nobody is let in on the
\* strength of a transaction that may still be rolled back, and the next process
\* knows everybody this one knows.  Whoever is on record was configured once or
\* was admitted by a code.
AccessBacked ==
  /\ \A b \in Bots : allowed[b] \subseteq configured \union users
  /\ users \subseteq configured \union {a.user : a \in admitted}

\* A bot turns somebody on record away for two reasons only: another bot wrote
\* the row after this one had read the table, or the answer to the commit was
\* lost.  (Then it says both "you have access already" and "no access" until it
\* is restarted.)
StrangersExplained ==
  \A b \in Bots : proc[b].pc \notin {"down", "loading"} =>
    \A u \in users \ allowed[b] :
      \/ At(b, "remember") /\ proc[b].user = u
      \/ \E o \in Bots \ {b} : u \in allowed[o]
      \/ \E a \in admitted : a.user = u /\ (a.bot # b \/ ~a.answered)

\* Every redemption ends: bots that wait for each other's rows do not do so in a
\* circle.
RedemptionEnds ==
  \A b \in Bots : proc[b].pc \in Redeeming ~> proc[b].pc \notin Redeeming
=============================================================================
