---------------------------- MODULE AccessProofs ----------------------------
(***************************************************************************)
(* Proofs about Access, for any bots, users, codes and bounds.             *)
(*                                                                         *)
(* IInv is inductive.  Beyond the types it says what the row lock of a     *)
(* redemption is worth: no two open transactions hold the same code, and a *)
(* code that is held is unused (Locks); every admission is marked on its   *)
(* code (Marks); and a process that is about to remember a user has him on *)
(* record (Remembered).                                                    *)
(***************************************************************************)
EXTENDS Access, TLAPS

Holding == {"add", "insert", "commit"}

\* What a redemption has at hand: a user, and one code, which from its lock on is
\* unused and nobody else's.
Locks ==
  /\ \A b \in Bots : proc[b].pc \in Redeeming => proc[b].user \in Users
  /\ \A b \in Bots : \A c, d \in proc[b].code : c = d
  /\ \A b \in Bots : proc[b].pc \in Holding =>
       \A c \in proc[b].code : invites[c].usedBy = NoUser
  /\ \A b, o \in Bots : proc[b].pc \in Holding /\ proc[o].pc \in Holding /\ b # o =>
       proc[b].code \cap proc[o].code = {}

Marks == \A a \in admitted : invites[a.code].usedBy = a.user

Remembered == \A b \in Bots : At(b, "remember") => proc[b].user \in users

IInv ==
  /\ TypeOK
  /\ Locks
  /\ Marks
  /\ Remembered
  /\ AccessBacked
  /\ StrangersExplained

-----------------------------------------------------------------------------

\* A process goes on to the next statement of what it handles.
LEMMA GotoStep ==
  ASSUME TypeOK, NEW b \in Bots, NEW pc \in Pc, Goto(b, pc)
  PROVE  /\ proc' \in [Bots -> Proc]
         /\ proc'[b] = [proc[b] EXCEPT !.pc = pc]
         /\ \A o \in Bots \ {b} : proc'[o] = proc[o]
<1>1. proc[b] \in Proc
  BY DEF TypeOK
<1>2. [proc[b] EXCEPT !.pc = pc] \in Proc
  BY <1>1 DEF Proc
<1>3. proc' = [proc EXCEPT ![b] = [proc[b] EXCEPT !.pc = pc]]
  BY DEF Goto, TypeOK
<1> QED
  BY <1>2, <1>3 DEF TypeOK

\* A process that has nothing at hand, whatever its state and its pid.
LEMMA DownStep ==
  ASSUME TypeOK, NEW b \in Bots, NEW pc \in {"down", "loading", "serving"},
         NEW pid \in Pids \union {NoPid},
         proc' = [proc EXCEPT ![b] = Process(pc, pid)]
  PROVE  /\ proc' \in [Bots -> Proc]
         /\ proc'[b].pc = pc /\ proc'[b].code = {}
         /\ \A o \in Bots \ {b} : proc'[o] = proc[o]
<1>1. Process(pc, pid) \in Proc
  BY DEF Process, Proc, Pc
<1>2. Process(pc, pid).pc = pc /\ Process(pc, pid).code = {}
  BY DEF Process
<1> QED
  BY <1>1, <1>2 DEF TypeOK

LEMMA ServeStep ==
  ASSUME TypeOK, NEW b \in Bots, Serve(b)
  PROVE  /\ proc' \in [Bots -> Proc]
         /\ proc'[b].pc = "serving" /\ proc'[b].code = {}
         /\ \A o \in Bots \ {b} : proc'[o] = proc[o]
<1>1. proc[b].pid \in Pids \union {NoPid}
  BY DEF TypeOK, Proc
<1> QED
  BY <1>1, DownStep DEF Serve

LEMMA SpendStep ==
  ASSUME TypeOK, NEW kind \in {"kills", "deploys", "faults"}, Spend(kind)
  PROVE  spent' \in [{"kills", "deploys", "faults"} -> Nat]
BY DEF TypeOK, Spend

\* What Locks and StrangersExplained say, if a process drops what it handled, or
\* goes from one statement to the next without a new code, and the rows stay.
LEMMA QuietStep ==
  ASSUME IInv, NEW b \in Bots, proc' \in [Bots -> Proc],
         UNCHANGED <<users, invites, allowed, admitted, configured>>,
         \A o \in Bots \ {b} : proc'[o] = proc[o],
         ~At(b, "remember"), proc'[b].pc # "remember",
         \/ /\ proc'[b].pc \in {"down", "loading", "serving"}
            /\ proc'[b].code = {}
            /\ proc'[b].pc = "serving" => proc[b].pc \notin {"down", "loading"}
         \/ /\ proc[b].pc \in Holding /\ proc'[b].pc \in Holding
            /\ proc'[b].code = proc[b].code /\ proc'[b].user = proc[b].user
  PROVE  Locks' /\ Marks' /\ Remembered' /\ AccessBacked' /\ StrangersExplained'
<1>1. Locks'
  BY DEF IInv, Locks, Holding, Redeeming
<1>2. Marks' /\ AccessBacked'
  BY DEF IInv, Marks, AccessBacked
<1>3. Remembered'
  BY DEF IInv, Remembered, At
<1>4. StrangersExplained'
  BY DEF IInv, StrangersExplained, At, Holding
<1> QED
  BY <1>1, <1>2, <1>3, <1>4

-----------------------------------------------------------------------------
(* Types.                                                                  *)

LEMMA TypeInit == ASSUME Init PROVE TypeOK
<1>1. Down \in Proc
  BY DEF Down, Process, Proc, Pc
<1>2. NoInvite \in Invite
  BY DEF NoInvite, Invite
<1> QED
  BY <1>1, <1>2 DEF Init, TypeOK

\* The rows of an admission, whether its answer arrives or not.
LEMMA AdmitTypes ==
  ASSUME TypeOK, Locks, NEW b \in Bots, NEW c \in Codes, NEW answered \in BOOLEAN,
         proc[b].pc = "commit", Admit(b, c, answered)
  PROVE  /\ users' \subseteq Users
         /\ invites' \in [Codes -> Invite]
         /\ admitted' \subseteq Admission
<1>1. proc[b].user \in Users
  BY DEF Locks, Redeeming
<1>2. [invites[c] EXCEPT !.usedBy = proc[b].user] \in Invite
  BY <1>1 DEF TypeOK, Invite
<1>3. invites' = [invites EXCEPT ![c] = [invites[c] EXCEPT !.usedBy = proc[b].user]]
  BY DEF Admit, TypeOK
<1>4. [code |-> c, user |-> proc[b].user, bot |-> b, answered |-> answered] \in Admission
  BY <1>1 DEF Admission
<1> QED
  BY <1>1, <1>2, <1>3, <1>4 DEF TypeOK, Admit

LEMMA TypeNext == ASSUME IInv, [Next]_vars PROVE TypeOK'
<1> USE AccessAssumption
<1>0. TypeOK /\ Locks
  BY DEF IInv
<1>1. ASSUME UNCHANGED vars PROVE TypeOK'
  BY <1>0, <1>1 DEF TypeOK, vars
<1>2. ASSUME Tick PROVE TypeOK'
  BY <1>0, <1>2 DEF Tick, TypeOK, db, container, memory, histories
<1>3. ASSUME NEW b \in Bots, NEW pid \in Pids, Boot(b, pid) PROVE TypeOK'
  <2>1. proc' \in [Bots -> Proc]
    BY <1>0, <1>3, DownStep DEF Boot
  <2> QED
    BY <1>0, <1>3, <2>1 DEF Boot, TypeOK, db, memory, histories
<1>4. ASSUME NEW b \in Bots, Load(b) PROVE TypeOK'
  <2>1. proc' \in [Bots -> Proc]
    BY <1>0, <1>4, ServeStep DEF Load
  <2>2. env[b] \subseteq Users
    BY <1>0 DEF TypeOK
  <2> QED
    BY <1>0, <1>4, <2>1, <2>2 DEF Load, Known, TypeOK, db, container
<1>5. ASSUME NEW b \in Bots, Stop(b) \/ Kill(b) PROVE TypeOK'
  <2>1. Down \in Proc
    BY DEF Down, Process, Proc, Pc
  <2>3. proc' \in [Bots -> Proc]
    BY <1>0, <1>5, <2>1 DEF Stop, Kill, TypeOK
  <2>4. spent' \in [{"kills", "deploys", "faults"} -> Nat]
    BY <1>0, <1>5, SpendStep DEF Stop, Kill
  <2> QED
    BY <1>0, <1>5, <2>3, <2>4 DEF Stop, Kill, TypeOK, db, memory, container, histories
<1>6. ASSUME NEW b \in Bots, NEW list \in EnvLists, Recreate(b, list) PROVE TypeOK'
  <2>1. spent' \in [{"kills", "deploys", "faults"} -> Nat]
    BY <1>0, <1>6, SpendStep DEF Recreate
  <2> QED
    BY <1>0, <1>6, <2>1 DEF Recreate, TypeOK, db, memory, histories
<1>7. ASSUME NEW b \in Bots, NEW u \in Users, NEW c \in Codes, Kod(b, u, c) PROVE TypeOK'
  <2>1. [invites[c] EXCEPT !.expires = now + Lifetime] \in Invite
    BY <1>0 DEF TypeOK, Invite
  <2>2. invites' = [invites EXCEPT ![c] = [invites[c] EXCEPT !.expires = now + Lifetime]]
    BY <1>0, <1>7 DEF Kod, TypeOK
  <2> QED
    BY <1>0, <1>7, <2>1, <2>2 DEF Kod, TypeOK, container, memory, histories
<1>8. ASSUME NEW b \in Bots, NEW u \in Users, Converse(b, u) PROVE TypeOK'
  BY <1>0, <1>8 DEF Converse, TypeOK, container, memory, histories
<1>9. ASSUME NEW b \in Bots, NEW u \in Users, NEW c \in Codes, Ask(b, u, c) PROVE TypeOK'
  <2> DEFINE P == [pc |-> "lock", user |-> u, code |-> {c}, asked |-> now,
                   pid |-> proc[b].pid]
  <2>1. P \in Proc
    BY <1>0 DEF TypeOK, Proc, Pc, Redeeming
  <2>2. proc' = [proc EXCEPT ![b] = P]
    BY <1>9 DEF Ask
  <2> QED
    BY <1>0, <1>9, <2>1, <2>2 DEF Ask, TypeOK, db, container, memory, histories
<1>10. ASSUME NEW b \in Bots, NEW c \in Codes, LockInvite(b, c) PROVE TypeOK'
  <2>1. proc' \in [Bots -> Proc]
    BY <1>0, <1>10, GotoStep, ServeStep DEF LockInvite, Pc, Redeeming
  <2> QED
    BY <1>0, <1>10, <2>1 DEF LockInvite, TypeOK, db, container, memory, histories
<1>11. ASSUME NEW b \in Bots, SelectUser(b) \/ InsertUser(b) PROVE TypeOK'
  <2>1. proc' \in [Bots -> Proc]
    BY <1>0, <1>11, GotoStep, ServeStep DEF SelectUser, InsertUser, Pc, Redeeming
  <2> QED
    BY <1>0, <1>11, <2>1 DEF SelectUser, InsertUser, TypeOK, db, container, memory, histories
<1>12. ASSUME NEW b \in Bots, NEW c \in Codes, Commit(b, c) PROVE TypeOK'
  <2>1. proc' \in [Bots -> Proc]
    BY <1>0, <1>12, GotoStep DEF Commit, Pc, Redeeming
  <2> QED
    BY <1>0, <1>12, <2>1, AdmitTypes DEF Commit, At, TypeOK, container, memory
<1>13. ASSUME NEW b \in Bots, NEW c \in Codes, CommitUnanswered(b, c) PROVE TypeOK'
  <2>1. proc' \in [Bots -> Proc]
    BY <1>0, <1>13, ServeStep DEF CommitUnanswered
  <2>2. spent' \in [{"kills", "deploys", "faults"} -> Nat]
    BY <1>0, <1>13, SpendStep DEF CommitUnanswered
  <2> QED
    BY <1>0, <1>13, <2>1, <2>2, AdmitTypes DEF CommitUnanswered, At, TypeOK, container, memory
<1>14. ASSUME NEW b \in Bots, StatementFails(b) PROVE TypeOK'
  <2>1. proc' \in [Bots -> Proc]
    BY <1>0, <1>14, ServeStep DEF StatementFails
  <2>2. spent' \in [{"kills", "deploys", "faults"} -> Nat]
    BY <1>0, <1>14, SpendStep DEF StatementFails
  <2> QED
    BY <1>0, <1>14, <2>1, <2>2 DEF StatementFails, TypeOK, db, container, memory, histories
<1>15. ASSUME NEW b \in Bots, Remember(b) PROVE TypeOK'
  <2>1. proc' \in [Bots -> Proc]
    BY <1>0, <1>15, ServeStep DEF Remember
  <2>2. proc[b].user \in Users
    BY <1>0, <1>15 DEF Locks, Redeeming, Remember, At
  <2> QED
    BY <1>0, <1>15, <2>1, <2>2 DEF Remember, TypeOK, db, container, histories
<1> QED
  BY <1>1, <1>2, <1>3, <1>4, <1>5, <1>6, <1>7, <1>8, <1>9, <1>10, <1>11, <1>12, <1>13,
     <1>14, <1>15 DEF Next, Step

-----------------------------------------------------------------------------
(* The steps that change more than where a process is.                     *)

\* Admit: the code was unused and is nobody else's, and the row comes with it.
LEMMA AdmitStep ==
  ASSUME IInv, NEW b \in Bots, NEW c \in Codes, NEW answered \in BOOLEAN,
         c \in proc[b].code, proc[b].pc = "commit", Admit(b, c, answered),
         UNCHANGED <<allowed, configured>>,
         proc' \in [Bots -> Proc],
         \A o \in Bots \ {b} : proc'[o] = proc[o],
         \/ /\ ~answered
            /\ proc'[b].pc = "serving" /\ proc'[b].code = {}
         \/ /\ answered
            /\ proc'[b].pc = "remember"
            /\ proc'[b].user = proc[b].user /\ proc'[b].code = proc[b].code
  PROVE  Locks' /\ Marks' /\ Remembered' /\ AccessBacked' /\ StrangersExplained'
<1> DEFINE a == [code |-> c, user |-> proc[b].user, bot |-> b, answered |-> answered]
<1>1. proc[b].user \in Users /\ proc[b].user # NoUser
  BY AccessAssumption DEF IInv, Locks, Redeeming
<1>2. invites[c].usedBy = NoUser
  BY DEF IInv, Locks, Holding
<1>3. /\ invites'[c].usedBy = proc[b].user
      /\ \A d \in Codes \ {c} : invites'[d] = invites[d]
  BY DEF IInv, TypeOK, Admit, Invite
<1>4. users' = users \union {proc[b].user} /\ admitted' = admitted \union {a}
  BY DEF Admit
<1>5. a.code = c /\ a.user = proc[b].user /\ a.bot = b /\ a.answered = answered
  OBVIOUS
<1> HIDE DEF a
<1>6. \A x \in admitted : x.code \in Codes \ {c} /\ x.user \in Users
  <2>1. \A x \in admitted : x.code \in Codes /\ x.user \in Users
    BY DEF IInv, TypeOK, Admission
  <2> QED
    BY <1>2, <2>1, AccessAssumption DEF IInv, Marks
<1>7. Locks'
  <2>1. \A o \in Bots : proc'[o].pc \in Holding => o # b /\ proc[o].pc \in Holding
    BY DEF Holding
  <2>2. \A o \in Bots : o # b /\ proc[o].pc \in Holding => c \notin proc[o].code
    BY DEF IInv, Locks, Holding
  <2>3. \A o \in Bots : proc[o].code \subseteq Codes
    BY DEF IInv, TypeOK, Proc
  <2>4. \A o \in Bots : proc'[o].pc \in Holding =>
           \A d \in proc'[o].code : invites'[d].usedBy = NoUser
    BY <1>3, <2>1, <2>2, <2>3 DEF IInv, Locks
  <2>5. \A o \in Bots : proc'[o].pc \in Redeeming => proc'[o].user \in Users
    BY <1>1 DEF IInv, Locks, Redeeming
  <2>6. \A o \in Bots : \A d, e \in proc'[o].code : d = e
    BY DEF IInv, Locks
  <2>7. \A o, q \in Bots : proc'[o].pc \in Holding /\ proc'[q].pc \in Holding /\ o # q =>
           proc'[o].code \cap proc'[q].code = {}
    BY <2>1 DEF IInv, Locks
  <2> QED
    BY <2>4, <2>5, <2>6, <2>7 DEF Locks
<1>8. Marks'
  BY <1>3, <1>4, <1>5, <1>6 DEF IInv, Marks
<1>9. Remembered'
  BY <1>4 DEF IInv, Remembered, At
<1>10. AccessBacked'
  BY <1>4, <1>5 DEF IInv, AccessBacked
<1>11. StrangersExplained'
  <2> SUFFICES ASSUME NEW o \in Bots, proc'[o].pc \notin {"down", "loading"},
                      NEW u \in users' \ allowed'[o]
               PROVE  \/ At(o, "remember")' /\ proc'[o].user = u
                      \/ \E q \in Bots \ {o} : u \in allowed'[q]
                      \/ \E x \in admitted' : x.user = u /\ (x.bot # o \/ ~x.answered)
    BY DEF StrangersExplained
  <2>1. CASE u = proc[b].user
    BY <1>4, <1>5, <2>1 DEF At
  <2>2. CASE u # proc[b].user
    BY <1>4, <2>2 DEF IInv, StrangersExplained, At
  <2> QED
    BY <2>1, <2>2
<1> QED
  BY <1>7, <1>8, <1>9, <1>10, <1>11

\* The process knows whom it is told of at the end of a redemption.
LEMMA RememberStep ==
  ASSUME IInv, NEW b \in Bots, Remember(b)
  PROVE  Locks' /\ Marks' /\ Remembered' /\ AccessBacked' /\ StrangersExplained'
<1>1. /\ proc' \in [Bots -> Proc]
      /\ proc'[b].pc = "serving" /\ proc'[b].code = {}
      /\ \A o \in Bots \ {b} : proc'[o] = proc[o]
  BY ServeStep DEF IInv, Remember
<1>2. /\ allowed'[b] = allowed[b] \union {proc[b].user}
      /\ \A o \in Bots \ {b} : allowed'[o] = allowed[o]
      /\ UNCHANGED <<users, invites, admitted, configured>>
      /\ proc[b].pc = "remember"
  BY DEF IInv, TypeOK, Remember, db, histories, At
<1>3. Locks'
  BY <1>1, <1>2 DEF IInv, Locks, Holding, Redeeming
<1>4. Marks' /\ Remembered'
  BY <1>1, <1>2 DEF IInv, Marks, Remembered, At
<1>5. AccessBacked'
  BY <1>2 DEF IInv, AccessBacked, Remembered, At
<1>6. StrangersExplained'
  BY <1>1, <1>2 DEF IInv, StrangersExplained, At
<1> QED
  BY <1>3, <1>4, <1>5, <1>6

\* A process that starts knows everybody on record.
LEMMA LoadStep ==
  ASSUME IInv, NEW b \in Bots, Load(b)
  PROVE  Locks' /\ Marks' /\ Remembered' /\ AccessBacked' /\ StrangersExplained'
<1>1. /\ proc' \in [Bots -> Proc]
      /\ proc'[b].pc = "serving" /\ proc'[b].code = {}
      /\ \A o \in Bots \ {b} : proc'[o] = proc[o]
  BY ServeStep DEF IInv, Load
<1>2. /\ allowed'[b] = env[b] \union users
      /\ \A o \in Bots \ {b} : allowed'[o] = allowed[o]
      /\ configured' = configured \union env[b]
      /\ UNCHANGED <<users, invites, admitted>>
      /\ proc[b].pc = "loading"
  BY DEF IInv, TypeOK, Load, Known, db, At
<1>3. Locks'
  BY <1>1, <1>2 DEF IInv, Locks, Holding, Redeeming
<1>4. Marks' /\ Remembered'
  BY <1>1, <1>2 DEF IInv, Marks, Remembered, At
<1>5. AccessBacked'
  BY <1>2 DEF IInv, AccessBacked
<1>6. StrangersExplained'
  BY <1>1, <1>2 DEF IInv, StrangersExplained, At
<1> QED
  BY <1>3, <1>4, <1>5, <1>6

\* SELECT ... FOR UPDATE: the code is unused and becomes this process's.
LEMMA LockStep ==
  ASSUME IInv, NEW b \in Bots, NEW c \in Codes, LockInvite(b, c)
  PROVE  Locks' /\ Marks' /\ Remembered' /\ AccessBacked' /\ StrangersExplained'
<1>1. /\ proc[b].pc = "lock" /\ c \in proc[b].code
      /\ \A o \in Bots \ {b} : proc[o].pc \in Holding => c \notin proc[o].code
      /\ UNCHANGED <<users, invites, allowed, admitted, configured>>
  BY DEF LockInvite, At, HoldsInvite, Holding, db, memory, histories
<1>2. CASE Usable(c, proc[b].asked)
  <2>1. /\ proc' \in [Bots -> Proc]
        /\ proc'[b] = [proc[b] EXCEPT !.pc = "add"]
        /\ \A o \in Bots \ {b} : proc'[o] = proc[o]
    BY <1>2, GotoStep DEF IInv, LockInvite, Pc, Redeeming
  <2>2. /\ proc'[b].pc = "add" /\ proc'[b].user = proc[b].user
        /\ proc'[b].code = proc[b].code
        /\ \A o \in Bots \ {b} : proc'[o] = proc[o]
    BY <2>1 DEF IInv, TypeOK, Proc
  <2>3. invites[c].usedBy = NoUser /\ proc[b].code = {c}
    BY <1>1, <1>2 DEF Usable, IInv, Locks
  <2>4. Locks'
    <3>1. \A o \in Bots : proc'[o].pc \in Redeeming => proc'[o].user \in Users
      BY <1>1, <2>2 DEF IInv, Locks, Redeeming
    <3>2. \A o \in Bots : \A d, e \in proc'[o].code : d = e
      BY <2>2 DEF IInv, Locks
    <3>3. \A o \in Bots : proc'[o].pc \in Holding =>
             \A d \in proc'[o].code : invites'[d].usedBy = NoUser
      BY <1>1, <2>2, <2>3 DEF IInv, Locks
    <3>4. \A o, q \in Bots : proc'[o].pc \in Holding /\ proc'[q].pc \in Holding /\ o # q =>
             proc'[o].code \cap proc'[q].code = {}
      BY <1>1, <2>2, <2>3 DEF IInv, Locks
    <3> QED
      BY <3>1, <3>2, <3>3, <3>4 DEF Locks
  <2>5. Marks' /\ AccessBacked'
    BY <1>1 DEF IInv, Marks, AccessBacked
  <2>6. Remembered' /\ StrangersExplained'
    BY <1>1, <2>2 DEF IInv, Remembered, StrangersExplained, At
  <2> QED
    BY <2>4, <2>5, <2>6
<1>3. CASE ~Usable(c, proc[b].asked)
  BY <1>1, <1>3, ServeStep, QuietStep DEF IInv, LockInvite, At
<1> QED
  BY <1>2, <1>3

\* A message or a location of somebody the bot knows.
LEMMA ConverseStep ==
  ASSUME IInv, NEW b \in Bots, NEW u \in Users, Converse(b, u)
  PROVE  Locks' /\ Marks' /\ Remembered' /\ AccessBacked' /\ StrangersExplained'
<1>1. /\ u \in allowed[b] /\ users' = users \union {u}
      /\ UNCHANGED <<invites, proc, allowed, admitted, configured>>
  BY DEF Converse, memory, histories
<1>2. Locks' /\ Marks' /\ Remembered'
  BY <1>1 DEF IInv, Locks, Marks, Remembered, At
<1>3. AccessBacked'
  BY <1>1 DEF IInv, AccessBacked
<1>4. StrangersExplained'
  BY <1>1 DEF IInv, StrangersExplained, At
<1> QED
  BY <1>2, <1>3, <1>4

\* A new code changes one that nobody has used.
LEMMA KodStep ==
  ASSUME IInv, NEW b \in Bots, NEW u \in Users, NEW c \in Codes, Kod(b, u, c)
  PROVE  Locks' /\ Marks' /\ Remembered' /\ AccessBacked' /\ StrangersExplained'
<1>1. \A d \in Codes : invites'[d].usedBy = invites[d].usedBy
  BY DEF IInv, TypeOK, Invite, Kod
<1>2. UNCHANGED <<users, proc, allowed, admitted, configured>>
  BY DEF Kod, memory, histories
<1>3. /\ \A o \in Bots : proc[o].code \subseteq Codes
      /\ \A a \in admitted : a.code \in Codes
  BY DEF IInv, TypeOK, Proc, Admission
<1>4. Locks' /\ Marks'
  BY <1>1, <1>2, <1>3 DEF IInv, Locks, Marks
<1>5. Remembered' /\ AccessBacked' /\ StrangersExplained'
  BY <1>2 DEF IInv, Remembered, AccessBacked, StrangersExplained, At
<1> QED
  BY <1>4, <1>5

\* /start with a code.
LEMMA AskStep ==
  ASSUME IInv, NEW b \in Bots, NEW u \in Users, NEW c \in Codes, Ask(b, u, c)
  PROVE  Locks' /\ Marks' /\ Remembered' /\ AccessBacked' /\ StrangersExplained'
<1>1. /\ proc[b].pc = "serving"
      /\ proc'[b].pc = "lock" /\ proc'[b].user = u /\ proc'[b].code = {c}
      /\ \A o \in Bots \ {b} : proc'[o] = proc[o]
      /\ UNCHANGED <<users, invites, allowed, admitted, configured>>
  BY DEF IInv, TypeOK, Ask, At, db, memory, histories
<1>2. Locks'
  BY <1>1 DEF IInv, Locks, Redeeming, Holding
<1>3. Marks' /\ AccessBacked'
  BY <1>1 DEF IInv, Marks, AccessBacked
<1>4. Remembered' /\ StrangersExplained'
  BY <1>1 DEF IInv, Remembered, StrangersExplained, At
<1> QED
  BY <1>2, <1>3, <1>4

LEMMA InvNext == ASSUME IInv, [Next]_vars PROVE IInv'
<1> DEFINE Goal == Locks' /\ Marks' /\ Remembered' /\ AccessBacked' /\ StrangersExplained'
<1>0. TypeOK /\ TypeOK'
  BY TypeNext DEF IInv
<1>1. ASSUME UNCHANGED <<users, invites, proc, allowed, admitted, configured>> PROVE Goal
  BY <1>1 DEF IInv, Locks, Marks, Remembered, AccessBacked, StrangersExplained, At
<1>2. ASSUME UNCHANGED vars \/ Tick PROVE Goal
  BY <1>1, <1>2 DEF vars, Tick, db, memory, histories
<1>3. ASSUME NEW b \in Bots, NEW pid \in Pids, Boot(b, pid) PROVE Goal
  BY <1>0, <1>3, DownStep, QuietStep DEF Boot, At, db, memory, histories
<1>4. ASSUME NEW b \in Bots, Load(b) PROVE Goal
  BY <1>4, LoadStep
<1>5. ASSUME NEW b \in Bots, Stop(b) \/ Kill(b) PROVE Goal
  <2>1. /\ proc'[b].pc = "down" /\ proc'[b].code = {}
        /\ \A o \in Bots \ {b} : proc'[o] = proc[o]
        /\ UNCHANGED <<users, invites, allowed, admitted, configured>>
    BY <1>0, <1>5 DEF Stop, Kill, Down, Process, TypeOK, db, memory, histories
  <2>2. Locks'
    BY <2>1 DEF IInv, Locks, Redeeming, Holding
  <2>3. Marks' /\ AccessBacked'
    BY <2>1 DEF IInv, Marks, AccessBacked
  <2>4. Remembered' /\ StrangersExplained'
    BY <2>1 DEF IInv, Remembered, StrangersExplained, At
  <2> QED
    BY <2>2, <2>3, <2>4
<1>6. ASSUME NEW b \in Bots, NEW list \in EnvLists, Recreate(b, list) PROVE Goal
  BY <1>1, <1>6 DEF Recreate, db, memory, histories
<1>7. ASSUME NEW b \in Bots, NEW u \in Users, NEW c \in Codes, Kod(b, u, c) PROVE Goal
  BY <1>7, KodStep
<1>8. ASSUME NEW b \in Bots, NEW u \in Users, Converse(b, u) PROVE Goal
  BY <1>8, ConverseStep
<1>9. ASSUME NEW b \in Bots, NEW u \in Users, NEW c \in Codes, Ask(b, u, c) PROVE Goal
  BY <1>9, AskStep
<1>10. ASSUME NEW b \in Bots, NEW c \in Codes, LockInvite(b, c) PROVE Goal
  BY <1>10, LockStep
<1>11. ASSUME NEW b \in Bots, SelectUser(b) \/ InsertUser(b) PROVE Goal
  <2>1. /\ proc[b].pc \in Holding
        /\ UNCHANGED <<users, invites, allowed, admitted, configured>>
    BY <1>11 DEF SelectUser, InsertUser, At, Holding, db, memory, histories
  <2>2. CASE Serve(b)
    BY <1>0, <2>1, <2>2, ServeStep, QuietStep DEF Holding, At
  <2>3. ASSUME NEW pc \in {"insert", "commit"}, Goto(b, pc) PROVE Goal
    <3>1. /\ proc' \in [Bots -> Proc]
          /\ proc'[b] = [proc[b] EXCEPT !.pc = pc]
          /\ \A o \in Bots \ {b} : proc'[o] = proc[o]
      BY <1>0, <2>3, GotoStep DEF Pc, Redeeming
    <3>2. /\ proc'[b].pc = pc
          /\ proc'[b].code = proc[b].code /\ proc'[b].user = proc[b].user
      BY <1>0, <3>1 DEF TypeOK, Proc
    <3>3. proc'[b].pc \in Holding /\ proc'[b].pc # "remember" /\ ~At(b, "remember")
      BY <2>1, <3>2 DEF Holding, At
    <3> QED
      BY <2>1, <3>1, <3>2, <3>3, QuietStep
  <2> QED
    BY <1>11, <2>2, <2>3 DEF SelectUser, InsertUser
<1>12. ASSUME NEW b \in Bots, NEW c \in Codes, Commit(b, c) PROVE Goal
  <2>1. /\ proc' \in [Bots -> Proc]
        /\ proc'[b] = [proc[b] EXCEPT !.pc = "remember"]
        /\ \A o \in Bots \ {b} : proc'[o] = proc[o]
    BY <1>0, <1>12, GotoStep DEF Commit, Pc, Redeeming
  <2>2. /\ proc'[b].pc = "remember"
        /\ proc'[b].code = proc[b].code /\ proc'[b].user = proc[b].user
    BY <1>0, <2>1 DEF TypeOK, Proc
  <2>3. /\ proc[b].pc = "commit" /\ c \in proc[b].code /\ Admit(b, c, TRUE)
        /\ UNCHANGED <<allowed, configured>>
    BY <1>12 DEF Commit, At, memory
  <2> QED
    BY <2>1, <2>2, <2>3, AdmitStep
<1>13. ASSUME NEW b \in Bots, NEW c \in Codes, CommitUnanswered(b, c) PROVE Goal
  BY <1>0, <1>13, ServeStep, AdmitStep DEF CommitUnanswered, At, memory
<1>14. ASSUME NEW b \in Bots, StatementFails(b) PROVE Goal
  BY <1>0, <1>14, ServeStep, QuietStep DEF StatementFails, At, db, memory, histories
<1>15. ASSUME NEW b \in Bots, Remember(b) PROVE Goal
  BY <1>15, RememberStep
<1>16. Goal
  BY <1>2, <1>3, <1>4, <1>5, <1>6, <1>7, <1>8, <1>9, <1>10, <1>11, <1>12, <1>13, <1>14, <1>15
  DEF Next, Step
<1> QED
  BY <1>0, <1>16 DEF IInv

LEMMA InvInit == ASSUME Init PROVE IInv
<1>1. TypeOK
  BY TypeInit
<1>2. \A b \in Bots : proc[b].pc = "down" /\ proc[b].code = {}
  BY DEF Init, Down, Process
<1>3. Locks /\ Remembered
  BY <1>2 DEF Locks, Remembered, At, Redeeming, Holding
<1>4. Marks /\ AccessBacked
  BY DEF Init, Marks, AccessBacked
<1>5. StrangersExplained
  BY DEF Init, StrangersExplained
<1> QED
  BY <1>1, <1>3, <1>4, <1>5 DEF IInv

LEMMA Invariance == Spec => []IInv
<1>1. Init => IInv
  BY InvInit
<1>2. IInv /\ [Next]_vars => IInv'
  BY InvNext
<1> QED
  BY <1>1, <1>2, PTL DEF Spec

-----------------------------------------------------------------------------

\* The variables keep their types.
THEOREM TypeCorrect == Spec => []TypeOK
<1>1. IInv => TypeOK
  BY DEF IInv
<1> QED
  BY <1>1, Invariance, PTL

\* A code admits one user: the mark on it names him (redeem_invite_code).
THEOREM OneUserPerCodeCorrect == Spec => []OneUserPerCode
<1>1. IInv => OneUserPerCode
  BY DEF IInv, Marks, OneUserPerCode
<1> QED
  BY <1>1, Invariance, PTL

\* Whom a bot knows was configured or is on record, and whoever is on record was
\* configured once or admitted (AuthorizationService, AuthRepository).
THEOREM AccessBackedCorrect == Spec => []AccessBacked
<1>1. IInv => AccessBacked
  BY DEF IInv
<1> QED
  BY <1>1, Invariance, PTL

\* A bot turns somebody on record away for one of the two reasons only
\* (TelegramBot._auth_check, AuthorizationService).
THEOREM StrangersExplainedCorrect == Spec => []StrangersExplained
<1>1. IInv => StrangersExplained
  BY DEF IInv
<1> QED
  BY <1>1, Invariance, PTL
=============================================================================
