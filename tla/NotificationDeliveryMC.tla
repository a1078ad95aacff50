----------------------- MODULE NotificationDeliveryMC -----------------------
(* Values of the constants of NotificationDelivery for TLC.                *)
EXTENDS NotificationDelivery, TLC

\* The workers run the same code and nothing orders them.
WorkerSymmetry == Permutations(Workers)

\* Every rule starts with the first of two expressions.
AllHot == [r \in Rules |-> "hot"]

\* Rules of one kind, or rule 1 unscheduled and the others cron:.
Unscheduled == [r \in Rules |-> "none"]
Once        == [r \in Rules |-> "once"]
Cron        == [r \in Rules |-> "cron"]
Mixed       == [r \in Rules |-> IF r = 1 THEN "none" ELSE "cron"]

\* once: rules are due from instant 1 on.
DueAtOne == [r \in Rules |-> 1]

\* No two rules have the same scope, or all do.
NoTwins  == [r \in Rules |-> r]
AllTwins == [r \in Rules |-> 1]

\* Nobody snoozes, or rule 1 is snoozed until instant 2.
NoSnooze      == [r \in Rules |-> 0]
SnoozeRuleOne == [r \in Rules |-> IF r = 1 THEN 2 ELSE 0]
=============================================================================
