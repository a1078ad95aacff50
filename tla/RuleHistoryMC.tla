---------------------------- MODULE RuleHistoryMC ----------------------------
(* Small instances of RuleHistory. *)
EXTENDS RuleHistory

\* A slot a day, and a rule without a schedule.
MCSlots == [r \in Rules |-> IF r = 1 THEN {1} ELSE {}]

\* A run is kept for less time than a notification, as by default; thread memory
\* and observations are kept beyond the last instant.
MCKeep == [kind \in Kinds |->
  CASE kind = "runs" -> 1
    [] kind \in {"forecasts", "events", "audit"} -> 2
    [] OTHER -> 3]
=============================================================================
