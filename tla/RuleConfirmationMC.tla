------------------------- MODULE RuleConfirmationMC -------------------------
(***************************************************************************)
(* Instances of RuleConfirmation for TLC.                                  *)
(***************************************************************************)
EXTENDS RuleConfirmation, TLC

CONSTANTS home, trip, rain, wind

ThreadSymmetry == Permutations(Contexts)
RuleSymmetry   == ThreadSymmetry \union Permutations(Exprs)

=============================================================================
