---------------------------- MODULE LocationsMC ----------------------------
(***************************************************************************)
(* Instances of Locations for TLC.                                         *)
(***************************************************************************)
EXTENDS Locations, TLC

CONSTANTS dom, work, river, none

\* "dom" is special; other names are interchangeable.
NameSymmetry == Permutations(Names \ HomeMarkers)

=============================================================================
