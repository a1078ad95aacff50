------------------------------ MODULE PlaceSearch ------------------------------
(***************************************************************************)
(* Which of the places a search returns a name means                       *)
(* (infrastructure/locationiq_candidates.py).  A candidate is what its      *)
(* fields come to: polish (no country code, or pl), located (both          *)
(* coordinates are numbers), place (its class or type is a settlement or   *)
(* an area), importance (tenths), and the words of all its text and of its *)
(* name.                                                                   *)
(***************************************************************************)
EXTENDS Integers, SequencesExt

CONSTANT Words  \* of two letters or more that are no stopwords

ASSUME WordsAssumption == IsFiniteSet(Words)

Candidate == [polish : BOOLEAN, located : BOOLEAN, place : BOOLEAN,
              importance : 0 .. 9, text : SUBSET Words, name : SUBSET Words]

Matched(c, query) == c.text \intersect query
NameMatched(c, query) == c.name \intersect query

\* One with no word of the query, or one that is no place and lacks a word of it,
\* scores nothing.
Scores(c, query) ==
  /\ c.polish /\ c.located
  /\ query # {} => Matched(c, query) # {}
  /\ c.place \/ query \subseteq c.text

\* In tenths.
Score(c, query) ==
  IF ~Scores(c, query) THEN 0
  ELSE   100 * Cardinality(Matched(c, query)) + 30 * Cardinality(NameMatched(c, query))
       + (IF c.place THEN 50 ELSE 0) + c.importance

Usable(candidates, query) == {i \in DOMAIN candidates : Score(candidates[i], query) > 0}

\* Mutant: of equal scores the one that came last.
BestLast(candidates, query) ==
  {i \in Usable(candidates, query) :
     \A j \in Usable(candidates, query) :
       \/ Score(candidates[i], query) > Score(candidates[j], query)
       \/ Score(candidates[i], query) = Score(candidates[j], query) /\ i >= j}

\* The best score, the earliest of equal ones: the index, or nothing.
Best(candidates, query) ==
  {i \in Usable(candidates, query) :
     \A j \in Usable(candidates, query) :
       \/ Score(candidates[i], query) > Score(candidates[j], query)
       \/ Score(candidates[i], query) = Score(candidates[j], query) /\ i <= j}
=============================================================================
