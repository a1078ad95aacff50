----------------------------- MODULE Locations -----------------------------
(***************************************************************************)
(* The saved locations of one user: what the tools of a conversation turn  *)
(* and the command /dodaj_lok do to them, and what a name, an alias or     *)
(* nothing at all refers to (domain/locations.py).                         *)
(*                                                                         *)
(* A turn is one transaction over any number of tool calls; the bot        *)
(* handles one update after the other, so a command meets no open turn.    *)
(* Names are what normalize_for_matching makes of them.  Coordinates and   *)
(* descriptions are left out.                                              *)
(***************************************************************************)
EXTENDS Naturals

CONSTANTS
  Names,        \* normalised names, aliases and queries
  NoName,       \* an empty argument
  Dom,          \* the alias that /dodaj_lok gives
  HomeMarkers,  \* "dom" and "home"
  MaxLocations, \* bound: locations ever created
  MaxEdits      \* bound: edits and removals

ASSUME LocationAssumption ==
  /\ NoName \notin Names
  /\ Dom \in Names
  /\ HomeMarkers \subseteq Names
  /\ MaxLocations \in Nat
  /\ MaxEdits \in Nat

VARIABLES
  db,       \* the committed rows of table locations
  tx,       \* the same as the turn's transaction sees them
  busy,     \* a turn is in progress
  lastId,   \* the id sequence
  answer,   \* what the last tool of the turn has answered
  edits     \* how many edits there were

vars == <<db, tx, busy, lastId, answer, edits>>

-----------------------------------------------------------------------------
(* Rows and what refers to them.                                           *)

Location ==
  [id : Nat, name : Names, aliases : SUBSET Names, enabled : BOOLEAN]

Enabled(d) == {l \in d : l.enabled}

\* _check_name_conflict: the names of the others, not their aliases.
NameTaken(d, name, id) == \E l \in Enabled(d) : l.id # id /\ l.name = name

\* Mutant: only the names of the others are compared.
AliasTakenByName(d, aliases, id) ==
  \E l \in Enabled(d) : l.id # id /\ l.name \in aliases

\* _check_alias_conflicts: the names and the aliases of the others.
AliasTaken(d, aliases, id) ==
  \E l \in Enabled(d) :
    l.id # id /\ (l.name \in aliases \/ l.aliases \cap aliases # {})

\* resolve_location: the query is not ordered, so that the loop may find any of
\* several; a name comes before an alias.
Resolve(d, query) ==
  LET named == {l \in Enabled(d) : l.name = query}
  IN IF named # {} THEN named ELSE {l \in Enabled(d) : query \in l.aliases}

Home(l) == l.name \in HomeMarkers \/ l.aliases \cap HomeMarkers # {}

\* Mutant: the newest location comes first.
DefaultNewest(d) ==
  LET S == IF \E l \in Enabled(d) : Home(l)
             THEN {l \in Enabled(d) : Home(l)} ELSE Enabled(d)
  IN {l \in S : \A k \in S : k.id <= l.id}

\* get_default_location: the first home, else the first.
Default(d) ==
  LET S == IF \E l \in Enabled(d) : Home(l)
             THEN {l \in Enabled(d) : Home(l)} ELSE Enabled(d)
  IN {l \in S : \A k \in S : l.id <= k.id}

-----------------------------------------------------------------------------
(* Creating.                                                               *)

Refused(d, name, aliases) ==
  NameTaken(d, name, 0) \/ AliasTaken(d, aliases, 0)

\* create_location
Created(d, name, aliases) ==
  d \union {[id |-> lastId + 1, name |-> name, aliases |-> aliases,
             enabled |-> TRUE]}

\* A tool of a turn creates a location, or answers that it cannot.
Create(name, aliases) ==
  /\ busy' = TRUE
  /\ \/ /\ Refused(tx, name, aliases)
        /\ answer' = "refused"
        /\ UNCHANGED <<tx, lastId>>
     \/ /\ ~Refused(tx, name, aliases)
        /\ lastId < MaxLocations
        /\ tx' = Created(tx, name, aliases)
        /\ lastId' = lastId + 1
        /\ answer' = "done"
  /\ UNCHANGED <<db, edits>>

\* Mutant: an empty alias is stored.
AliasesWithEmpty(alias) == {alias}

AliasesOf(alias) == {alias} \ {NoName}

SaveLocation(name, alias) == Create(name, AliasesOf(alias))

\* _resolve_location of the rule tools saves what the geocoder finds.  It compares
\* the query and the name with lower(), which may tell apart what is matched.
ResolveForRule(query, found) ==
  /\ Resolve(tx, query) = {}
  /\ \E aliases \in {{query}, {query} \ {found}} : Create(found, aliases)

\* /dodaj_lok has a session of its own; what fails is rolled back.
DodajLok(name) ==
  /\ ~busy
  /\ ~Refused(db, name, {Dom})
  /\ lastId < MaxLocations
  /\ db' = Created(db, name, {Dom})
  /\ tx' = db'
  /\ lastId' = lastId + 1
  /\ UNCHANGED <<busy, answer, edits>>

-----------------------------------------------------------------------------
(* Editing and removing.                                                   *)

With(d, l, new) == (d \ {l}) \union {new}

Renamed(l, name) == IF name = NoName THEN l ELSE [l EXCEPT !.name = name]

Edited(l, aliases, enabled) ==
  [l EXCEPT !.aliases = IF aliases = {} THEN @ ELSE aliases,
            !.enabled = enabled]

\* update_location assigns the name before it compares the aliases: a refused
\* alias leaves the new name on the row, and the turn commits it.
Update(l, name, aliases, enabled) ==
  \/ /\ NameTaken(tx, name, l.id)
     /\ answer' = "refused"
     /\ UNCHANGED tx
  \/ /\ ~NameTaken(tx, name, l.id)
     /\ AliasTaken(tx, aliases, l.id)
     /\ answer' = "refused"
     /\ tx' = With(tx, l, Renamed(l, name))
  \/ /\ ~NameTaken(tx, name, l.id)
     /\ ~AliasTaken(tx, aliases, l.id)
     /\ answer' = "done"
     /\ tx' = With(tx, l, Edited(Renamed(l, name), aliases, enabled))

\* _find_saved_location finds enabled locations only, any of them by its id:
\* enabled = True changes nothing.
EditLocation(l, name, aliases, enabled) ==
  /\ edits < MaxEdits
  /\ Update(l, name, aliases, enabled)
  /\ busy' = TRUE
  /\ edits' = edits + 1
  /\ UNCHANGED <<db, lastId>>

\* remove_location only disables.
RemoveLocation(l) ==
  /\ edits < MaxEdits
  /\ tx' = With(tx, l, Edited(l, {}, FALSE))
  /\ answer' = "done"
  /\ busy' = TRUE
  /\ edits' = edits + 1
  /\ UNCHANGED <<db, lastId>>

-----------------------------------------------------------------------------
(* The turn ends.                                                          *)

Commit ==
  /\ busy
  /\ db' = tx
  /\ busy' = FALSE
  /\ answer' = "none"
  /\ UNCHANGED <<tx, lastId, edits>>

\* The session is lost or the bot dies: the transaction is rolled back.
Lose ==
  /\ busy
  /\ tx' = db
  /\ busy' = FALSE
  /\ answer' = "none"
  /\ UNCHANGED <<db, lastId, edits>>

\* The bounded run is over.
Exhausted ==
  /\ ~busy
  /\ lastId = MaxLocations
  /\ UNCHANGED vars

Init ==
  /\ db = {}
  /\ tx = {}
  /\ busy = FALSE
  /\ lastId = 0
  /\ answer = "none"
  /\ edits = 0

Next ==
  \/ \E name \in Names, alias \in Names \union {NoName} :
       SaveLocation(name, alias)
  \/ \E query, found \in Names : ResolveForRule(query, found)
  \/ \E name \in Names : DodajLok(name)
  \/ \E l \in Enabled(tx), name \in Names \union {NoName},
        aliases \in SUBSET Names, enabled \in BOOLEAN :
       EditLocation(l, name, aliases, enabled)
  \/ \E l \in Enabled(tx) : RemoveLocation(l)
  \/ Commit
  \/ Lose
  \/ Exhausted

Spec == Init /\ [][Next]_vars

-----------------------------------------------------------------------------
(* Properties.                                                             *)

TypeOK ==
  /\ db \subseteq Location
  /\ tx \subseteq Location
  /\ busy \in BOOLEAN
  /\ lastId \in Nat
  /\ answer \in {"none", "done", "refused"}
  /\ edits \in Nat

\* Whatever the user says refers to one location at most: the order in which the
\* database returns the rows never decides what is forecast or watched.
ResolutionUnique ==
  \A query \in Names : \A k, l \in Resolve(db, query) : k = l

\* The inductive invariant, of the committed rows and of the transaction's: ids
\* are unique and used up, names differ, and no alias is given twice.
Apart(d, last) ==
  /\ \A l \in d : l.id \in 1..last
  /\ \A k, l \in d : k.id = l.id => k = l
  /\ \A k, l \in Enabled(d) :
       k.name = l.name \/ k.aliases \cap l.aliases # {} => k = l
LocationsApart == Apart(db, lastId) /\ Apart(tx, lastId)

\* The default location stays the same while it is not touched itself and no
\* other location is made a home: new locations come after it, and a removed one
\* never comes back.
DefaultKept ==
  [][\A d \in Default(db), e \in Default(db') :
       \/ d.id = e.id
       \/ d \notin db'
       \/ \E h \in Enabled(db') \ db : Home(h)]_vars
=============================================================================
