-------------------------- MODULE LocationsProofs --------------------------
(***************************************************************************)
(* What holds of Locations for any names, any home markers and any number  *)
(* of locations and edits.                                                 *)
(***************************************************************************)
EXTENDS Locations, TLAPS

IInv == TypeOK /\ LocationsApart

-----------------------------------------------------------------------------
(* What a step can do to a set of rows.                                    *)

\* Rows that are apart stay so when the sequence has gone on.
LEMMA ApartLater ==
  ASSUME NEW d \in SUBSET Location, NEW n \in Nat, Apart(d, n)
  PROVE  Apart(d, n + 1)
<1>1. \A l \in d : l.id \in 1..(n + 1)
  <2> TAKE l \in d
  <2>1. l.id \in 1..n
    BY DEF Apart
  <2> QED
    BY <2>1
<1> QED
  BY <1>1 DEF Apart

\* A location that is not refused can be told from all others.
LEMMA CreatedApart ==
  ASSUME NEW d \in SUBSET Location, lastId \in Nat, Apart(d, lastId),
         NEW name \in Names, NEW aliases \in SUBSET Names,
         ~Refused(d, name, aliases)
  PROVE  /\ Created(d, name, aliases) \in SUBSET Location
         /\ Apart(Created(d, name, aliases), lastId + 1)
<1> DEFINE new == [id |-> lastId + 1, name |-> name, aliases |-> aliases,
                   enabled |-> TRUE]
           D   == Created(d, name, aliases)
<1>1. /\ new \in Location /\ new.id = lastId + 1
      /\ new.name = name /\ new.aliases = aliases
  BY DEF Location
<1>2. D = d \union {new}
  BY DEF Created
<1>3. \A l \in d : l \in Location /\ l.id \in 1..lastId /\ l.id # 0
                   /\ l.id # new.id
  <2> TAKE l \in d
  <2>1. l \in Location /\ l.id \in 1..lastId
    BY DEF Apart
  <2> QED
    BY <1>1, <2>1
<1>4. \A l \in Enabled(d) : l.name # name /\ l.aliases \cap aliases = {}
  BY <1>3 DEF Refused, NameTaken, AliasTaken, Enabled
<1> HIDE DEF new
<1>5. \A l \in D : l.id \in 1..(lastId + 1)
  BY <1>1, <1>2, <1>3
<1>6. \A k, l \in D : k.id = l.id => k = l
  BY <1>2, <1>3 DEF Apart
<1>7. \A k, l \in Enabled(D) :
        k.name = l.name \/ k.aliases \cap l.aliases # {} => k = l
  <2>1. \A l \in Enabled(D) : l \in Enabled(d) \/ l = new
    BY <1>2 DEF Enabled
  <2>2. \A k, l \in Enabled(d) :
          k.name = l.name \/ k.aliases \cap l.aliases # {} => k = l
    BY DEF Apart
  <2> QED
    BY <1>1, <1>4, <2>1, <2>2
<1> HIDE DEF D
<1> QED
  BY <1>1, <1>2, <1>5, <1>6, <1>7 DEF Apart, D

\* A row may be replaced by one that is disabled or clashes with no other.
LEMMA WithApart ==
  ASSUME NEW d \in SUBSET Location, NEW n \in Nat, Apart(d, n),
         NEW l \in Enabled(d), NEW new \in Location, new.id = l.id,
         new.enabled => \A k \in Enabled(d) :
           k.id # l.id => k.name # new.name /\ k.aliases \cap new.aliases = {}
  PROVE  /\ With(d, l, new) \in SUBSET Location
         /\ Apart(With(d, l, new), n)
<1> DEFINE D == With(d, l, new)
<1>1. D = (d \ {l}) \union {new}
  BY DEF With
<1>2. l \in d /\ \A k \in d : k.id = l.id => k = l
  BY DEF Apart, Enabled
<1>3. \A k \in D : k.id \in 1..n
  BY <1>1, <1>2 DEF Apart
<1>4. \A k, m \in D : k.id = m.id => k = m
  BY <1>1, <1>2 DEF Apart
<1>5. \A k, m \in Enabled(D) :
        k.name = m.name \/ k.aliases \cap m.aliases # {} => k = m
  <2>1. \A k \in Enabled(D) :
          \/ k \in Enabled(d) /\ k.id # l.id
          \/ k = new /\ new.enabled
    BY <1>1, <1>2 DEF Enabled
  <2>2. \A k, m \in Enabled(d) :
          k.name = m.name \/ k.aliases \cap m.aliases # {} => k = m
    BY DEF Apart
  <2> QED
    BY <2>1, <2>2
<1> HIDE DEF D
<1> QED
  BY <1>1, <1>3, <1>4, <1>5 DEF Apart, D

-----------------------------------------------------------------------------
(* The steps.                                                              *)

LEMMA CreateInv ==
  ASSUME IInv, NEW name \in Names, NEW aliases \in SUBSET Names,
         Create(name, aliases)
  PROVE  IInv'
<1>1. /\ db \in SUBSET Location /\ tx \in SUBSET Location /\ lastId \in Nat
      /\ Apart(db, lastId) /\ Apart(tx, lastId)
  BY DEF IInv, TypeOK, LocationsApart
<1>2. CASE tx' = tx /\ lastId' = lastId /\ answer' = "refused"
  BY <1>1, <1>2 DEF IInv, TypeOK, LocationsApart, Create
<1>3. CASE /\ ~Refused(tx, name, aliases)
           /\ tx' = Created(tx, name, aliases)
           /\ lastId' = lastId + 1
           /\ answer' = "done"
  <2>1. tx' \in SUBSET Location /\ Apart(tx', lastId')
    BY <1>1, <1>3, CreatedApart
  <2>2. Apart(db, lastId + 1)
    BY <1>1, ApartLater
  <2> QED
    BY <1>1, <1>3, <2>1, <2>2 DEF IInv, TypeOK, LocationsApart, Create
<1> QED
  BY <1>2, <1>3 DEF Create

LEMMA EditInv ==
  ASSUME IInv, NoName \notin Names,
         NEW l \in Enabled(tx), NEW name \in Names \union {NoName},
         NEW aliases \in SUBSET Names, NEW enabled \in BOOLEAN,
         EditLocation(l, name, aliases, enabled)
  PROVE  IInv'
<1> DEFINE renamed == Renamed(l, name)
           edited  == Edited(renamed, aliases, enabled)
<1>1. /\ db \in SUBSET Location /\ tx \in SUBSET Location /\ lastId \in Nat
      /\ Apart(db, lastId) /\ Apart(tx, lastId)
  BY DEF IInv, TypeOK, LocationsApart
<1>2. l \in Location /\ l \in tx
  BY <1>1 DEF Enabled
<1>3. /\ renamed \in Location /\ renamed.id = l.id
      /\ renamed.aliases = l.aliases
      /\ renamed.name = IF name = NoName THEN l.name ELSE name
  BY <1>2 DEF Location, Renamed
<1> HIDE DEF renamed
<1>4. /\ edited \in Location /\ edited.id = l.id /\ edited.name = renamed.name
      /\ edited.aliases = IF aliases = {} THEN l.aliases ELSE aliases
  BY <1>3 DEF Location, Edited
<1> HIDE DEF edited
<1>5. \A k \in Enabled(tx) : k.id # l.id =>
        k.name # l.name /\ k.aliases \cap l.aliases = {}
  BY <1>1 DEF Apart
<1>6. ASSUME ~NameTaken(tx, name, l.id)
      PROVE  \A k \in Enabled(tx) : k.id # l.id =>
               k.name # renamed.name /\ k.aliases \cap renamed.aliases = {}
  BY <1>3, <1>5, <1>6 DEF NameTaken
<1>7. ASSUME ~NameTaken(tx, name, l.id), ~AliasTaken(tx, aliases, l.id)
      PROVE  \A k \in Enabled(tx) : k.id # l.id =>
               k.name # edited.name /\ k.aliases \cap edited.aliases = {}
  BY <1>4, <1>5, <1>6, <1>7 DEF AliasTaken
<1>8. /\ tx' \in SUBSET Location /\ Apart(tx', lastId)
      /\ answer' \in {"none", "done", "refused"}
  <2>1. CASE tx' = tx /\ answer' = "refused"
    BY <1>1, <2>1
  <2>2. CASE /\ ~NameTaken(tx, name, l.id)
             /\ tx' = With(tx, l, renamed) /\ answer' = "refused"
    BY <1>1, <1>3, <1>6, <2>2, WithApart
  <2>3. CASE /\ ~NameTaken(tx, name, l.id) /\ ~AliasTaken(tx, aliases, l.id)
             /\ tx' = With(tx, l, edited) /\ answer' = "done"
    BY <1>1, <1>4, <1>7, <2>3, WithApart
  <2> QED
    BY <2>1, <2>2, <2>3 DEF EditLocation, Update, renamed, edited
<1> QED
  BY <1>1, <1>8 DEF IInv, TypeOK, LocationsApart, EditLocation

LEMMA RemoveInv ==
  ASSUME IInv, NEW l \in Enabled(tx), RemoveLocation(l)
  PROVE  IInv'
<1> DEFINE new == Edited(l, {}, FALSE)
<1>1. /\ db \in SUBSET Location /\ tx \in SUBSET Location /\ lastId \in Nat
      /\ Apart(db, lastId) /\ Apart(tx, lastId)
  BY DEF IInv, TypeOK, LocationsApart
<1>2. new \in Location /\ new.id = l.id /\ ~new.enabled
  BY <1>1 DEF Edited, Enabled, Location
<1>3. tx' = With(tx, l, new)
  BY DEF RemoveLocation
<1> HIDE DEF new
<1>4. tx' \in SUBSET Location /\ Apart(tx', lastId)
  BY <1>1, <1>2, <1>3, WithApart
<1>5. /\ answer' = "done" /\ busy' = TRUE /\ edits' = edits + 1
      /\ db' = db /\ lastId' = lastId
  BY DEF RemoveLocation
<1> QED
  BY <1>1, <1>4, <1>5 DEF IInv, TypeOK, LocationsApart

LEMMA DodajLokInv ==
  ASSUME IInv, Dom \in Names, NEW name \in Names, DodajLok(name)
  PROVE  IInv'
<1>1. /\ db \in SUBSET Location /\ lastId \in Nat /\ Apart(db, lastId)
  BY DEF IInv, TypeOK, LocationsApart
<1>2. db' \in SUBSET Location /\ Apart(db', lastId + 1)
  BY <1>1, CreatedApart DEF DodajLok
<1> QED
  BY <1>1, <1>2 DEF IInv, TypeOK, LocationsApart, DodajLok

LEMMA NextInv == IInv /\ [Next]_vars => IInv'
<1> SUFFICES ASSUME IInv, [Next]_vars PROVE IInv'
  OBVIOUS
<1> USE LocationAssumption
<1>1. ASSUME NEW name \in Names, NEW alias \in Names \union {NoName},
             SaveLocation(name, alias)
      PROVE  IInv'
  <2>1. AliasesOf(alias) \in SUBSET Names
    BY DEF AliasesOf
  <2> QED
    BY <1>1, <2>1, CreateInv DEF SaveLocation
<1>2. ASSUME NEW query \in Names, NEW found \in Names,
             ResolveForRule(query, found)
      PROVE  IInv'
  <2>1. PICK aliases \in SUBSET Names : Create(found, aliases)
    BY <1>2 DEF ResolveForRule
  <2> QED
    BY <2>1, CreateInv
<1>3. ASSUME NEW name \in Names, DodajLok(name)
      PROVE  IInv'
  BY <1>3, DodajLokInv
<1>4. ASSUME NEW l \in Enabled(tx), NEW name \in Names \union {NoName},
             NEW aliases \in SUBSET Names, NEW enabled \in BOOLEAN,
             EditLocation(l, name, aliases, enabled)
      PROVE  IInv'
  BY <1>4, EditInv
<1>5. ASSUME NEW l \in Enabled(tx), RemoveLocation(l)
      PROVE  IInv'
  BY <1>5, RemoveInv
<1>6. CASE Commit
  BY <1>6 DEF Commit, IInv, TypeOK, LocationsApart
<1>7. CASE Lose
  BY <1>7 DEF Lose, IInv, TypeOK, LocationsApart
<1>8. CASE UNCHANGED vars
  BY <1>8 DEF vars, IInv, TypeOK, LocationsApart
<1> QED
  BY <1>1, <1>2, <1>3, <1>4, <1>5, <1>6, <1>7, <1>8 DEF Next, Exhausted

LEMMA InitInv == Init => IInv
<1> SUFFICES ASSUME Init PROVE IInv
  OBVIOUS
<1>1. Apart({}, 0)
  BY DEF Apart, Enabled
<1> QED
  BY <1>1 DEF Init, IInv, TypeOK, LocationsApart

LEMMA IInvCorrect == Spec => []IInv
  BY InitInv, NextInv, PTL DEF Spec

-----------------------------------------------------------------------------
(* The theorems.                                                           *)

\* Every reachable state of the locations is well typed.
THEOREM LocationsTypeCorrect == Spec => []TypeOK
<1>1. IInv => TypeOK
  BY DEF IInv
<1> QED
  BY <1>1, IInvCorrect, PTL

\* Whatever is created, renamed, removed, rolled back or refused, a name or alias
\* refers to at most one enabled location (resolve_location).
THEOREM ResolutionUniqueCorrect == Spec => []ResolutionUnique
<1>1. IInv => ResolutionUnique
  BY DEF IInv, LocationsApart, Apart, ResolutionUnique, Resolve, Enabled
<1> QED
  BY <1>1, IInvCorrect, PTL

\* Of the committed rows and of those the turn sees, no two enabled locations share
\* a name or an alias.
THEOREM LocationsApartCorrect == Spec => []LocationsApart
<1>1. IInv => LocationsApart
  BY DEF IInv
<1> QED
  BY <1>1, IInvCorrect, PTL

-----------------------------------------------------------------------------
(* The default location.                                                   *)

\* What is enabled in b was enabled in a under the same id, or is newer than all
\* of a.
Descends(a, b) ==
  \A e \in Enabled(b) :
    \/ \E k \in Enabled(a) : k.id = e.id
    \/ \A k \in a : k.id < e.id

DInv == IInv /\ Descends(db, tx)

\* Newer rows and edited ones do not come before the default unless they are homes.
LEMMA DefaultStays ==
  ASSUME NEW a \in SUBSET Location, NEW b \in SUBSET Location, Descends(a, b),
         NEW d \in Default(a), NEW e \in Default(b), d \in b,
         \A h \in Enabled(b) \ a : ~Home(h)
  PROVE  d.id = e.id
<1>1. /\ d \in Enabled(a) /\ e \in Enabled(b)
      /\ d \in Enabled(b) /\ d.id \in Nat /\ e.id \in Nat
  BY DEF Default, Enabled, Location
<1>2. Enabled(a) \subseteq a /\ \A k \in Enabled(b) : k \in a => k \in Enabled(a)
  BY DEF Enabled
<1>3. CASE \E l \in Enabled(a) : Home(l)
  <2>1. Home(d) /\ \A k \in Enabled(a) : Home(k) => d.id <= k.id
    BY <1>3 DEF Default
  <2>2. Home(e) /\ \A k \in Enabled(b) : Home(k) => e.id <= k.id
    BY <1>1, <2>1 DEF Default
  <2>3. e \in Enabled(a)
    BY <1>1, <1>2, <2>2
  <2> QED
    BY <1>1, <2>1, <2>2, <2>3
<1>4. CASE ~\E l \in Enabled(a) : Home(l)
  <2>1. \A k \in Enabled(a) : d.id <= k.id
    BY <1>4 DEF Default
  <2>2. ~\E l \in Enabled(b) : Home(l)
    BY <1>2, <1>4
  <2>3. \A k \in Enabled(b) : e.id <= k.id
    BY <2>2 DEF Default
  <2>4. d.id <= e.id
    <3>1. CASE \E k \in Enabled(a) : k.id = e.id
      BY <2>1, <3>1
    <3>2. CASE \A k \in a : k.id < e.id
      BY <1>1, <1>2, <3>2
    <3> QED
      BY <1>1, <3>1, <3>2 DEF Descends
  <2> QED
    BY <1>1, <2>3, <2>4
<1> QED
  BY <1>3, <1>4

\* Rows descend from themselves, also when one is created.
LEMMA DescendsCreated ==
  ASSUME NEW a \in SUBSET Location, NEW b \in SUBSET Location, lastId \in Nat,
         Apart(a, lastId), Descends(a, b),
         NEW name \in Names, NEW aliases \in SUBSET Names
  PROVE  Descends(a, Created(b, name, aliases))
<1> DEFINE new == [id |-> lastId + 1, name |-> name, aliases |-> aliases,
                   enabled |-> TRUE]
<1>1. new.id = lastId + 1 /\ Created(b, name, aliases) = b \union {new}
  BY DEF Created
<1>2. \A k \in a : k.id < new.id
  <2> TAKE k \in a
  <2>1. k.id \in 1..lastId
    BY DEF Apart
  <2> QED
    BY <1>1, <2>1
<1> HIDE DEF new
<1> QED
  BY <1>1, <1>2 DEF Descends, Enabled

LEMMA DescendsSelf == ASSUME NEW a PROVE Descends(a, a)
  BY DEF Descends

\* A replaced row keeps its id.
LEMMA DescendsWith ==
  ASSUME NEW a, NEW b, Descends(a, b), NEW l \in Enabled(b), NEW new,
         new.id = l.id
  PROVE  Descends(a, With(b, l, new))
  BY DEF Descends, Enabled, With

LEMMA DInvNext == DInv /\ [Next]_vars => DInv'
<1> SUFFICES ASSUME DInv, [Next]_vars PROVE Descends(db, tx)'
  BY NextInv DEF DInv
<1> USE LocationAssumption
<1>1. /\ db \in SUBSET Location /\ tx \in SUBSET Location /\ lastId \in Nat
      /\ Apart(db, lastId) /\ Descends(db, tx)
  BY DEF DInv, IInv, TypeOK, LocationsApart
<1>2. ASSUME NEW name \in Names, NEW aliases \in SUBSET Names,
             Create(name, aliases)
      PROVE  Descends(db, tx)'
  <2>1. Descends(db, Created(tx, name, aliases))
    BY <1>1, DescendsCreated
  <2> QED
    BY <1>1, <1>2, <2>1 DEF Create
<1>3. ASSUME NEW name \in Names, NEW alias \in Names \union {NoName},
             SaveLocation(name, alias)
      PROVE  Descends(db, tx)'
  <2>1. AliasesOf(alias) \in SUBSET Names
    BY DEF AliasesOf
  <2> QED
    BY <1>2, <1>3, <2>1 DEF SaveLocation
<1>4. ASSUME NEW query \in Names, NEW found \in Names,
             ResolveForRule(query, found)
      PROVE  Descends(db, tx)'
  <2>1. PICK aliases \in SUBSET Names : Create(found, aliases)
    BY <1>4 DEF ResolveForRule
  <2> QED
    BY <1>2, <2>1
<1>5. ASSUME NEW name \in Names, DodajLok(name)
      PROVE  Descends(db, tx)'
  BY <1>5, DescendsSelf DEF DodajLok
<1>6. ASSUME NEW l \in Enabled(tx), NEW new, new.id = l.id,
             db' = db, tx' = With(tx, l, new)
      PROVE  Descends(db, tx)'
  BY <1>1, <1>6, DescendsWith
<1>7. ASSUME NEW l \in Enabled(tx), NEW name \in Names \union {NoName},
             NEW aliases \in SUBSET Names, NEW enabled \in BOOLEAN,
             EditLocation(l, name, aliases, enabled)
      PROVE  Descends(db, tx)'
  <2>1. l \in Location
    BY <1>1 DEF Enabled
  <2>2. Renamed(l, name) \in Location /\ Renamed(l, name).id = l.id
    BY <2>1 DEF Renamed, Location
  <2>3. Edited(Renamed(l, name), aliases, enabled).id = l.id
    BY <2>2 DEF Edited, Location
  <2>4. /\ db' = db
        /\ \/ tx' = tx
           \/ tx' = With(tx, l, Renamed(l, name))
           \/ tx' = With(tx, l, Edited(Renamed(l, name), aliases, enabled))
    BY <1>7 DEF EditLocation, Update
  <2> QED
    BY <1>1, <1>6, <2>2, <2>3, <2>4
<1>8. ASSUME NEW l \in Enabled(tx), RemoveLocation(l)
      PROVE  Descends(db, tx)'
  <2>1. l \in Location
    BY <1>1 DEF Enabled
  <2>2. Edited(l, {}, FALSE).id = l.id
    BY <2>1 DEF Edited, Location
  <2>3. db' = db /\ tx' = With(tx, l, Edited(l, {}, FALSE))
    BY <1>8 DEF RemoveLocation
  <2> QED
    BY <1>6, <2>2, <2>3
<1>9. CASE Commit
  BY <1>9, DescendsSelf DEF Commit
<1>10. CASE Lose
  BY <1>10, DescendsSelf DEF Lose
<1>11. CASE UNCHANGED vars
  BY <1>1, <1>11 DEF vars
<1> QED
  BY <1>3, <1>4, <1>5, <1>7, <1>8, <1>9, <1>10, <1>11 DEF Next, Exhausted

LEMMA DInvInit == Init => DInv
  BY InitInv, DescendsSelf DEF Init, DInv

\* What a step commits descends from what was committed before.
LEMMA CommittedDescends == DInv /\ [Next]_vars => Descends(db, db')
<1> SUFFICES ASSUME DInv, [Next]_vars PROVE Descends(db, db')
  OBVIOUS
<1>1. /\ db \in SUBSET Location /\ tx \in SUBSET Location /\ lastId \in Nat
      /\ Apart(db, lastId) /\ Descends(db, tx)
  BY DEF DInv, IInv, TypeOK, LocationsApart
<1>2. ASSUME NEW name \in Names, DodajLok(name)
      PROVE  Descends(db, db')
  BY <1>1, <1>2, DescendsSelf, DescendsCreated, LocationAssumption DEF DodajLok
<1>3. CASE Commit
  BY <1>1, <1>3 DEF Commit
<1>4. CASE db' = db
  BY <1>4, DescendsSelf
<1> QED
  BY <1>2, <1>3, <1>4
     DEF Next, SaveLocation, ResolveForRule, Create, EditLocation,
         RemoveLocation, Lose, Exhausted, vars

\* The default location changes only when it is touched itself or another home
\* appears (get_default_location), over turns of any length.
THEOREM DefaultKeptCorrect == Spec => DefaultKept
<1> DEFINE Kept == \A d \in Default(db), e \in Default(db') :
             \/ d.id = e.id
             \/ d \notin db'
             \/ \E h \in Enabled(db') \ db : Home(h)
<1>1. DInv /\ DInv' /\ [Next]_vars => Kept
  <2> SUFFICES ASSUME DInv, DInv', [Next]_vars,
                      NEW d \in Default(db), NEW e \in Default(db'), d \in db',
                      \A h \in Enabled(db') \ db : ~Home(h)
               PROVE  d.id = e.id
    OBVIOUS
  <2>1. db \in SUBSET Location /\ db' \in SUBSET Location
    BY DEF DInv, IInv, TypeOK
  <2> QED
    BY <2>1, CommittedDescends, DefaultStays
<1>2. Spec => []DInv
  BY DInvInit, DInvNext, PTL DEF Spec
<1>3. Kept => [Kept]_vars
  OBVIOUS
<1> QED
  BY <1>1, <1>2, PTL DEF Spec, DefaultKept

=============================================================================
