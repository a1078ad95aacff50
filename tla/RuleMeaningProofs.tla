--------------------------- MODULE RuleMeaningProofs ---------------------------
(***************************************************************************)
(* Proofs about RuleExpression and RuleMeaning: what the lists of points   *)
(* compute is what the expression means of the hours and their numbers,    *)
(* for lists of any length, any numbers and any limits.                    *)
(***************************************************************************)
EXTENDS RuleMeaning, FiniteSetTheorems, SequenceTheorems, TLAPS

\* A set of numbers below a bound has a greatest one, a set of numbers a least one.
LEMMA LeastNumber ==
  ASSUME NEW T \in SUBSET Nat, T # {}
  PROVE  \E m \in T : \A t \in T : m <= t
<1>1. PICK m \in T : \A t \in T : ~(<<t, m>> \in OpToRel(<, Nat))
  BY WFMin, NatLessThanWellFounded, Zenon
<1>2. ASSUME NEW t \in T PROVE ~(t < m)
  BY <1>1 DEF OpToRel
<1> QED
  BY <1>2

LEMMA GreatestNumber ==
  ASSUME NEW T \in SUBSET Nat, T # {}, NEW bound \in Nat, \A t \in T : t <= bound
  PROVE  \E m \in T : \A t \in T : t <= m
<1> DEFINE D == {bound - t : t \in T}
<1>1. D \in SUBSET Nat /\ D # {}
  <2>1. ASSUME NEW t \in T PROVE bound - t \in Nat
    <3>1. t \in Nat /\ t <= bound
      OBVIOUS
    <3> QED
      BY <3>1
  <2> QED
    BY <2>1
<1>2. PICK d \in D : \A e \in D : d <= e
  BY <1>1, LeastNumber
<1>3. PICK m \in T : d = bound - m
  OBVIOUS
<1>4. ASSUME NEW t \in T PROVE t <= m
  <2>1. bound - t \in D
    OBVIOUS
  <2>2. bound - m <= bound - t /\ t \in Nat /\ m \in Nat
    BY <1>2, <1>3, <2>1
  <2> QED
    BY <2>2
<1> QED
  BY <1>4

-----------------------------------------------------------------------------
(* The order of positions by their keys.                                   *)

Precedes(key, j, i) == key[j] < key[i] \/ (key[j] = key[i] /\ j < i)

\* A finite set of positions with numbers for keys.
Keyed(S, key) ==
  /\ IsFiniteSet(S)
  /\ S \subseteq Int
  /\ \A i \in S : key[i] \in Int

Preceding(S, key, i) == {j \in S : Precedes(key, j, i)}

Place(S, key, k) == CHOOSE i \in S : Cardinality(Preceding(S, key, i)) = k - 1

LEMMA PrecedingGrows ==
  ASSUME NEW S, NEW key, Keyed(S, key), NEW i \in S, NEW j \in S, Precedes(key, j, i)
  PROVE  /\ Cardinality(Preceding(S, key, j)) \in Nat
         /\ Cardinality(Preceding(S, key, i)) \in Nat
         /\ Cardinality(Preceding(S, key, j)) < Cardinality(Preceding(S, key, i))
<1> DEFINE A == Preceding(S, key, j)
           B == Preceding(S, key, i)
<1>0. i \in Int /\ j \in Int /\ key[i] \in Int /\ key[j] \in Int
  BY DEF Keyed
<1>a. ASSUME NEW x \in S, Precedes(key, x, j) PROVE Precedes(key, x, i)
  <2>1. x \in Int /\ key[x] \in Int
    BY DEF Keyed
  <2> QED
    BY <1>0, <1>a, <2>1 DEF Precedes
<1>b. ~Precedes(key, j, j)
  BY <1>0 DEF Precedes
<1>1. A \subseteq B /\ j \in B /\ j \notin A /\ B \subseteq S
  BY <1>a, <1>b DEF Preceding
<1>2. IsFiniteSet(A) /\ IsFiniteSet(B)
  BY <1>1, FS_Subset DEF Keyed
<1> HIDE DEF A, B
<1>3. /\ Cardinality(A) <= Cardinality(B)
      /\ Cardinality(B) = Cardinality(A) => B = A
  BY <1>1, <1>2, FS_Subset
<1>4. Cardinality(A) \in Nat /\ Cardinality(B) \in Nat
  BY <1>2, FS_CardinalityType
<1>5. Cardinality(A) < Cardinality(B)
  BY <1>1, <1>3, <1>4
<1> QED
  BY <1>4, <1>5 DEF A, B

LEMMA PrecedingBounded ==
  ASSUME NEW S, NEW key, Keyed(S, key), NEW i \in S
  PROVE  /\ Cardinality(S) \in Nat
         /\ Cardinality(Preceding(S, key, i)) \in 0 .. Cardinality(S) - 1
<1> DEFINE B == Preceding(S, key, i)
<1>1. B \subseteq S /\ i \notin B
  BY DEF Preceding, Precedes, Keyed
<1>2. IsFiniteSet(S) /\ IsFiniteSet(B)
  BY <1>1, FS_Subset DEF Keyed
<1> HIDE DEF B
<1>3. /\ Cardinality(B) <= Cardinality(S)
      /\ Cardinality(S) = Cardinality(B) => S = B
  BY <1>1, <1>2, FS_Subset
<1>4. Cardinality(S) \in Nat /\ Cardinality(B) \in Nat
  BY <1>2, FS_CardinalityType
<1>5. Cardinality(B) < Cardinality(S)
  BY <1>1, <1>3, <1>4
<1> QED
  BY <1>4, <1>5 DEF B

LEMMA PrecedesTotal ==
  ASSUME NEW S, NEW key, Keyed(S, key), NEW i \in S, NEW j \in S
  PROVE  /\ i # j => Precedes(key, i, j) \/ Precedes(key, j, i)
         /\ ~(Precedes(key, i, j) /\ Precedes(key, j, i))
BY DEF Precedes, Keyed

\* Every position has a place of its own, and the places are 1 .. Cardinality(S).
LEMMA PlacesTaken ==
  ASSUME NEW S, NEW key, Keyed(S, key), NEW k \in 1 .. Cardinality(S)
  PROVE  \E i \in S : Cardinality(Preceding(S, key, i)) = k - 1
<1> DEFINE n == Cardinality(S)
           Rank0(i) == Cardinality(Preceding(S, key, i))
           r == [i \in S |-> Rank0(i) + 1]
<1>1. n \in Nat /\ IsFiniteSet(S)
  BY FS_CardinalityType DEF Keyed
<1>2. \A i \in S : Rank0(i) \in 0 .. n - 1
  BY PrecedingBounded
<1>3. \A i, j \in S : i # j => Rank0(i) # Rank0(j)
  <2> SUFFICES ASSUME NEW i \in S, NEW j \in S, i # j
               PROVE  Rank0(i) # Rank0(j)
    OBVIOUS
  <2>1. Rank0(i) \in Nat /\ Rank0(j) \in Nat
    BY <1>1, <1>2
  <2>2. CASE Precedes(key, i, j)
    BY <2>1, <2>2, PrecedingGrows
  <2>3. CASE Precedes(key, j, i)
    BY <2>1, <2>3, PrecedingGrows
  <2> QED
    BY <2>2, <2>3, PrecedesTotal
<1> HIDE DEF Rank0
<1>4. r \in [S -> 1 .. n]
  BY <1>1, <1>2
<1>5. r \in Injection(S, 1 .. n)
  BY <1>3, <1>4, <1>1, <1>2 DEF Injection, IsInjective
<1>6. IsFiniteSet(1 .. n) /\ Cardinality(1 .. n) = n
  BY <1>1, FS_Interval
<1> HIDE DEF r
<1>7. r \in Surjection(S, 1 .. n)
  BY <1>1, <1>5, <1>6, FS_Injection
<1>8. \E i \in S : r[i] = k
  BY <1>7, <1>1 DEF Surjection
<1> QED
  BY <1>8, <1>2, <1>1 DEF r, Rank0

LEMMA PlaceAt ==
  ASSUME NEW S, NEW key, Keyed(S, key), NEW k \in 1 .. Cardinality(S)
  PROVE  /\ Place(S, key, k) \in S
         /\ Cardinality(Preceding(S, key, Place(S, key, k))) = k - 1
BY PlacesTaken DEF Place

LEMMA PlacesOrdered ==
  ASSUME NEW S, NEW key, Keyed(S, key),
         NEW k \in 1 .. Cardinality(S), NEW l \in 1 .. Cardinality(S), k < l
  PROVE  Precedes(key, Place(S, key, k), Place(S, key, l))
<1> DEFINE i == Place(S, key, k)
           j == Place(S, key, l)
<1>1. i \in S /\ j \in S
  BY PlaceAt
<1>2. Cardinality(Preceding(S, key, i)) = k - 1 /\ Cardinality(Preceding(S, key, j)) = l - 1
  BY PlaceAt
<1>0. Cardinality(S) \in Nat
  BY FS_CardinalityType DEF Keyed
<1> HIDE DEF i, j
<1>3. k - 1 < l - 1 /\ k - 1 # l - 1
  BY <1>0
<1>4. i # j
  BY <1>2, <1>3
<1>5. ASSUME Precedes(key, j, i) PROVE FALSE
  BY <1>0, <1>1, <1>2, <1>5, PrecedingGrows
<1>6. Precedes(key, i, j)
  BY <1>1, <1>4, <1>5, PrecedesTotal
<1> QED
  BY <1>6 DEF i, j

LEMMA PlaceOf ==
  ASSUME NEW S, NEW key, Keyed(S, key), NEW i \in S
  PROVE  \E k \in 1 .. Cardinality(S) : Place(S, key, k) = i
<1> DEFINE k == Cardinality(Preceding(S, key, i)) + 1
           j == Place(S, key, k)
<1>1. /\ Cardinality(S) \in Nat /\ k \in 1 .. Cardinality(S)
      /\ Cardinality(Preceding(S, key, i)) \in Nat
  BY PrecedingBounded
<1>2. j \in S /\ Cardinality(Preceding(S, key, j)) = k - 1
  BY <1>1, PlaceAt
<1>3. Cardinality(Preceding(S, key, i)) = k - 1 /\ k \in Int
  BY <1>1
<1> HIDE DEF k, j
<1>4. ASSUME i # j PROVE FALSE
  <2>1. CASE Precedes(key, j, i)
    BY <1>2, <1>3, <2>1, PrecedingGrows
  <2>2. CASE Precedes(key, i, j)
    BY <1>2, <1>3, <2>2, PrecedingGrows
  <2> QED
    BY <1>2, <1>4, <2>1, <2>2, PrecedesTotal
<1> QED
  BY <1>1, <1>4 DEF j

-----------------------------------------------------------------------------
(* Arranged and Chosen.                                                    *)

LEMMA ArrangedIs ==
  ASSUME NEW s, NEW S, NEW key, Keyed(S, key)
  PROVE  /\ Arranged(s, S, key) = [k \in 1 .. Cardinality(S) |-> s[Place(S, key, k)]]
         /\ Cardinality(S) \in Nat
         /\ DOMAIN Arranged(s, S, key) = 1 .. Cardinality(S)
         /\ Len(Arranged(s, S, key)) = Cardinality(S)
<1> DEFINE n == Cardinality(S)
           f == [k \in 1 .. n |-> s[Place(S, key, k)]]
<1>1. n \in Nat
  BY FS_CardinalityType DEF Keyed
<1>2. Arranged(s, S, key) = SubSeq(f, 1, n)
  BY DEF Arranged, Place, Preceding, Precedes
<1> HIDE DEF n
<1>3. SubSeq(f, 1, n) = f
  <2>1. f \in Seq({f[k] : k \in 1 .. n})
    BY <1>1
  <2>2. Len(f) = n
    BY <1>1
  <2> HIDE DEF f
  <2> QED
    BY <1>1, <2>1, <2>2, SubSeqFull
<1>4. DOMAIN f = 1 .. n /\ Len(f) = n
  BY <1>1
<1> QED
  BY <1>1, <1>2, <1>3, <1>4 DEF n

\* f counts the numbers of S in their order.
Counts(f, S) ==
  /\ Cardinality(S) \in Nat
  /\ IsFiniteSet(S)
  /\ S \subseteq Int
  /\ f \in [1 .. Cardinality(S) -> S]
  /\ \A k, l \in 1 .. Cardinality(S) : k < l => f[k] < f[l]
  /\ \A x \in S : \E k \in 1 .. Cardinality(S) : f[k] = x

\* The list q is made of the elements of s that f counts.
Picks(q, f, s, S) == q = [k \in 1 .. Cardinality(S) |-> s[f[k]]]

LEMMA ChosenIs ==
  ASSUME NEW s, NEW S, IsFiniteSet(S), S \subseteq Int
  PROVE  \E f : Counts(f, S) /\ Picks(Chosen(s, S), f, s, S)
<1> DEFINE key == [i \in S |-> i]
           n == Cardinality(S)
           f == [k \in 1 .. n |-> Place(S, key, k)]
<1>1. Keyed(S, key)
  BY DEF Keyed
<1>2. n \in Nat
  BY FS_CardinalityType
<1>3. \A k \in 1 .. n : Place(S, key, k) \in S
  BY <1>1, PlaceAt
<1>4. \A k, l \in 1 .. n : k < l => Place(S, key, k) < Place(S, key, l)
  <2> SUFFICES ASSUME NEW k \in 1 .. n, NEW l \in 1 .. n, k < l
               PROVE  Place(S, key, k) < Place(S, key, l)
    OBVIOUS
  <2>1. Precedes(key, Place(S, key, k), Place(S, key, l))
    BY <1>1, PlacesOrdered
  <2> HIDE DEF n
  <2>2. Place(S, key, k) \in S /\ Place(S, key, l) \in S
    BY <1>3
  <2> QED
    BY <2>1, <2>2 DEF Precedes
<1>5. \A x \in S : \E k \in 1 .. n : Place(S, key, k) = x
  BY <1>1, PlaceOf
<1>6. Chosen(s, S) = [k \in 1 .. n |-> s[Place(S, key, k)]]
  <2>1. Chosen(s, S) = Arranged(s, S, key)
    BY DEF Chosen
  <2> HIDE DEF key
  <2> QED
    BY <1>1, <2>1, ArrangedIs
<1> HIDE DEF key
<1>7. Counts(f, S)
  BY <1>2, <1>3, <1>4, <1>5 DEF Counts
<1>8. [k \in 1 .. n |-> s[Place(S, key, k)]] = [k \in 1 .. n |-> s[f[k]]]
  OBVIOUS
<1>9. Picks(Chosen(s, S), f, s, S)
  BY <1>6, <1>8 DEF Picks
<1> HIDE DEF f
<1> QED
  BY <1>7, <1>9

\* A list: its domain and its length go together.
List(s) == Len(s) \in Nat /\ DOMAIN s = 1 .. Len(s)

-----------------------------------------------------------------------------
(* Lists of points, and the hours and numbers they stand for.              *)

\* The points are those of the hours T, in order; of those at H the metric m has the
\* number v[h], of the others none.
Listing(points, T, H, m, v) ==
  /\ List(points)
  /\ \A i \in DOMAIN points : points[i].time \in Int
  /\ \A i, j \in DOMAIN points : i < j => points[i].time < points[j].time
  /\ T = {points[i].time : i \in DOMAIN points}
  /\ H \subseteq T
  /\ \A i \in DOMAIN points :
       points[i].values[m] = IF points[i].time \in H THEN {v[points[i].time]} ELSE {}
  /\ \A h \in H : v[h] \in Int

LEMMA ListingSome ==
  ASSUME NEW points, NEW T, NEW H, NEW m, NEW v, Listing(points, T, H, m, v),
         NEW S \in SUBSET DOMAIN points
  PROVE  LET U == {points[i].time : i \in S} IN
         /\ Listing(Chosen(points, S), U, H \intersect U, m, v)
         /\ Len(Chosen(points, S)) = Cardinality(S)
         /\ Cardinality(S) \in Nat
<1> DEFINE U == {points[i].time : i \in S}
           n == Cardinality(S)
<1>1. IsFiniteSet(S) /\ S \subseteq Int
  <2>1. IsFiniteSet(DOMAIN points)
    BY FS_Interval DEF Listing, List
  <2> QED
    BY <2>1, FS_Subset DEF Listing, List
<1>2. PICK f : Counts(f, S) /\ Picks(Chosen(points, S), f, points, S)
  BY <1>1, ChosenIs
<1> DEFINE Q == Chosen(points, S)
<1>3. n \in Nat
  BY <1>2 DEF Counts
<1>4. Q = [k \in 1 .. n |-> points[f[k]]]
  BY <1>2 DEF Picks
<1>f. /\ \A k \in 1 .. n : f[k] \in S
      /\ \A k, l \in 1 .. n : k < l => f[k] < f[l]
      /\ \A x \in S : \E k \in 1 .. n : f[k] = x
  BY <1>2 DEF Counts
<1> HIDE DEF Q, n
<1>5. Len(Q) = n /\ DOMAIN Q = 1 .. n
  BY <1>3, <1>4
<1>6. \A k \in 1 .. n : Q[k] = points[f[k]] /\ f[k] \in DOMAIN points
  BY <1>4, <1>f
<1>7. \A k \in DOMAIN Q : Q[k].time \in Int
  BY <1>5, <1>6 DEF Listing
<1>8. \A k, l \in DOMAIN Q : k < l => Q[k].time < Q[l].time
  BY <1>5, <1>6, <1>f DEF Listing
<1>9. U = {Q[k].time : k \in DOMAIN Q}
  <2>1. U \subseteq {Q[k].time : k \in DOMAIN Q}
    BY <1>5, <1>6, <1>f
  <2>2. {Q[k].time : k \in DOMAIN Q} \subseteq U
    BY <1>5, <1>6, <1>f
  <2> QED
    BY <2>1, <2>2
<1>10. \A k \in DOMAIN Q :
         Q[k].values[m] = IF Q[k].time \in H \intersect U THEN {v[Q[k].time]} ELSE {}
  <2> SUFFICES ASSUME NEW k \in DOMAIN Q
               PROVE  Q[k].values[m] =
                        IF Q[k].time \in H \intersect U THEN {v[Q[k].time]} ELSE {}
    OBVIOUS
  <2>1. Q[k].time \in U
    BY <1>9
  <2> DEFINE p == points[f[k]]
  <2>2. f[k] \in DOMAIN points /\ Q[k] = p
    BY <1>5, <1>6
  <2>3. p.values[m] = IF p.time \in H THEN {v[p.time]} ELSE {}
    BY <2>2 DEF Listing
  <2> HIDE DEF U, p
  <2> QED
    BY <2>1, <2>2, <2>3
<1>11. \A h \in H \intersect U : v[h] \in Int
  BY DEF Listing
<1>12. List(Q)
  BY <1>3, <1>5 DEF List
<1>13. Listing(Q, U, H \intersect U, m, v)
  <2>1. H \intersect U \subseteq U
    OBVIOUS
  <2> HIDE DEF U
  <2> QED
    BY <1>7, <1>8, <1>9, <1>10, <1>11, <1>12, <2>1, Zenon DEF Listing
<1> QED
  BY <1>3, <1>5, <1>13 DEF Q, n

Hours(S, range) == {h \in S : InRange(h, range)}

\* The points of a range stand for the hours of the range.
LEMMA RangeListing ==
  ASSUME NEW points, NEW T, NEW H, NEW m, NEW v, Listing(points, T, H, m, v), NEW range
  PROVE  Listing(PointsInRange(points, range), Hours(T, range), Hours(H, range), m, v)
<1> DEFINE S == {i \in DOMAIN points : InRange(points[i].time, range)}
           U == {points[i].time : i \in S}
<1>1. Listing(Chosen(points, S), U, H \intersect U, m, v)
  BY ListingSome
<1>2. U = Hours(T, range)
  BY DEF Hours, Listing
<1>3. H \intersect U = Hours(H, range)
  BY <1>2 DEF Hours, Listing
<1>4. PointsInRange(points, range) = Chosen(points, S)
  BY DEF PointsInRange
<1> QED
  BY <1>1, <1>2, <1>3, <1>4

\* A list that counts a set is as long as the set.
LEMMA CountsIntro ==
  ASSUME NEW n \in Nat, NEW S \in SUBSET Int, NEW f \in [1 .. n -> S],
         \A k, l \in 1 .. n : k < l => f[k] < f[l],
         \A x \in S : \E k \in 1 .. n : f[k] = x
  PROVE  Counts(f, S) /\ Cardinality(S) = n
<1>1. f \in Surjection(1 .. n, S)
  BY DEF Surjection
<1>2. \A k, l \in 1 .. n : f[k] = f[l] => k = l
  <2> SUFFICES ASSUME NEW k \in 1 .. n, NEW l \in 1 .. n, f[k] = f[l], k # l
               PROVE  FALSE
    OBVIOUS
  <2>1. k < l \/ l < k
    OBVIOUS
  <2>2. f[k] \in Int /\ f[l] \in Int
    OBVIOUS
  <2> QED
    BY <2>1, <2>2
<1>3. f \in Injection(1 .. n, S)
  BY <1>2, Zenon DEF Injection, IsInjective
<1>4. ExistsBijection(1 .. n, S)
  BY <1>1, <1>3 DEF ExistsBijection, Bijection
<1>5. Cardinality(S) = n
  BY <1>4, FS_CountingElements
<1>6. IsFiniteSet(S)
  BY <1>4, FS_NatBijection
<1> QED
  BY <1>5, <1>6 DEF Counts

LEMMA ListingCounts ==
  ASSUME NEW points, NEW T, NEW H, NEW m, NEW v, Listing(points, T, H, m, v)
  PROVE  LET f == [k \in DOMAIN points |-> points[k].time] IN
         /\ Counts(f, T)
         /\ Cardinality(T) = Len(points)
         /\ points = <<>> <=> T = {}
<1> DEFINE f == [k \in DOMAIN points |-> points[k].time]
           n == Len(points)
<1>1. n \in Nat /\ DOMAIN points = 1 .. n
  BY DEF Listing, List
<1>2. T \in SUBSET Int
  BY DEF Listing
<1>3. f \in [1 .. n -> T]
  BY <1>1 DEF Listing
<1>4. \A k, l \in 1 .. n : k < l => f[k] < f[l]
  BY <1>1 DEF Listing
<1>5. \A x \in T : \E k \in 1 .. n : f[k] = x
  BY <1>1 DEF Listing
<1> HIDE DEF f
<1>6. Counts(f, T) /\ Cardinality(T) = n
  BY <1>1, <1>2, <1>3, <1>4, <1>5, CountsIntro
<1>7. points = <<>> <=> T = {}
  <2>1. ASSUME points = <<>> PROVE T = {}
    BY <2>1 DEF Listing
  <2>2. ASSUME T = {} PROVE n = 0
    BY <1>1, <1>3, <2>2
  <2>3. ASSUME n = 0 PROVE points = <<>>
    BY <1>1, <2>3 DEF Listing
  <2> QED
    BY <2>1, <2>2, <2>3
<1> QED
  BY <1>6, <1>7 DEF f

\* A list of the numbers of the hours H, in the order of the hours.
Valued(vals, H, v) ==
  /\ \A h \in H : v[h] \in Int
  /\ \E f : Counts(f, H) /\ vals = [k \in 1 .. Cardinality(H) |-> v[f[k]]]

LEMMA ValuesListed ==
  ASSUME NEW points, NEW T, NEW H, NEW m, NEW v, Listing(points, T, H, m, v), NEW range
  PROVE  Valued(MetricValues(points, m, range), Hours(H, range), v)
<1> DEFINE inside == PointsInRange(points, range)
           S == {i \in DOMAIN inside : Has(inside[i], m)}
           present == Chosen(inside, S)
           R == Hours(H, range)
           U == {inside[i].time : i \in S}
<1>1. Listing(inside, Hours(T, range), R, m, v)
  BY RangeListing
<1>a. MetricValues(points, m, range) = [i \in DOMAIN present |-> ValueOf(present[i], m)]
  BY DEF MetricValues
<1> HIDE DEF inside, R
<1>2. Listing(present, U, R \intersect U, m, v)
  BY <1>1, ListingSome
<1>3. \A i \in DOMAIN inside : Has(inside[i], m) <=> inside[i].time \in R
  BY <1>1 DEF Listing, Has
<1>4. R \subseteq {inside[i].time : i \in DOMAIN inside}
  BY <1>1 DEF Listing
<1>5. U = R
  BY <1>3, <1>4
<1> HIDE DEF present, U, S
<1>6. Listing(present, R, R, m, v)
  BY <1>2, <1>5
<1>7. \A i \in DOMAIN present : ValueOf(present[i], m) = v[present[i].time]
  BY <1>6 DEF Listing, ValueOf
<1> DEFINE f == [k \in DOMAIN present |-> present[k].time]
           n == Cardinality(R)
<1>c. Counts(f, R) /\ n = Len(present)
  BY <1>6, ListingCounts
<1>d. DOMAIN present = 1 .. Len(present)
  BY <1>6 DEF Listing, List
<1>8. Counts(f, R) /\ DOMAIN present = 1 .. n
  BY <1>c, <1>d
<1>b. \A i \in 1 .. n : ValueOf(present[i], m) = v[f[i]]
  BY <1>7, <1>8
<1> HIDE DEF f, n
<1>9. MetricValues(points, m, range) = [k \in 1 .. n |-> v[f[k]]]
  BY <1>8, <1>a, <1>b
<1>10. \A h \in R : v[h] \in Int
  BY <1>6 DEF Listing
<1>11. \E g : Counts(g, R) /\ MetricValues(points, m, range) = [k \in 1 .. n |-> v[g[k]]]
  BY <1>8, <1>9
<1> QED
  BY <1>10, <1>11 DEF Valued, R, n

-----------------------------------------------------------------------------
(* Sums.                                                                   *)

\* g[T] is the sum of v over T: one element more adds its number, whichever it is.
IsSum(g, v, U) ==
  /\ g \in [SUBSET U -> Int]
  /\ \A x \in U : v[x] \in Int
  /\ g[{}] = 0
  /\ \A T \in SUBSET U : \A x \in T : g[T] = v[x] + g[T \ {x}]

LEMMA SumExtends ==
  ASSUME NEW v, NEW T, NEW a \in T, v[a] \in Int, NEW g, IsSum(g, v, T \ {a})
  PROVE  \E h : IsSum(h, v, T)
<1> DEFINE W == T \ {a}
           h == [s \in SUBSET T |-> g[s \ {a}] + IF a \in s THEN v[a] ELSE 0]
<1>1. \A s \in SUBSET T : g[s \ {a}] \in Int
  BY DEF IsSum
<1>2. h \in [SUBSET T -> Int]
  <2>1. ASSUME NEW s \in SUBSET T
        PROVE  g[s \ {a}] + (IF a \in s THEN v[a] ELSE 0) \in Int
    <3>1. g[s \ {a}] \in Int
      BY <1>1
    <3>2. CASE a \in s
      BY <3>1, <3>2
    <3>3. CASE a \notin s
      BY <3>1, <3>3
    <3> QED
      BY <3>2, <3>3
  <2> QED
    BY <2>1
<1>3. h[{}] = 0
  BY DEF IsSum
<1>4. ASSUME NEW s \in SUBSET T, NEW x \in s
      PROVE  h[s] = v[x] + h[s \ {x}]
  <2>1. h[s] = g[s \ {a}] + IF a \in s THEN v[a] ELSE 0
    OBVIOUS
  <2>2. h[s \ {x}] = g[(s \ {x}) \ {a}] + IF a \in s \ {x} THEN v[a] ELSE 0
    OBVIOUS
  <2>3. CASE x = a
    <3>1. (s \ {x}) \ {a} = s \ {a} /\ a \in s /\ a \notin s \ {x}
      BY <2>3
    <3>2. g[s \ {a}] \in Int
      BY <1>1
    <3>3. h[s] = g[s \ {a}] + v[a] /\ h[s \ {x}] = g[s \ {a}] + 0
      BY <2>1, <2>2, <3>1
    <3> HIDE DEF h
    <3> QED
      BY <2>3, <3>2, <3>3
  <2>4. CASE x # a
    <3>1. s \ {a} \in SUBSET W /\ x \in s \ {a}
      BY <2>4
    <3>2. g[s \ {a}] = v[x] + g[(s \ {a}) \ {x}]
      BY <3>1 DEF IsSum
    <3>3. (s \ {a}) \ {x} = (s \ {x}) \ {a} /\ (a \in s <=> a \in s \ {x})
      BY <2>4
    <3>4. g[(s \ {x}) \ {a}] \in Int /\ g[s \ {a}] \in Int /\ v[x] \in Int
      BY <1>1, <3>1 DEF IsSum
    <3>5. v[x] + g[(s \ {x}) \ {a}] = g[s \ {a}]
      BY <3>2, <3>3
    <3>6. CASE a \in s
      <4>1. h[s] = g[s \ {a}] + v[a] /\ h[s \ {x}] = g[(s \ {x}) \ {a}] + v[a]
        BY <2>1, <2>2, <3>3, <3>6
      <4> HIDE DEF h
      <4>2. v[x] + (g[(s \ {x}) \ {a}] + v[a]) = (v[x] + g[(s \ {x}) \ {a}]) + v[a]
        BY <3>4
      <4> QED
        BY <4>1, <4>2, <3>5
    <3>7. CASE a \notin s
      BY <2>1, <2>2, <3>3, <3>4, <3>5, <3>7
    <3> QED
      BY <3>6, <3>7
  <2> QED
    BY <2>3, <2>4
<1> HIDE DEF h
<1>5. \A x \in T : v[x] \in Int
  BY DEF IsSum
<1> QED
  BY <1>2, <1>3, <1>4, <1>5 DEF IsSum

\* There is a sum over every finite set: else there were a least set without one.
LEMMA SumExists ==
  ASSUME NEW U, IsFiniteSet(U), NEW v, \A x \in U : v[x] \in Int
  PROVE  \E g : IsSum(g, v, U)
<1> DEFINE Bad == {T \in SUBSET U : ~\E g : IsSum(g, v, T)}
           Sizes == {Cardinality(T) : T \in Bad}
<1> SUFFICES ASSUME U \in Bad PROVE FALSE
  OBVIOUS
<1>1. \A T \in SUBSET U : IsFiniteSet(T) /\ Cardinality(T) \in Nat
  BY FS_Subset, FS_CardinalityType
<1>2. Sizes \in SUBSET Nat /\ Sizes # {}
  BY <1>1
<1>3. PICK size \in Sizes : \A n \in Sizes : size <= n
  <2> HIDE DEF Sizes
  <2> QED
    BY <1>2, LeastNumber
<1>4. PICK T \in Bad : Cardinality(T) = size
  BY <1>3
<1>5. CASE T = {}
  <2> DEFINE g == [s \in SUBSET T |-> 0]
  <2>1. IsSum(g, v, T)
    BY <1>5 DEF IsSum
  <2> QED
    BY <2>1, <1>4
<1>6. CASE T # {}
  <2>1. PICK a \in T : TRUE
    BY <1>6
  <2>2. Cardinality(T \ {a}) = Cardinality(T) - 1
    BY <1>1, <2>1, FS_RemoveElement
  <2>3. Cardinality(T \ {a}) \notin Sizes
    <3>1. size \in Nat
      BY <1>2, <1>3
    <3> HIDE DEF Sizes
    <3> QED
      BY <1>3, <1>4, <2>2, <3>1
  <2>4. T \ {a} \in SUBSET U /\ T \ {a} \notin Bad
    BY <2>3
  <2>5. PICK g : IsSum(g, v, T \ {a})
    BY <2>4
  <2>6. v[a] \in Int
    BY <2>1
  <2> HIDE DEF Bad
  <2>7. \E h : IsSum(h, v, T)
    BY <2>1, <2>5, <2>6, SumExtends
  <2> QED
    BY <1>4, <2>7 DEF Bad
<1> QED
  BY <1>5, <1>6

\* Whatever adds one element after the other computes the sum.
Adds(f, v, U) ==
  /\ f[{}] = 0
  /\ \A s \in SUBSET U : s # {} =>
       \E x \in s : f[s] = v[x] + f[s \ {x}] \/ f[s] = f[s \ {x}] + v[x]

LEMMA SumUnique ==
  ASSUME NEW U, IsFiniteSet(U), NEW v, NEW g, IsSum(g, v, U), NEW f, Adds(f, v, U)
  PROVE  \A s \in SUBSET U : f[s] = g[s]
<1> DEFINE Bad == {s \in SUBSET U : f[s] # g[s]}
           Sizes == {Cardinality(s) : s \in Bad}
<1> SUFFICES ASSUME Bad # {} PROVE FALSE
  OBVIOUS
<1>1. \A s \in SUBSET U : IsFiniteSet(s) /\ Cardinality(s) \in Nat
  BY FS_Subset, FS_CardinalityType
<1>2. Sizes \in SUBSET Nat /\ Sizes # {}
  BY <1>1
<1>3. PICK size \in Sizes : \A n \in Sizes : size <= n
  <2> HIDE DEF Sizes
  <2> QED
    BY <1>2, LeastNumber
<1>4. PICK s \in Bad : Cardinality(s) = size
  BY <1>3
<1>5. s # {}
  BY <1>4 DEF IsSum, Adds
<1>6. PICK x \in s : f[s] = v[x] + f[s \ {x}] \/ f[s] = f[s \ {x}] + v[x]
  BY <1>5 DEF Adds
<1>7. Cardinality(s \ {x}) = Cardinality(s) - 1
  BY <1>1, <1>6, FS_RemoveElement
<1>8. Cardinality(s \ {x}) \notin Sizes
  <2>1. size \in Nat
    BY <1>2, <1>3
  <2> HIDE DEF Sizes
  <2> QED
    BY <1>3, <1>4, <1>7, <2>1
<1>9. f[s \ {x}] = g[s \ {x}]
  <2>1. s \ {x} \in SUBSET U
    OBVIOUS
  <2> QED
    BY <1>8, <2>1
<1>10. g[s] = v[x] + g[s \ {x}] /\ v[x] \in Int /\ g[s \ {x}] \in Int
  BY <1>6 DEF IsSum
<1> QED
  BY <1>4, <1>6, <1>9, <1>10

\* A finite set of numbers is counted by a list, whose ends are its least and its
\* greatest number.
LEMMA CountsExists ==
  ASSUME NEW S, IsFiniteSet(S), S \subseteq Int
  PROVE  \E f : Counts(f, S)
BY ChosenIs

LEMMA CountsEnds ==
  ASSUME NEW S, NEW f, Counts(f, S), S # {}
  PROVE  /\ Cardinality(S) \in Nat \ {0}
         /\ f[1] \in S /\ f[Cardinality(S)] \in S
         /\ Min(S) = f[1] /\ Max(S) = f[Cardinality(S)]
         /\ \A x \in S : f[1] <= x /\ x <= f[Cardinality(S)]
<1> DEFINE n == Cardinality(S)
<1>1. n \in Nat /\ S \subseteq Int /\ f \in [1 .. n -> S]
  BY DEF Counts
<1>2. n # 0
  BY FS_EmptySet DEF Counts
<1>3. \A x \in S : \E k \in 1 .. n : f[k] = x
  BY DEF Counts
<1>4. \A k, l \in 1 .. n : k < l => f[k] < f[l]
  BY DEF Counts
<1> HIDE DEF n
<1>5. 1 \in 1 .. n /\ n \in 1 .. n
  BY <1>1, <1>2
<1>6. f[1] \in S /\ f[n] \in S /\ f[1] \in Int /\ f[n] \in Int
  BY <1>1, <1>5
<1>7. ASSUME NEW x \in S PROVE f[1] <= x /\ x <= f[n]
  <2>1. PICK k \in 1 .. n : f[k] = x
    BY <1>3
  <2>2. x \in Int
    BY <1>1
  <2>3. k = 1 \/ 1 < k
    OBVIOUS
  <2>4. k = n \/ k < n
    BY <1>1
  <2>5. f[1] = f[k] \/ f[1] < f[k]
    BY <1>4, <1>5, <2>3
  <2>6. f[k] = f[n] \/ f[k] < f[n]
    BY <1>4, <1>5, <2>4
  <2> QED
    BY <1>6, <2>1, <2>2, <2>5, <2>6
<1>8. Min(S) = f[1]
  <2>1. ASSUME NEW x \in S, \A y \in S : x <= y PROVE x = f[1]
    BY <1>1, <1>6, <1>7, <2>1
  <2> QED
    BY <1>6, <1>7, <2>1 DEF Min
<1>9. Max(S) = f[n]
  <2>1. ASSUME NEW x \in S, \A y \in S : x >= y PROVE x = f[n]
    BY <1>1, <1>6, <1>7, <2>1
  <2>2. \A y \in S : f[n] >= y
    BY <1>1, <1>6, <1>7
  <2> QED
    BY <1>6, <2>1, <2>2 DEF Max
<1> QED
  BY <1>1, <1>2, <1>6, <1>7, <1>8, <1>9 DEF n

LEMMA MinMax ==
  ASSUME NEW S, IsFiniteSet(S), S \subseteq Int, S # {}
  PROVE  /\ Min(S) \in S /\ Max(S) \in S
         /\ \A x \in S : Min(S) <= x /\ x <= Max(S)
<1>1. PICK f : Counts(f, S)
  BY CountsExists
<1> QED
  BY <1>1, CountsEnds

\* The community modules' folds compute the sum.
LEMMA SetSum ==
  ASSUME NEW U, IsFiniteSet(U), NEW v, NEW g, IsSum(g, v, U)
  PROVE  SumFunctionOnSet(v, U) = g[U]
<1> DEFINE Iter(it) == [s \in SUBSET U |->
                          IF s = {} THEN 0
                          ELSE v[CHOOSE x \in s : TRUE] + it[s \ {CHOOSE x \in s : TRUE}]]
           f == CHOOSE it : it = Iter(it)
<1>1. SumFunctionOnSet(v, U) = f[U]
  BY DEF SumFunctionOnSet, FoldFunctionOnSet, MapThenFoldSet
<1>2. g = Iter(g)
  <2>1. \A s \in SUBSET U :
          g[s] = IF s = {} THEN 0
                 ELSE v[CHOOSE x \in s : TRUE] + g[s \ {CHOOSE x \in s : TRUE}]
    BY DEF IsSum
  <2>2. g = [s \in SUBSET U |-> g[s]]
    BY DEF IsSum
  <2> QED
    BY <2>1, <2>2
<1>3. f = Iter(f)
  <2> HIDE DEF Iter
  <2> QED
    BY <1>2
<1> HIDE DEF f
<1>4. f[{}] = 0
  BY <1>3
<1>5. ASSUME NEW s \in SUBSET U, s # {}
      PROVE  \E x \in s : f[s] = v[x] + f[s \ {x}]
  <2>1. f[s] = v[CHOOSE x \in s : TRUE] + f[s \ {CHOOSE x \in s : TRUE}]
    BY <1>3, <1>5
  <2>2. (CHOOSE x \in s : TRUE) \in s
    BY <1>5
  <2> QED
    BY <2>1, <2>2
<1>6. \A s \in SUBSET U : s # {} =>
        \E x \in s : f[s] = v[x] + f[s \ {x}] \/ f[s] = f[s \ {x}] + v[x]
  BY <1>5
<1>7. Adds(f, v, U)
  BY <1>4, <1>6, Zenon DEF Adds
<1>8. \A s \in SUBSET U : f[s] = g[s]
  BY <1>7, SumUnique
<1> QED
  BY <1>1, <1>8

LEMMA ListSum ==
  ASSUME NEW vals, NEW n \in Nat, DOMAIN vals = 1 .. n, NEW g, IsSum(g, vals, 1 .. n)
  PROVE  Total(vals) = g[1 .. n]
<1> DEFINE U == 1 .. n
           Iter(it) == [s \in SUBSET U |->
                          IF s = {} THEN 0 ELSE it[s \ {Max(s)}] + vals[Max(s)]]
           f == CHOOSE it : it = Iter(it)
<1>1. Total(vals) = f[U]
  BY DEF Total, FoldLeft, MapThenFoldSet
<1>2. IsFiniteSet(U)
  BY FS_Interval
<1>3. ASSUME NEW s \in SUBSET U, s # {} PROVE Max(s) \in s
  <2>1. IsFiniteSet(s)
    BY <1>2, FS_Subset
  <2>2. s \subseteq Int
    OBVIOUS
  <2> QED
    BY <1>3, <2>1, <2>2, MinMax
<1>4. g = Iter(g)
  <2>1. ASSUME NEW s \in SUBSET U, s # {} PROVE g[s] = g[s \ {Max(s)}] + vals[Max(s)]
    <3>1. Max(s) \in s
      BY <1>3, <2>1
    <3>2. g[s] = vals[Max(s)] + g[s \ {Max(s)}]
      BY <3>1 DEF IsSum
    <3>3. vals[Max(s)] \in Int /\ g[s \ {Max(s)}] \in Int
      BY <3>1 DEF IsSum
    <3> QED
      BY <3>2, <3>3
  <2>2. \A s \in SUBSET U : g[s] = IF s = {} THEN 0 ELSE g[s \ {Max(s)}] + vals[Max(s)]
    BY <2>1 DEF IsSum
  <2>3. g = [s \in SUBSET U |-> g[s]]
    BY DEF IsSum
  <2> QED
    BY <2>2, <2>3
<1>5. f = Iter(f)
  <2> HIDE DEF Iter
  <2> QED
    BY <1>4
<1> HIDE DEF f
<1>6. f[{}] = 0
  BY <1>5
<1>7. \A s \in SUBSET U : s # {} => f[s] = f[s \ {Max(s)}] + vals[Max(s)]
  BY <1>5
<1>8. \A s \in SUBSET U : s # {} =>
        \E x \in s : f[s] = vals[x] + f[s \ {x}] \/ f[s] = f[s \ {x}] + vals[x]
  BY <1>3, <1>7
<1> HIDE DEF Iter, U
<1>9. IsSum(g, vals, U)
  BY DEF U
<1>10. Adds(f, vals, U)
  BY <1>6, <1>8, Zenon DEF Adds
<1>11. \A s \in SUBSET U : f[s] = g[s]
  BY <1>2, <1>9, <1>10, SumUnique
<1> QED
  BY <1>1, <1>11 DEF U


LEMMA SumOfSet ==
  ASSUME NEW U, IsFiniteSet(U), NEW v, \A x \in U : v[x] \in Int
  PROVE  \E g : IsSum(g, v, U) /\ SumFunctionOnSet(v, U) = g[U]
BY SumExists, SetSum

-----------------------------------------------------------------------------
(* The functions of the values.                                            *)

Numbers(S, v) == {v[x] : x \in S}

LEMMA ValuedFacts ==
  ASSUME NEW vals, NEW H, NEW v, Valued(vals, H, v)
  PROVE  /\ Cardinality(H) \in Nat /\ IsFiniteSet(H) /\ H \subseteq Int
         /\ DOMAIN vals = 1 .. Cardinality(H) /\ Len(vals) = Cardinality(H)
         /\ \A i \in DOMAIN vals : vals[i] \in Int
         /\ \A h \in H : v[h] \in Int
         /\ Numbers(DOMAIN vals, vals) = Numbers(H, v)
         /\ vals = <<>> <=> H = {}
         /\ H = {} <=> Cardinality(H) = 0
<1> DEFINE n == Cardinality(H)
<1>1. PICK f : Counts(f, H) /\ vals = [k \in 1 .. n |-> v[f[k]]]
  BY DEF Valued
<1>2. n \in Nat /\ IsFiniteSet(H) /\ H \subseteq Int
  BY <1>1 DEF Counts
<1>3. H = {} <=> n = 0
  BY <1>2, FS_EmptySet
<1>4. /\ f \in [1 .. n -> H]
      /\ \A x \in H : \E k \in 1 .. n : f[k] = x
  BY <1>1 DEF Counts
<1> HIDE DEF n
<1>5. DOMAIN vals = 1 .. n /\ Len(vals) = n
  BY <1>1, <1>2
<1>6. \A h \in H : v[h] \in Int
  BY DEF Valued
<1>7. \A i \in 1 .. n : vals[i] = v[f[i]] /\ f[i] \in H
  BY <1>1, <1>4
<1>8. vals = <<>> <=> n = 0
  BY <1>2, <1>5
<1>9. Numbers(DOMAIN vals, vals) = Numbers(H, v)
  <2>1. ASSUME NEW h \in H PROVE \E i \in 1 .. n : vals[i] = v[h]
    BY <1>4, <1>7
  <2> QED
    BY <1>5, <1>7, <2>1 DEF Numbers
<1>10. \A i \in DOMAIN vals : vals[i] \in Int
  BY <1>5, <1>6, <1>7
<1> QED
  BY <1>2, <1>3, <1>5, <1>6, <1>8, <1>9, <1>10, Zenon DEF n

\* The images of positions are as many as the positions.
LEMMA CountsImage ==
  ASSUME NEW f, NEW H, Counts(f, H), NEW S \in SUBSET (1 .. Cardinality(H))
  PROVE  Cardinality({f[k] : k \in S}) = Cardinality(S)
<1> DEFINE n == Cardinality(H)
           U == {f[k] : k \in S}
           g == [k \in S |-> f[k]]
<1>1. n \in Nat /\ f \in [1 .. n -> H] /\ H \subseteq Int
  BY DEF Counts
<1>2. \A k, l \in 1 .. n : k < l => f[k] < f[l]
  BY DEF Counts
<1> HIDE DEF n
<1>3. IsFiniteSet(S)
  <2>1. IsFiniteSet(1 .. n)
    BY <1>1, FS_Interval
  <2> QED
    BY <2>1, FS_Subset DEF n
<1>4. S \subseteq 1 .. n
  BY DEF n
<1>5. \A k, l \in S : g[k] = g[l] => k = l
  <2> SUFFICES ASSUME NEW k \in S, NEW l \in S, f[k] = f[l], k # l PROVE FALSE
    OBVIOUS
  <2>1. k \in 1 .. n /\ l \in 1 .. n
    BY <1>4
  <2>2. k < l \/ l < k
    BY <2>1
  <2>3. f[k] \in Int /\ f[l] \in Int
    BY <1>1, <2>1
  <2> QED
    BY <1>2, <2>1, <2>2, <2>3
<1>6. g \in [S -> U] /\ \A u \in U : \E k \in S : g[k] = u
  OBVIOUS
<1> HIDE DEF g, U
<1>7. g \in Injection(S, U) /\ g \in Surjection(S, U)
  BY <1>5, <1>6, Zenon DEF Injection, IsInjective, Surjection
<1>8. ExistsBijection(S, U)
  BY <1>7 DEF ExistsBijection, Bijection
<1>9. Cardinality(U) = Cardinality(S)
  BY <1>3, <1>8, FS_Bijection
<1> QED
  BY <1>9 DEF U

\* The total of the values is the sum over the hours.
LEMMA TotalIs ==
  ASSUME NEW vals, NEW H, NEW v, Valued(vals, H, v)
  PROVE  \E g : /\ IsSum(g, vals, 1 .. Cardinality(H))
                /\ Total(vals) = g[1 .. Cardinality(H)]
                /\ SumFunctionOnSet(v, H) = g[1 .. Cardinality(H)]
                /\ Total(vals) \in Int
<1> DEFINE n == Cardinality(H)
<1>0. n \in Nat /\ IsFiniteSet(H) /\ DOMAIN vals = 1 .. n /\ \A h \in H : v[h] \in Int
  BY ValuedFacts
<1>1. PICK f : Counts(f, H) /\ vals = [k \in 1 .. n |-> v[f[k]]]
  BY DEF Valued
<1>2. PICK g : IsSum(g, v, H) /\ SumFunctionOnSet(v, H) = g[H]
  BY <1>0, SumOfSet
<1>3. /\ f \in [1 .. n -> H]
      /\ \A x \in H : \E k \in 1 .. n : f[k] = x
      /\ H \subseteq Int
  BY <1>1 DEF Counts
<1>4. \A k, l \in 1 .. n : f[k] = f[l] => k = l
  <2> SUFFICES ASSUME NEW k \in 1 .. n, NEW l \in 1 .. n, f[k] = f[l], k # l PROVE FALSE
    OBVIOUS
  <2>1. k < l \/ l < k
    OBVIOUS
  <2>2. f[k] \in Int /\ f[l] \in Int
    BY <1>3
  <2>3. \A i, j \in 1 .. n : i < j => f[i] < f[j]
    BY <1>1 DEF Counts
  <2> QED
    BY <2>1, <2>2, <2>3
<1> HIDE DEF n
<1> DEFINE Image(s) == {f[k] : k \in s}
           q == [s \in SUBSET (1 .. n) |-> g[Image(s)]]
<1>5. IsSum(q, vals, 1 .. n)
  <2>1. \A s \in SUBSET (1 .. n) : Image(s) \in SUBSET H
    BY <1>3
  <2>2. q \in [SUBSET (1 .. n) -> Int]
    BY <1>2, <2>1 DEF IsSum
  <2>3. \A x \in 1 .. n : vals[x] \in Int
    BY <1>0, <1>1, <1>3
  <2>4. q[{}] = 0
    <3>1. Image({}) = {}
      OBVIOUS
    <3> HIDE DEF Image
    <3>2. q[{}] = g[Image({})]
      OBVIOUS
    <3> QED
      BY <3>1, <3>2, <1>2 DEF IsSum
  <2>5. ASSUME NEW s \in SUBSET (1 .. n), NEW x \in s
        PROVE  q[s] = vals[x] + q[s \ {x}]
    <3>1. Image(s \ {x}) = Image(s) \ {f[x]}
      <4>1. ASSUME NEW k \in s, k # x PROVE f[k] # f[x]
        BY <1>4, <4>1
      <4> QED
        BY <4>1
    <3>2. f[x] \in Image(s)
      OBVIOUS
    <3> HIDE DEF Image
    <3>3. g[Image(s)] = v[f[x]] + g[Image(s) \ {f[x]}]
      BY <1>2, <2>1, <3>2 DEF IsSum
    <3>4. vals[x] = v[f[x]]
      BY <1>1
    <3>5. q[s] = g[Image(s)] /\ q[s \ {x}] = g[Image(s \ {x})]
      OBVIOUS
    <3> QED
      BY <3>1, <3>3, <3>4, <3>5
  <2> HIDE DEF q
  <2> QED
    BY <2>2, <2>3, <2>4, <2>5 DEF IsSum
<1>6. q[1 .. n] = g[H]
  <2>1. Image(1 .. n) = H
    BY <1>3
  <2> HIDE DEF Image
  <2>2. q[1 .. n] = g[Image(1 .. n)]
    OBVIOUS
  <2> QED
    BY <2>1, <2>2
<1> HIDE DEF q
<1>7. Total(vals) = q[1 .. n]
  BY <1>0, <1>5, ListSum
<1>8. q[1 .. n] \in Int
  BY <1>5 DEF IsSum
<1> QED
  BY <1>2, <1>5, <1>6, <1>7, <1>8 DEF n

\* The same values, squared.
LEMMA ValuedSquares ==
  ASSUME NEW vals, NEW H, NEW v, Valued(vals, H, v)
  PROVE  Valued([i \in DOMAIN vals |-> vals[i] * vals[i]], H, [h \in H |-> v[h] * v[h]])
<1> DEFINE n == Cardinality(H)
           w == [h \in H |-> v[h] * v[h]]
           sq == [i \in DOMAIN vals |-> vals[i] * vals[i]]
<1>1. PICK f : Counts(f, H) /\ vals = [k \in 1 .. n |-> v[f[k]]]
  BY DEF Valued
<1>2. \A h \in H : w[h] \in Int
  BY DEF Valued
<1>3. f \in [1 .. n -> H]
  BY <1>1 DEF Counts
<1>4. DOMAIN vals = 1 .. n
  BY ValuedFacts
<1> HIDE DEF n
<1>5. sq = [k \in 1 .. n |-> w[f[k]]]
  <2>1. ASSUME NEW k \in 1 .. n PROVE sq[k] = w[f[k]]
    BY <1>1, <1>3, <1>4
  <2> QED
    BY <1>4, <2>1
<1> HIDE DEF w, sq
<1>6. Valued(sq, H, w)
  BY <1>1, <1>2, <1>5 DEF Valued, n
<1> QED
  BY <1>6 DEF w, sq

\* The first value is that of the first hour, the last that of the last.
LEMMA ValuesEnds ==
  ASSUME NEW vals, NEW H, NEW v, Valued(vals, H, v), H # {}
  PROVE  /\ Min(H) \in H /\ Max(H) \in H
         /\ vals[1] = v[Min(H)] /\ vals[Len(vals)] = v[Max(H)]
         /\ v[Min(H)] \in Int /\ v[Max(H)] \in Int
         /\ Change(vals) = ChangeOf(H, v) /\ ChangeOf(H, v) \in Int
<1> DEFINE n == Cardinality(H)
<1>1. PICK f : Counts(f, H) /\ vals = [k \in 1 .. n |-> v[f[k]]]
  BY DEF Valued
<1>2. n \in Nat \ {0} /\ Min(H) = f[1] /\ Max(H) = f[n] /\ f[1] \in H /\ f[n] \in H
  BY <1>1, CountsEnds
<1>3. Len(vals) = n
  BY ValuedFacts
<1>4. v[f[1]] \in Int /\ v[f[n]] \in Int
  BY <1>2, ValuedFacts
<1> HIDE DEF n
<1>5. vals[1] = v[f[1]] /\ vals[n] = v[f[n]]
  BY <1>1, <1>2
<1> QED
  BY <1>2, <1>3, <1>4, <1>5 DEF Change, ChangeOf

LEMMA MagnitudeIs ==
  ASSUME NEW c \in Int
  PROVE  Magnitude(c) = Max({c, -c})
<1>1. IsFiniteSet({c, -c})
  <2>1. IsFiniteSet({}) /\ IsFiniteSet({} \union {c})
    BY FS_EmptySet, FS_AddElement
  <2>2. IsFiniteSet(({} \union {c}) \union {-c})
    BY <2>1, FS_AddElement
  <2>3. ({} \union {c}) \union {-c} = {c, -c}
    OBVIOUS
  <2> QED
    BY <2>2, <2>3
<1>2. Max({c, -c}) \in {c, -c} /\ \A x \in {c, -c} : x <= Max({c, -c})
  BY <1>1, MinMax
<1>3. Magnitude(c) \in {c, -c} /\ \A x \in {c, -c} : x <= Magnitude(c)
  BY DEF Magnitude
<1> QED
  BY <1>2, <1>3

\* What the values differ from their mean by, squared and added up.
LEMMA VarianceIs ==
  ASSUME NEW vals, NEW H, NEW v, Valued(vals, H, v)
  PROVE  LET n == Cardinality(H)
             spread == SpreadOf(H, v)
         IN  /\ spread.num \in Int /\ spread.den = n * n
             /\ Variance(vals) = [num |-> n * spread.num, den |-> n * n * n]
<1> DEFINE n == Cardinality(H)
           square == [h \in H |-> v[h] * v[h]]
           sq == [i \in DOMAIN vals |-> vals[i] * vals[i]]
           c == Total(vals)
           off == [i \in DOMAIN vals |-> n * vals[i] - c]
           off2 == [i \in DOMAIN vals |-> off[i] * off[i]]
           U == 1 .. n
<1>1. n \in Nat /\ DOMAIN vals = U /\ Len(vals) = n /\ \A i \in U : vals[i] \in Int
  BY ValuedFacts
<1>2. PICK g : IsSum(g, vals, U) /\ c = g[U] /\ SumFunctionOnSet(v, H) = g[U] /\ c \in Int
  BY TotalIs
<1>a. Valued(sq, H, square)
  BY ValuedSquares
<1>3. PICK q : IsSum(q, sq, U) /\ SumFunctionOnSet(square, H) = q[U]
  <2> HIDE DEF square, sq
  <2> QED
    BY <1>a, TotalIs
<1>4. IsFiniteSet(U) /\ Cardinality(U) = n
  BY <1>1, FS_Interval
<1> HIDE DEF n, c
<1>5. \A s \in SUBSET U : IsFiniteSet(s) /\ Cardinality(s) \in Nat
  BY <1>4, FS_Subset, FS_CardinalityType
<1> DEFINE r == [s \in SUBSET U |-> n * n * q[s] - 2 * n * c * g[s] + Cardinality(s) * c * c]
<1>6. IsSum(r, off2, U)
  <2>1. \A s \in SUBSET U : q[s] \in Int /\ g[s] \in Int
    BY <1>2, <1>3 DEF IsSum
  <2>2. r \in [SUBSET U -> Int]
    <3>1. \A m, d, y, z, w \in Int : m * m * y - 2 * m * d * z + w * d * d \in Int
      OBVIOUS
    <3> HIDE DEF U
    <3>2. \A s \in SUBSET U : n * n * q[s] - 2 * n * c * g[s] + Cardinality(s) * c * c \in Int
      <4> TAKE s \in SUBSET U
      <4>1. n \in Int /\ c \in Int /\ q[s] \in Int /\ g[s] \in Int /\ Cardinality(s) \in Int
        BY <1>1, <1>2, <1>5, <2>1
      <4> QED
        BY <3>1, <4>1, Zenon
    <3> QED
      BY <3>2
  <2>3. \A x \in U : off2[x] \in Int
    BY <1>1, <1>2
  <2>4. r[{}] = 0
    <3>1. q[{}] = 0 /\ g[{}] = 0 /\ Cardinality({}) = 0
      BY <1>2, <1>3, FS_EmptySet DEF IsSum
    <3>2. r[{}] = n * n * q[{}] - 2 * n * c * g[{}] + Cardinality({}) * c * c
      OBVIOUS
    <3> QED
      BY <1>1, <1>2, <3>1, <3>2
  <2>5. ASSUME NEW s \in SUBSET U, NEW x \in s
        PROVE  r[s] = off2[x] + r[s \ {x}]
    <3> DEFINE t == s \ {x}
               a == vals[x]
               k == Cardinality(t)
    <3>1. t \in SUBSET U /\ x \in U
      OBVIOUS
    <3>2. q[s] = sq[x] + q[t] /\ g[s] = a + g[t]
      BY <1>2, <1>3 DEF IsSum
    <3>3. sq[x] = a * a /\ off2[x] = (n * a - c) * (n * a - c) /\ a \in Int
      BY <1>1
    <3>4. k \in Nat /\ Cardinality(s) = k + 1
      <4>1. IsFiniteSet(s) /\ Cardinality(s) \in Nat /\ k \in Nat
        BY <1>5, <3>1
      <4>2. k = Cardinality(s) - 1
        BY <4>1, FS_RemoveElement
      <4> QED
        BY <4>1, <4>2
    <3>5. q[t] \in Int /\ g[t] \in Int
      BY <2>1, <3>1
    <3>6. /\ r[s] = n * n * q[s] - 2 * n * c * g[s] + Cardinality(s) * c * c
          /\ r[t] = n * n * q[t] - 2 * n * c * g[t] + k * c * c
      BY <3>1
    <3> HIDE DEF r, off2, sq, t, a, k
    <3> DEFINE New(b, y, z, w) ==
                 n * n * (b * b + y) - 2 * n * c * (b + z) + (w + 1) * c * c
                   = (n * b - c) * (n * b - c) + (n * n * y - 2 * n * c * z + w * c * c)
    <3>7. \A b, y, z, w \in Int : New(b, y, z, w)
      <4>1. \A m, d \in Int : \A b, y, z, w \in Int :
              m * m * (b * b + y) - 2 * m * d * (b + z) + (w + 1) * d * d
                = (m * b - d) * (m * b - d) + (m * m * y - 2 * m * d * z + w * d * d)
        OBVIOUS
      <4>2. n \in Int /\ c \in Int
        BY <1>1, <1>2
      <4> QED
        BY <4>1, <4>2, Zenon
    <3>8. New(a, q[t], g[t], k)
      <4>1. a \in Int /\ q[t] \in Int /\ g[t] \in Int /\ k \in Int
        BY <1>1, <1>2, <3>3, <3>4, <3>5
      <4> HIDE DEF New
      <4> QED
        BY <3>7, <4>1
    <3>9. r[s] = off2[x] + r[t]
      BY <3>2, <3>3, <3>4, <3>6, <3>8
    <3> QED
      BY <3>9 DEF t
  <2> HIDE DEF r, off2
  <2> QED
    BY <2>2, <2>3, <2>4, <2>5 DEF IsSum
<1>7. r[U] = n * n * q[U] - 2 * n * c * g[U] + n * c * c
  BY <1>4
<1>8. DOMAIN off2 = U
  BY <1>1
<1>b. q[U] \in Int
  BY <1>3 DEF IsSum
<1> HIDE DEF r, off2, square
<1>9. Total(off2) = r[U]
  BY <1>1, <1>6, <1>8, ListSum
<1>10. r[U] = n * (n * q[U] - c * c)
  <2>1. \A m, d, y \in Int : m * m * y - 2 * m * d * d + m * d * d = m * (m * y - d * d)
    OBVIOUS
  <2>2. n \in Int /\ c \in Int /\ q[U] \in Int
    BY <1>1, <1>2, <1>b
  <2>3. n * n * q[U] - 2 * n * c * c + n * c * c = n * (n * q[U] - c * c)
    BY <2>1, <2>2, Zenon
  <2> QED
    BY <1>2, <1>7, <2>3
<1>11. SpreadOf(H, v) = [num |-> n * q[U] - c * c, den |-> n * n]
  BY <1>2, <1>3 DEF SpreadOf, n, square
<1>12. Variance(vals) = [num |-> Total(off2), den |-> n * n * n]
  BY <1>1 DEF Variance, off2, c
<1>13. n * q[U] - c * c \in Int
  BY <1>1, <1>2, <1>b
<1> QED
  BY <1>9, <1>10, <1>11, <1>12, <1>13 DEF n

\* As many hours as places have a number below, or not above, x.
Less(S, v, x) == {i \in S : v[i] < x}
NoMore(S, v, x) == {i \in S : v[i] <= x}
More(S, v, x) == {i \in S : v[i] > x}

LEMMA HoursBelow ==
  ASSUME NEW vals, NEW H, NEW v, Valued(vals, H, v), NEW x
  PROVE  /\ Cardinality(Less(H, v, x)) = Cardinality(Less(DOMAIN vals, vals, x))
         /\ Cardinality(NoMore(H, v, x)) = Cardinality(NoMore(DOMAIN vals, vals, x))
<1> DEFINE n == Cardinality(H)
           Below == Less(DOMAIN vals, vals, x)
           Upto == NoMore(DOMAIN vals, vals, x)
<1>1. PICK f : Counts(f, H) /\ vals = [k \in 1 .. n |-> v[f[k]]]
  BY DEF Valued
<1>2. /\ f \in [1 .. n -> H]
      /\ \A h \in H : \E k \in 1 .. n : f[k] = h
  BY <1>1 DEF Counts
<1>3. DOMAIN vals = 1 .. n
  BY ValuedFacts
<1> HIDE DEF n
<1>4. Less(H, v, x) = {f[i] : i \in Below}
  BY <1>1, <1>2, <1>3 DEF Less
<1>5. NoMore(H, v, x) = {f[i] : i \in Upto}
  BY <1>1, <1>2, <1>3 DEF NoMore
<1>6. Below \in SUBSET (1 .. n) /\ Upto \in SUBSET (1 .. n)
  BY <1>3 DEF Less, NoMore
<1> HIDE DEF Below, Upto
<1>7. /\ Cardinality({f[i] : i \in Below}) = Cardinality(Below)
      /\ Cardinality({f[i] : i \in Upto}) = Cardinality(Upto)
  BY <1>1, <1>6, CountsImage DEF n
<1> QED
  BY <1>4, <1>5, <1>7 DEF Below, Upto

LEMMA SortedIs ==
  ASSUME NEW vals, NEW H, NEW v, Valued(vals, H, v), NEW k \in 1 .. Cardinality(H)
  PROVE  Sorted(vals)[k] = Kth(k, H, v) /\ Kth(k, H, v) \in Int
<1> DEFINE n == Cardinality(H)
           D == DOMAIN vals
           p == Place(D, vals, k)
           x == vals[p]
           Earlier == Preceding(D, vals, p)
           Below(y) == Less(D, vals, y)
           Upto(y) == NoMore(D, vals, y)
           Fits(y) == /\ Cardinality(Less(H, v, y)) < k
                      /\ k <= Cardinality(NoMore(H, v, y))
           W == {v[h] : h \in H}
<1>1. /\ n \in Nat /\ D = 1 .. n /\ \A i \in D : vals[i] \in Int
      /\ \A i \in D : vals[i] \in W
      /\ \A y \in W : y \in Int
  <2>1. n \in Nat /\ D = 1 .. n /\ (\A i \in D : vals[i] \in Int) /\ \A h \in H : v[h] \in Int
    BY ValuedFacts
  <2>2. \A i \in D : vals[i] \in W
    <3>1. Numbers(DOMAIN vals, vals) = Numbers(H, v)
      BY ValuedFacts
    <3> QED
      BY <3>1 DEF Numbers
  <2> QED
    BY <2>1, <2>2
<1>2. IsFiniteSet(D) /\ Cardinality(D) = n
  BY <1>1, FS_Interval
<1>3. Keyed(D, vals)
  BY <1>1, <1>2 DEF Keyed
<1>k. k \in 1 .. Cardinality(D)
  BY <1>2
<1>4. p \in D /\ Cardinality(Earlier) = k - 1
  BY <1>3, <1>k, PlaceAt
<1>5. Sorted(vals)[k] = x
  <2>1. Sorted(vals) = [l \in 1 .. Cardinality(D) |-> vals[Place(D, vals, l)]]
    BY <1>3, ArrangedIs DEF Sorted
  <2> HIDE DEF D
  <2> QED
    BY <2>1, <1>k
<1> HIDE DEF n, p
<1>6. \A y : /\ Cardinality(Less(H, v, y)) = Cardinality(Below(y))
             /\ Cardinality(NoMore(H, v, y)) = Cardinality(Upto(y))
  BY HoursBelow
<1>7. \A y : /\ IsFiniteSet(Below(y)) /\ Cardinality(Below(y)) \in Nat
             /\ IsFiniteSet(Upto(y)) /\ Cardinality(Upto(y)) \in Nat
  <2> TAKE y
  <2>1. Below(y) \subseteq D /\ Upto(y) \subseteq D
    BY DEF Less, NoMore
  <2> HIDE DEF Below, Upto, D
  <2> QED
    BY <1>2, <2>1, FS_Subset, FS_CardinalityType
<1>8. Fits(x)
  <2>1. Below(x) \subseteq Earlier
    BY DEF Preceding, Precedes, Less
  <2>2. Earlier \union {p} \subseteq Upto(x)
    BY <1>1, <1>4 DEF Preceding, Precedes, NoMore
  <2>3. p \notin Earlier /\ Earlier \subseteq D
    BY <1>1, <1>4 DEF Preceding, Precedes
  <2> HIDE DEF x, Earlier, Below, Upto, D
  <2>4. IsFiniteSet(Earlier)
    BY <1>2, <2>3, FS_Subset
  <2>5. IsFiniteSet(Earlier \union {p}) /\ Cardinality(Earlier \union {p}) = Cardinality(Earlier) + 1
    BY <2>3, <2>4, FS_AddElement
  <2>6. Cardinality(Below(x)) <= Cardinality(Earlier)
    BY <2>1, <2>4, FS_Subset
  <2>7. Cardinality(Earlier \union {p}) <= Cardinality(Upto(x))
    BY <1>7, <2>2, FS_Subset
  <2>8. Cardinality(Below(x)) < k /\ k <= Cardinality(Upto(x))
    BY <1>4, <1>7, <2>5, <2>6, <2>7
  <2> QED
    BY <1>6, <2>8
<1>9. x \in W /\ x \in Int
  BY <1>1, <1>4
<1>10. ASSUME NEW y \in W, NEW z \in W, Fits(y), Fits(z), y < z
       PROVE  FALSE
  <2>1. y \in Int /\ z \in Int
    BY <1>1
  <2>2. Upto(y) \subseteq Below(z)
    BY <1>1, <1>10, <2>1 DEF Less, NoMore
  <2>3. k <= Cardinality(Upto(y)) /\ Cardinality(Below(z)) < k
    BY <1>6, <1>10
  <2> HIDE DEF Upto, Below, D
  <2>4. Cardinality(Upto(y)) <= Cardinality(Below(z))
    BY <1>7, <2>2, FS_Subset
  <2> QED
    BY <1>7, <2>3, <2>4
<1>11. \A y \in W : Fits(y) => y = x
  <2> SUFFICES ASSUME NEW y \in W, Fits(y), y # x PROVE FALSE
    BY Zenon
  <2>1. y \in Int
    BY <1>1
  <2>2. y < x \/ x < y
    BY <1>9, <2>1
  <2> HIDE DEF Fits, x
  <2> QED
    BY <1>8, <1>9, <1>10, <2>2
<1>12. Kth(k, H, v) = CHOOSE y \in W : Fits(y)
  BY DEF Kth, Less, NoMore
<1> HIDE DEF Fits, x
<1> QED
  BY <1>5, <1>8, <1>9, <1>11, <1>12

-----------------------------------------------------------------------------
(* Comparisons.                                                            *)

Ops == {">", ">=", "<", "<="}

\* A fraction is compared the same when it is reduced.
LEMMA CompareReduced ==
  ASSUME NEW c \in Int, c > 0, NEW num \in Int, NEW den \in Int, NEW limit \in Int,
         NEW op \in Ops
  PROVE  Compare([num |-> c * num, den |-> c * den], op, limit)
           <=> Compare([num |-> num, den |-> den], op, limit)
<1> DEFINE d == num - limit * den
           e == c * num - limit * (c * den)
<1>1. e = c * d
  <2> DEFINE Same(m, a, b, l) == m * a - l * (m * b) = m * (a - l * b)
  <2>1. \A m, a, b, l \in Int : Same(m, a, b, l)
    OBVIOUS
  <2>2. Same(c, num, den, limit)
    <3> HIDE DEF Same
    <3> QED
      BY <2>1
  <2> QED
    BY <2>2
<1>2. d \in Int
  OBVIOUS
<1> HIDE DEF d, e
<1>3. /\ e > 0 <=> d > 0
      /\ e >= 0 <=> d >= 0
      /\ e < 0 <=> d < 0
      /\ e <= 0 <=> d <= 0
  <2>1. CASE d > 0
    <3>1. c * d > 0
      BY <1>2, <2>1
    <3> QED
      BY <1>1, <1>2, <2>1, <3>1
  <2>2. CASE d = 0
    BY <1>1, <2>2
  <2>3. CASE d < 0
    <3>1. c * d < 0
      BY <1>2, <2>3
    <3> QED
      BY <1>1, <1>2, <2>3, <3>1
  <2> QED
    BY <1>2, <2>1, <2>2, <2>3
<1> QED
  BY <1>3 DEF Compare, d, e, Ops

\* The least number is as large as the comparison demands if all are, and so on.
LEMMA CompareEnds ==
  ASSUME NEW vals, NEW H, NEW v, Valued(vals, H, v), H # {}, NEW limit \in Int, NEW op \in Ops
  PROVE  LET least == Min(Range(vals))
             greatest == Max(Range(vals))
             upward == op \in {">", ">="}
         IN  /\ Compare(Whole(least), op, limit) <=>
                  IF upward THEN \A h \in H : Compare(Whole(v[h]), op, limit)
                            ELSE \E h \in H : Compare(Whole(v[h]), op, limit)
             /\ Compare(Whole(greatest), op, limit) <=>
                  IF upward THEN \E h \in H : Compare(Whole(v[h]), op, limit)
                            ELSE \A h \in H : Compare(Whole(v[h]), op, limit)
<1> DEFINE W == Numbers(H, v)
           least == Min(W)
           greatest == Max(W)
           Over(x) == Compare(Whole(x), op, limit)
<1>1. IsFiniteSet(H) /\ \A h \in H : v[h] \in Int
  BY ValuedFacts
<1>2. Range(vals) = W
  <2>1. Numbers(DOMAIN vals, vals) = W
    BY ValuedFacts
  <2> QED
    BY <2>1 DEF Range, Numbers
<1>3. W \subseteq Int /\ W # {}
  BY <1>1 DEF Numbers
<1>4. IsFiniteSet(W)
  <2>1. DOMAIN vals = 1 .. Cardinality(H) /\ Cardinality(H) \in Nat
    BY ValuedFacts
  <2>2. IsFiniteSet(DOMAIN vals)
    BY <2>1, FS_Interval
  <2>3. vals \in Surjection(DOMAIN vals, Range(vals))
    <3>1. vals = [i \in DOMAIN vals |-> vals[i]]
      BY DEF Valued
    <3>2. vals \in [DOMAIN vals -> Range(vals)]
      BY <3>1 DEF Range
    <3>3. \A x \in Range(vals) : \E i \in DOMAIN vals : vals[i] = x
      BY DEF Range
    <3> QED
      BY <3>2, <3>3 DEF Surjection
  <2> QED
    BY <2>2, <2>3, <1>2, FS_Surjection
<1> HIDE DEF W
<1>5. /\ least \in W /\ greatest \in W
      /\ \A x \in W : least <= x /\ x <= greatest
  BY <1>3, <1>4, MinMax
<1> HIDE DEF least, greatest
<1>6. \A x \in Int : Over(x) <=> CASE op = ">" -> x > limit [] op = ">=" -> x >= limit
                                  [] op = "<" -> x < limit [] op = "<=" -> x <= limit
  BY DEF Compare, Whole, Ops
<1> HIDE DEF Over
<1>7. CASE op \in {">", ">="}
  <2>1. \A x, y \in W : x <= y /\ Over(x) => Over(y)
    <3> SUFFICES ASSUME NEW x \in W, NEW y \in W, x <= y, Over(x) PROVE Over(y)
      OBVIOUS
    <3>1. x \in Int /\ y \in Int
      BY <1>3
    <3>2. CASE op = ">"
      BY <1>6, <3>1, <3>2
    <3>3. CASE op = ">="
      BY <1>6, <3>1, <3>3
    <3> QED
      BY <1>7, <3>2, <3>3
  <2>2. Over(least) <=> \A x \in W : Over(x)
    BY <1>5, <2>1
  <2>3. Over(greatest) <=> \E x \in W : Over(x)
    BY <1>5, <2>1
  <2> QED
    BY <1>2, <1>7, <2>2, <2>3 DEF Over, W, Numbers, least, greatest
<1>8. CASE op \notin {">", ">="}
  <2>1. \A x, y \in W : y <= x /\ Over(x) => Over(y)
    <3> SUFFICES ASSUME NEW x \in W, NEW y \in W, y <= x, Over(x) PROVE Over(y)
      OBVIOUS
    <3>1. x \in Int /\ y \in Int
      BY <1>3
    <3>2. CASE op = "<"
      BY <1>6, <3>1, <3>2
    <3>3. CASE op = "<="
      BY <1>6, <3>1, <3>3
    <3> QED
      BY <1>8, <3>2, <3>3 DEF Ops
  <2>2. Over(least) <=> \E x \in W : Over(x)
    BY <1>5, <2>1
  <2>3. Over(greatest) <=> \A x \in W : Over(x)
    BY <1>5, <2>1
  <2> QED
    BY <1>2, <1>8, <2>2, <2>3 DEF Over, W, Numbers, least, greatest
<1> QED
  BY <1>7, <1>8

-----------------------------------------------------------------------------
(* Percentiles.                                                            *)

\* The neighbours a percentile between 0 and 100 lies between.
LEMMA RankIs ==
  ASSUME NEW p \in 0 .. 100, NEW n \in Nat \ {0}
  PROVE  LET r == Rank(p, n)
             k == r \div 100
         IN  /\ r \in Nat /\ k \in 0 .. n - 1
             /\ Lower(p, n) = k
             /\ r - 100 * k = 0 => Upper(p, n) = k
             /\ r - 100 * k # 0 => Upper(p, n) = k + 1 /\ k + 1 <= n - 1
             /\ Indexes(Lower(p, n), n) /\ Indexes(Upper(p, n), n)
<1> DEFINE r == Rank(p, n)
           k == r \div 100
           u == -((-r) \div 100)
<1>1. r \in Nat /\ r <= 100 * (n - 1)
  <2>1. \A m, q \in Nat : q <= 100 => q * m \in Nat /\ q * m <= 100 * m
    OBVIOUS
  <2>2. p \in Nat /\ n - 1 \in Nat /\ p <= 100
    OBVIOUS
  <2> QED
    BY <2>1, <2>2 DEF Rank
<1>2. Lower(p, n) = k /\ Upper(p, n) = u
  BY DEF Lower, Upper
<1> HIDE DEF r
<1>3. k \in Nat /\ 100 * k <= r /\ r < 100 * k + 100
  BY <1>1
<1>4. u \in Int /\ 100 * u >= r /\ r > 100 * u - 100
  BY <1>1
<1> HIDE DEF k, u
<1>5. k <= n - 1
  BY <1>1, <1>3
<1>6. r - 100 * k = 0 => u = k
  BY <1>1, <1>3, <1>4
<1>7. r - 100 * k # 0 => u = k + 1 /\ k + 1 <= n - 1
  BY <1>1, <1>3, <1>4
<1>8. Indexes(k, n) /\ Indexes(u, n)
  BY <1>3, <1>5, <1>6, <1>7 DEF Indexes
<1> QED
  BY <1>1, <1>2, <1>3, <1>5, <1>6, <1>7, <1>8 DEF r, k

LEMMA PercentileIs ==
  ASSUME NEW vals, NEW H, NEW v, Valued(vals, H, v), H # {}, NEW p \in 0 .. 100
  PROVE  Percentile(p, vals) = PercentileOf(p, H, v)
<1> DEFINE n == Cardinality(H)
           s == Sorted(vals)
           r == Rank(p, n)
           k == r \div 100
<1>1. n \in Nat \ {0} /\ Len(vals) = n
  BY ValuedFacts
<1>2. \A i \in 1 .. n : s[i] = Kth(i, H, v) /\ Kth(i, H, v) \in Int
  BY SortedIs
<1> HIDE DEF n, s
<1>3. /\ r \in Nat /\ k \in 0 .. n - 1
      /\ Lower(p, n) = k
      /\ r - 100 * k = 0 => Upper(p, n) = k
      /\ r - 100 * k # 0 => Upper(p, n) = k + 1 /\ k + 1 <= n - 1
  BY <1>1, RankIs
<1>4. r = p * (n - 1)
  BY DEF Rank
<1> HIDE DEF r, k
<1> DEFINE low == Kth(k + 1, H, v)
           high == Kth(IF k = n - 1 THEN k + 1 ELSE k + 2, H, v)
           other == At(s, Upper(p, n))
<1>5. low \in Int /\ high \in Int
  BY <1>1, <1>2, <1>3
<1>6. At(s, k) = low
  BY <1>1, <1>2, <1>3 DEF At
<1>7. Percentile(p, vals) = [num |-> 100 * low + (r - 100 * k) * (other - low), den |-> 100]
  BY <1>1, <1>3, <1>6 DEF Percentile, s, r
<1>8. PercentileOf(p, H, v) = [num |-> 100 * low + (r - 100 * k) * (high - low), den |-> 100]
  BY <1>4 DEF PercentileOf, n, k
<1>9. CASE r - 100 * k = 0
  <2>1. other = low
    BY <1>3, <1>6, <1>9
  <2>2. (r - 100 * k) * (other - low) = 0 /\ (r - 100 * k) * (high - low) = 0
    BY <1>5, <1>9, <2>1
  <2> HIDE DEF low, high, other
  <2> QED
    BY <1>7, <1>8, <2>2
<1>10. CASE r - 100 * k # 0
  <2>1. other = high
    <3>1. Upper(p, n) = k + 1 /\ k # n - 1 /\ k + 2 \in 1 .. n /\ ~(k + 1 < 0)
      BY <1>1, <1>3, <1>10
    <3>2. k + 1 + 1 = k + 2
      BY <1>3
    <3>3. other = s[k + 2]
      BY <3>1, <3>2 DEF At
    <3> QED
      BY <1>2, <3>1, <3>3
  <2> HIDE DEF low, high, other
  <2> QED
    BY <1>7, <1>8, <2>1
<1> QED
  BY <1>9, <1>10

\* The median is the percentile 50.
LEMMA MedianIs ==
  ASSUME NEW vals, NEW H, NEW v, Valued(vals, H, v), H # {}, NEW limit \in Int, NEW op \in Ops
  PROVE  Compare(Median(vals), op, limit) <=> Compare(PercentileOf(50, H, v), op, limit)
<1> DEFINE n == Cardinality(H)
           s == Sorted(vals)
           mid == n \div 2
           k == (50 * (n - 1)) \div 100
           low == Kth(k + 1, H, v)
           high == Kth(IF k = n - 1 THEN k + 1 ELSE k + 2, H, v)
           far == 50 * (n - 1) - 100 * k
<1>1. n \in Nat \ {0} /\ Len(vals) = n
  BY ValuedFacts
<1>2. \A i \in 1 .. n : s[i] = Kth(i, H, v) /\ Kth(i, H, v) \in Int
  BY SortedIs
<1>3. PercentileOf(50, H, v) = [num |-> 100 * low + far * (high - low), den |-> 100]
  BY DEF PercentileOf
<1>m. Median(vals) = IF n % 2 = 0 THEN [num |-> s[mid] + s[mid + 1], den |-> 2]
                                  ELSE Whole(s[mid + 1])
  BY <1>1 DEF Median
<1> HIDE DEF n, s
<1>4. CASE n % 2 = 0
  <2>1. n = 2 * mid /\ mid \in Nat \ {0}
    BY <1>1, <1>4
  <2>2. k = mid - 1
    BY <2>1
  <2>3. far = 50
    BY <2>1, <2>2
  <2>4. k # n - 1 /\ mid \in 1 .. n /\ mid + 1 \in 1 .. n
    BY <2>1, <2>2
  <2>5. low = s[mid] /\ high = s[mid + 1] /\ low \in Int /\ high \in Int
    BY <1>2, <2>1, <2>2, <2>4
  <2> HIDE DEF low, high, far, mid, k
  <2>6. PercentileOf(50, H, v) = [num |-> 50 * (low + high), den |-> 50 * 2]
    BY <1>3, <2>3, <2>5
  <2>7. Median(vals) = [num |-> low + high, den |-> 2]
    BY <1>m, <1>4, <2>5
  <2> DEFINE both == low + high
  <2>8. both \in Int
    BY <2>5
  <2> HIDE DEF both
  <2>9. Compare([num |-> 50 * both, den |-> 50 * 2], op, limit)
          <=> Compare([num |-> both, den |-> 2], op, limit)
    BY <2>8, CompareReduced
  <2> QED
    BY <2>6, <2>7, <2>9 DEF both
<1>5. CASE n % 2 # 0
  <2>1. n = 2 * mid + 1 /\ mid \in Nat
    BY <1>1, <1>5
  <2>2. k = mid
    BY <2>1
  <2>3. far = 0
    BY <2>1, <2>2
  <2>4. mid + 1 \in 1 .. n /\ (k = n - 1 \/ k + 2 \in 1 .. n)
    BY <2>1, <2>2
  <2>5. low = s[mid + 1] /\ low \in Int /\ high \in Int
    BY <1>2, <2>1, <2>2, <2>4
  <2> HIDE DEF low, high, far, mid, k
  <2>6. PercentileOf(50, H, v) = [num |-> 100 * low, den |-> 100 * 1]
    BY <1>3, <2>3, <2>5
  <2>7. Median(vals) = [num |-> low, den |-> 1]
    BY <1>m, <1>5, <2>5 DEF Whole
  <2> QED
    BY <2>5, <2>6, <2>7, CompareReduced
<1> QED
  BY <1>4, <1>5

-----------------------------------------------------------------------------
(* What an expression evaluates to.                                        *)

Counted == Registry \ {"bare", "duration"}

\* A percentile the trial lets pass is not above 100.
LEMMA PercentileTried ==
  ASSUME NEW e, Trial(e), e.fn = "pctl", e.arg \in Nat
  PROVE  e.arg \in 0 .. 100
<1> DEFINE a == e.arg
           u == -((-a) \div 100)
<1>1. Indexes(Upper(e.arg, 2), 2)
  <2>1. ~Fails(e, <<1, 2>>, <<>>) /\ Len(<<1, 2>>) = 2
    BY DEF Trial
  <2> QED
    BY <2>1 DEF Fails
<1>2. Upper(e.arg, 2) = u
  <2>1. a * (2 - 1) = a
    OBVIOUS
  <2> QED
    BY <2>1 DEF Upper, Rank
<1> HIDE DEF u
<1>3. u < 2 /\ u \in Int /\ 100 * u >= a
  <2>1. u \in Int /\ 100 * u >= a
    BY DEF u
  <2> QED
    BY <1>1, <1>2, <2>1 DEF Indexes
<1> QED
  BY <1>3

\* A function of the values fails where the expression means nothing.
LEMMA FailsMeans ==
  ASSUME NEW e, e.fn \in Counted, Trial(e), e.fn = "pctl" => e.arg \in Nat, e.op # "none",
         NEW vals, NEW R, NEW v, Valued(vals, R, v),
         NEW previous, NEW old, NEW u, Valued(previous, old, u),
         NEW inRange, NEW times
  PROVE  Fails(e, vals, previous) <=> Meaningless(e, R, inRange, times, v, old)
<1>1. /\ vals = <<>> <=> R = {}
      /\ previous = <<>> <=> old = {}
      /\ Cardinality(R) \in Nat /\ Len(vals) = Cardinality(R)
      /\ R = {} <=> Cardinality(R) = 0
  BY ValuedFacts
<1>2. Meaningless(e, R, inRange, times, v, old) <=>
        \/ R = {}
        \/ e.fn \in {"delta", "abs_delta", "rate_of_change"} /\ Cardinality(R) = 1
        \/ e.fn = "rate_of_change" /\ v[Min(R)] = 0
        \/ e.fn = "forecast_delta" /\ old = {}
  BY DEF Meaningless, Counted
<1>3. CASE R = {}
  BY <1>1, <1>2, <1>3 DEF Fails
<1>4. CASE R # {}
  <2>1. vals[1] = v[Min(R)]
    BY <1>4, ValuesEnds
  <2>2. e.fn = "pctl" => \A i \in {Lower(e.arg, Len(vals)), Upper(e.arg, Len(vals))} :
                           Indexes(i, Len(vals))
    <3> HAVE e.fn = "pctl"
    <3>1. e.arg \in 0 .. 100
      BY PercentileTried
    <3>2. Len(vals) \in Nat \ {0}
      BY <1>1, <1>4
    <3> QED
      BY <3>1, <3>2, RankIs
  <2>3. Len(vals) < 2 <=> Cardinality(R) = 1
    BY <1>1, <1>4
  <2> QED
    BY <1>1, <1>2, <1>4, <2>1, <2>2, <2>3 DEF Fails
<1> QED
  BY <1>3, <1>4

\* The value of a function of the values.
Worth(e, vals, previous) ==
  CASE e.fn = "min"            -> Whole(Min(Range(vals)))
    [] e.fn = "max"            -> Whole(Max(Range(vals)))
    [] e.fn = "avg"            -> Mean(vals)
    [] e.fn = "sum"            -> Whole(Total(vals))
    [] e.fn = "median"         -> Median(vals)
    [] e.fn = "stddev"         -> Variance(vals)
    [] e.fn = "pctl"           -> Percentile(e.arg, vals)
    [] e.fn = "delta"          -> Whole(Change(vals))
    [] e.fn = "abs_delta"      -> Whole(Magnitude(Change(vals)))
    [] e.fn = "rate_of_change" -> [num |-> Change(vals), den |-> Magnitude(vals[1])]
    [] e.fn = "forecast_delta" -> Minus(Mean(vals), Mean(previous))

LEMMA MeanIs ==
  ASSUME NEW vals, NEW H, NEW v, Valued(vals, H, v)
  PROVE  Mean(vals) = MeanOf(H, v) /\ Total(vals) = SumFunctionOnSet(v, H)
BY TotalIs, ValuedFacts DEF Mean, MeanOf

LEMMA WorthMeans ==
  ASSUME NEW e, e.fn \in Counted, Trial(e), e.fn = "pctl" => e.arg \in Nat,
         e.op \in Ops, e.limit \in Int,
         NEW vals, NEW R, NEW v, Valued(vals, R, v), R # {},
         NEW previous, NEW old, NEW u, Valued(previous, old, u), NEW times
  PROVE  Compare(Worth(e, vals, previous), e.op, Limit(e)) <=> Means(e, R, times, v, old, u)
<1>1. CASE e.fn = "min"
  BY <1>1, CompareEnds DEF Worth, Limit, Means
<1>2. CASE e.fn = "max"
  BY <1>2, CompareEnds DEF Worth, Limit, Means
<1>3. CASE e.fn = "avg"
  BY <1>3, MeanIs DEF Worth, Limit, Means
<1>4. CASE e.fn = "sum"
  BY <1>4, MeanIs DEF Worth, Limit, Means
<1>5. CASE e.fn = "median"
  BY <1>5, MedianIs DEF Worth, Limit, Means
<1>6. CASE e.fn = "pctl"
  BY <1>6, PercentileTried, PercentileIs DEF Worth, Limit, Means
<1>7. CASE e.fn = "stddev"
  <2> DEFINE n == Cardinality(R)
             spread == SpreadOf(R, v)
  <2>1. n \in Nat \ {0}
    BY ValuedFacts
  <2>2. /\ spread.num \in Int /\ spread.den = n * n
        /\ Variance(vals) = [num |-> n * spread.num, den |-> n * n * n]
    BY VarianceIs
  <2>3. spread = [num |-> spread.num, den |-> spread.den]
    BY DEF SpreadOf
  <2> HIDE DEF n, spread
  <2>4. n * n * n = n * (n * n) /\ n * n \in Int
    BY <2>1
  <2>5. Compare([num |-> n * spread.num, den |-> n * (n * n)], e.op, e.limit * e.limit)
          <=> Compare([num |-> spread.num, den |-> n * n], e.op, e.limit * e.limit)
    <3> DEFINE square == e.limit * e.limit
               nn == n * n
    <3>1. square \in Int /\ nn \in Int /\ n > 0
      BY <2>1
    <3> HIDE DEF square, nn
    <3>2. Compare([num |-> n * spread.num, den |-> n * nn], e.op, square)
            <=> Compare([num |-> spread.num, den |-> nn], e.op, square)
      BY <2>1, <2>2, <3>1, CompareReduced
    <3> QED
      BY <3>2 DEF square, nn
  <2> QED
    BY <1>7, <2>2, <2>3, <2>4, <2>5 DEF Worth, Limit, Means, spread
<1>8. CASE e.fn = "delta"
  BY <1>8, ValuesEnds DEF Worth, Limit, Means
<1>9. CASE e.fn = "abs_delta"
  BY <1>9, ValuesEnds, MagnitudeIs DEF Worth, Limit, Means
<1>10. CASE e.fn = "rate_of_change"
  BY <1>10, ValuesEnds, MagnitudeIs DEF Worth, Limit, Means
<1>11. CASE e.fn = "forecast_delta"
  BY <1>11, MeanIs DEF Worth, Limit, Means
<1> QED
  BY <1>1, <1>2, <1>3, <1>4, <1>5, <1>6, <1>7, <1>8, <1>9, <1>10, <1>11 DEF Counted, Registry

LEMMA DurationIs ==
  ASSUME NEW e, NEW now, NEW points, NEW T, NEW H, NEW v, Listing(points, T, H, e.metric, v)
  PROVE  LET range == RangeAt(e.range, now)
             inside == PointsInRange(points, range)
             R == Hours(H, range)
         IN  /\ (\E p \in Range(inside) : ~Has(p, e.metric)) <=> Hours(T, range) # R
             /\ Hours(T, range) = R =>
                  Len(Filtered(e, points, now)) = Cardinality(More(R, v, e.arg))
<1> DEFINE range == RangeAt(e.range, now)
           inside == PointsInRange(points, range)
           R == Hours(H, range)
           W == Hours(T, range)
           m == e.metric
           S == {i \in DOMAIN inside : ValueOf(inside[i], m) > e.arg}
<1>1. Listing(inside, W, R, m, v)
  BY RangeListing
<1>2. Filtered(e, points, now) = Chosen(inside, S)
  BY DEF Filtered
<1> HIDE DEF inside, R, W, m, range
<1>3. \A i \in DOMAIN inside : Has(inside[i], m) <=> inside[i].time \in R
  BY <1>1 DEF Listing, Has
<1>4. W = {inside[i].time : i \in DOMAIN inside} /\ R \subseteq W
  BY <1>1 DEF Listing
<1>5. (\E p \in Range(inside) : ~Has(p, m)) <=> W # R
  <2>1. (\E p \in Range(inside) : ~Has(p, m)) <=> \E i \in DOMAIN inside : ~Has(inside[i], m)
    BY DEF Range
  <2> QED
    BY <1>3, <1>4, <2>1
<1>6. ASSUME W = R PROVE Len(Chosen(inside, S)) = Cardinality(More(R, v, e.arg))
  <2> DEFINE f == [k \in DOMAIN inside |-> inside[k].time]
  <2>1. Counts(f, R) /\ Cardinality(R) = Len(inside)
    BY <1>1, <1>6, ListingCounts
  <2>2. DOMAIN inside = 1 .. Cardinality(R)
    BY <1>1, <2>1 DEF Listing, List
  <2>3. \A i \in DOMAIN inside : ValueOf(inside[i], m) = v[inside[i].time]
    <3>1. \A i \in DOMAIN inside : inside[i].values[m] = {v[inside[i].time]}
      BY <1>1, <1>4, <1>6 DEF Listing
    <3> QED
      BY <3>1 DEF ValueOf
  <2>4. More(R, v, e.arg) = {f[i] : i \in S}
    BY <1>4, <1>6, <2>3 DEF More
  <2>5. S \in SUBSET (1 .. Cardinality(R)) /\ S \in SUBSET DOMAIN inside
    BY <2>2
  <2> HIDE DEF f, S
  <2>6. Cardinality({f[i] : i \in S}) = Cardinality(S)
    BY <2>1, <2>5, CountsImage
  <2>7. Len(Chosen(inside, S)) = Cardinality(S)
    BY <1>1, <2>5, ListingSome
  <2> QED
    BY <2>4, <2>6, <2>7
<1> QED
  BY <1>2, <1>5, <1>6 DEF inside, R, W, m, range

\* The first point is that of the least hour.
LEMMA FirstIs ==
  ASSUME NEW points, NEW T, NEW H, NEW m, NEW v, Listing(points, T, H, m, v), T # {}
  PROVE  /\ Has(points[1], m) <=> Min(T) \in H
         /\ Has(points[1], m) => ValueOf(points[1], m) = v[Min(T)]
<1> DEFINE f == [k \in DOMAIN points |-> points[k].time]
<1>1. Counts(f, T) /\ Cardinality(T) = Len(points)
  BY ListingCounts
<1>2. Min(T) = f[1] /\ Cardinality(T) \in Nat \ {0}
  <2> HIDE DEF f
  <2> QED
    BY <1>1, CountsEnds
<1>3. 1 \in DOMAIN points
  BY <1>1, <1>2 DEF Listing, List
<1>4. Min(T) = points[1].time
  BY <1>2, <1>3
<1> QED
  BY <1>3, <1>4 DEF Listing, Has, ValueOf

-----------------------------------------------------------------------------
(* The hours of a range.                                                   *)

\* Whole numbers divided.
LEMMA Quotient ==
  ASSUME NEW a \in Int, NEW d \in Nat \ {0}
  PROVE  a \div d \in Int /\ d * (a \div d) <= a /\ a < d * (a \div d) + d
OBVIOUS

LEMMA QuotientGrows ==
  ASSUME NEW a \in Int, NEW b \in Int, NEW d \in Nat \ {0}, a <= b
  PROVE  a \div d <= b \div d
BY Quotient

LEMMA QuotientShifts ==
  ASSUME NEW a \in Int, NEW n \in Int, NEW d \in Nat \ {0}
  PROVE  (a + n * d) \div d = (a \div d) + n
BY Quotient

LEMMA ProductGrows ==
  ASSUME NEW a \in Int, NEW b \in Int, NEW d \in Nat, a <= b
  PROVE  a * d <= b * d
OBVIOUS

\* A quotient is known by the products next to it.
LEMMA QuotientIs ==
  ASSUME NEW a \in Int, NEW n \in Int, NEW d \in Nat \ {0}
  PROVE  a \div d = n <=> n * d <= a /\ a < n * d + d
<1> DEFINE q == a \div d
<1>1. q \in Int /\ d * q <= a /\ a < d * q + d
  BY Quotient
<1> HIDE DEF q
<1>2. d * q = q * d /\ q * d \in Int /\ n * d \in Int
  BY <1>1
<1>3. ASSUME n * d <= a, a < n * d + d PROVE q = n
  <2>1. CASE q < n
    <3>1. (q + 1) * d <= n * d /\ (q + 1) * d = q * d + d
      BY <1>1, <2>1, ProductGrows
    <3> QED
      BY <1>1, <1>2, <1>3, <3>1
  <2>2. CASE n < q
    <3>1. (n + 1) * d <= q * d /\ (n + 1) * d = n * d + d
      BY <1>1, <2>2, ProductGrows
    <3> QED
      BY <1>1, <1>2, <1>3, <3>1
  <2> QED
    BY <1>1, <2>1, <2>2
<1>4. q = n => n * d <= a /\ a < n * d + d
  BY <1>1, <1>2
<1> QED
  BY <1>3, <1>4 DEF q

LEMMA TheDay ==
  /\ Day \in Nat \ {0} /\ Hour = 2 /\ DayHours \in Nat \ {0} /\ Day = DayHours * 2
  /\ Week \in Nat \ {0, 1} /\ Offset \in Nat /\ Offset % 2 = 0
BY ExpressionAssumption DEF Day, Hour

LEMMA LocalDayIs ==
  ASSUME NEW t \in Int
  PROVE  /\ LocalDay(t) \in Int
         /\ \A d \in Int : LocalDay(t) = d <=> d * Day <= t + Offset /\ t + Offset < d * Day + Day
<1>1. t + Offset \in Int /\ Day \in Nat \ {0}
  BY TheDay
<1> HIDE DEF Day
<1>2. (t + Offset) \div Day \in Int
  BY <1>1, Quotient
<1> QED
  BY <1>1, <1>2, QuotientIs DEF LocalDay

\* From one midnight to the next: what is in some days.
LEMMA DaysAre ==
  ASSUME NEW t \in Int, NEW from \in Int, NEW to \in Int
  PROVE  InRange(t, DaysOf(from, to)) <=> from <= LocalDay(t) /\ LocalDay(t) <= to
<1> DEFINE d == LocalDay(t)
<1>1. d \in Int /\ d * Day <= t + Offset /\ t + Offset < d * Day + Day
  BY LocalDayIs
<1>2. Day \in Nat \ {0} /\ Offset \in Nat
  BY TheDay
<1> HIDE DEF d, Day
<1>3. /\ from * Day \in Int /\ to * Day \in Int /\ d * Day \in Int
      /\ (to + 1) * Day = to * Day + Day
  BY <1>1, <1>2
<1>4. InRange(t, DaysOf(from, to)) <=> from * Day <= t + Offset /\ t + Offset < to * Day + Day
  BY <1>2, <1>3 DEF InRange, DaysOf, Midnight
<1>5. from <= d => from * Day <= d * Day
  BY <1>1, <1>2, ProductGrows
<1>6. d < from => d * Day + Day <= from * Day
  <2>1. ASSUME d < from PROVE (d + 1) * Day <= from * Day
    BY <1>1, <1>2, <2>1, ProductGrows
  <2>2. (d + 1) * Day = d * Day + Day
    BY <1>1, <1>2
  <2> QED
    BY <2>1, <2>2
<1>7. d <= to => d * Day <= to * Day
  BY <1>1, <1>2, ProductGrows
<1>8. to < d => to * Day + Day <= d * Day
  <2>1. ASSUME to < d PROVE (to + 1) * Day <= d * Day
    BY <1>1, <1>2, <2>1, ProductGrows
  <2> QED
    BY <1>3, <2>1
<1> QED
  BY <1>1, <1>2, <1>3, <1>4, <1>5, <1>6, <1>7, <1>8 DEF d

LEMMA Remainder ==
  ASSUME NEW a \in Int, NEW d \in Nat \ {0}
  PROVE  /\ a \div d \in Int /\ a % d \in 0 .. d - 1
         /\ (a \div d) * d \in Int /\ a = (a \div d) * d + (a % d)
<1>1. \A x, y \in Int : x * y \in Int /\ x * y = y * x
  OBVIOUS
<1>2. a \div d \in Int /\ a % d \in 0 .. d - 1 /\ a = d * (a \div d) + (a % d)
  OBVIOUS
<1> QED
  BY <1>1, <1>2

\* The weekend of a day: the last two of its week.
LEMMA WeekendIs ==
  ASSUME NEW d \in Int, NEW n \in Int
  PROVE  /\ Saturday(d) \in Int
         /\ Saturday(d) <= n /\ n <= Saturday(d) + 1
              <=> IsWeekend(n) /\ n \div Week = d \div Week
<1> DEFINE k == d \div Week
           q == n \div Week
           w == d % Week
           v == n % Week
<1>1. Week \in Nat \ {0, 1}
  BY TheDay
<1>2. /\ k \in Int /\ w \in 0 .. Week - 1 /\ k * Week \in Int /\ d = k * Week + w
      /\ q \in Int /\ v \in 0 .. Week - 1 /\ q * Week \in Int /\ n = q * Week + v
  BY <1>1, Remainder
<1>3. Saturday(d) = IF w = Week - 1 THEN d - 1 ELSE d + (Week - 2 - w)
  BY DEF Saturday
<1>4. IsWeekend(n) <=> v \in {Week - 2, Week - 1}
  BY DEF IsWeekend
<1> HIDE DEF k, q, w, v
<1>5. Saturday(d) = k * Week + (Week - 2)
  BY <1>1, <1>2, <1>3
<1>6. CASE q = k
  BY <1>1, <1>2, <1>4, <1>5, <1>6 DEF k, q
<1>7. CASE q < k
  <2>1. (q + 1) * Week <= k * Week /\ (q + 1) * Week = q * Week + Week
    BY <1>1, <1>2, <1>7, ProductGrows
  <2>2. n < k * Week
    BY <1>1, <1>2, <2>1
  <2> QED
    BY <1>1, <1>2, <1>5, <1>7, <2>2 DEF k, q
<1>8. CASE k < q
  <2>1. (k + 1) * Week <= q * Week /\ (k + 1) * Week = k * Week + Week
    BY <1>1, <1>2, <1>8, ProductGrows
  <2>2. k * Week + Week <= n
    BY <1>1, <1>2, <2>1
  <2> QED
    BY <1>1, <1>2, <1>5, <1>8, <2>2 DEF k, q
<1> QED
  BY <1>2, <1>6, <1>7, <1>8

\* A between of whole hours of a day.
LEMMA BetweenIs ==
  ASSUME NEW t \in Int, NEW d \in Int, NEW from \in 0 .. DayHours - 1,
         NEW to \in 0 .. DayHours - 1
  PROVE  InRange(t, Between(DaysOf(d, d), from, to)) <=>
           /\ LocalDay(t) = d
           /\ from * Hour <= TimeOfDay(t) /\ TimeOfDay(t) <= to * Hour
<1> DEFINE start == d * Day - Offset
           n == LocalDay(t)
<1>1. /\ Day \in Nat \ {0} /\ Hour = 2 /\ DayHours \in Nat \ {0} /\ Day = DayHours * 2
      /\ Offset \in Nat /\ Offset % 2 = 0
  BY TheDay
<1>2. start \in Int /\ start % 2 = 0
  <2>1. PICK o \in Int : Offset = 2 * o
    BY <1>1
  <2>2. d * DayHours \in Int /\ d * Day = 2 * (d * DayHours)
    BY <1>1
  <2>3. PICK x \in Int : x = d * DayHours - o
    BY <2>1, <2>2
  <2>4. start = 2 * x
    BY <2>1, <2>2, <2>3
  <2> QED
    BY <2>3, <2>4
<1> HIDE DEF Day
<1>3. d * Day \in Int
  BY <1>1
<1>4. LocalDay(start) = d
  BY <1>1, <1>2, <1>3, LocalDayIs
<1>5. DaysOf(d, d).start = start
  BY DEF DaysOf, Midnight
<1>6. Between(DaysOf(d, d), from, to) = [start |-> start + from * 2, end |-> start + to * 2]
  <2>1. Between(DaysOf(d, d), from, to) =
          [start |-> Midnight(d) + from * 2 + 0, end |-> Midnight(d) + to * 2 + 0]
    BY <1>1, <1>2, <1>4, <1>5 DEF Between
  <2>2. Midnight(d) = start
    BY DEF Midnight
  <2> HIDE DEF start
  <2> QED
    BY <1>2, <2>1, <2>2
<1>7. InRange(t, Between(DaysOf(d, d), from, to)) <=>
        d * Day + from * 2 <= t + Offset /\ t + Offset <= d * Day + to * 2
  BY <1>1, <1>3, <1>6 DEF InRange
<1>8. n \in Int /\ n * Day \in Int /\ TimeOfDay(t) = t + Offset - n * Day
  <2>1. PICK x \in Int : x = t + Offset
    BY <1>1
  <2> DEFINE q == x \div Day
             r == x % Day
  <2>2. n = q /\ TimeOfDay(t) = r
    BY <2>1 DEF LocalDay, TimeOfDay
  <2>3. q \in Int /\ q * Day \in Int /\ r \in Int /\ x = q * Day + r
    <3>1. x % Day \in 0 .. Day - 1 /\ x = (x \div Day) * Day + (x % Day)
      BY <1>1, <2>1, Remainder
    <3>2. x \div Day \in Int /\ (x \div Day) * Day \in Int
      BY <1>1, <2>1, Remainder
    <3> HIDE DEF q, r
    <3>3. r \in Int
      <4>1. r \in 0 .. Day - 1 /\ Day \in Int
        BY <1>1, <3>1 DEF r
      <4> QED
        BY <4>1
    <3> QED
      BY <3>1, <3>2, <3>3 DEF q, r
  <2> HIDE DEF n, q, r
  <2> QED
    BY <1>1, <2>1, <2>2, <2>3
<1>9. LocalDay(t) = d <=> d * Day <= t + Offset /\ t + Offset < d * Day + Day
  BY LocalDayIs
<1> QED
  BY <1>1, <1>3, <1>7, <1>8, <1>9

\* The limits the code computes for a time range hold the times between them that the
\* registry's words are about: whatever the time zone and the hour, on any day of a week.
THEOREM RangeMeans ==
  ASSUME NEW r, IsTimeRange(r), RangeReadable(r), Constrains(r), NEW now \in Int, NEW t \in Int
  PROVE  InRange(t, RangeAt(r, now)) <=> Covers(r, now, t)
<1> DEFINE d == LocalDay(now)
<1>1. d \in Int /\ LocalDay(t) \in Int
  BY LocalDayIs
<1>2. ASSUME NEW b, b.kind \in BaseKinds
      PROVE  InRange(t, BaseRange(b, now)) <=> CoversBase(b, now, t)
  <2>1. CASE b.kind = "now"
    BY <2>1 DEF BaseRange, CoversBase, InRange
  <2>2. CASE b.kind = "today"
    <3>1. InRange(t, DaysOf(d, d)) <=> LocalDay(t) = d
      BY <1>1, DaysAre
    <3> QED
      BY <2>2, <3>1 DEF BaseRange, CoversBase
  <2>3. CASE b.kind = "tomorrow"
    <3>1. InRange(t, DaysOf(d + 1, d + 1)) <=> LocalDay(t) = d + 1
      BY <1>1, DaysAre
    <3> QED
      BY <2>3, <3>1 DEF BaseRange, CoversBase
  <2>4. CASE b.kind = "weekend"
    <3>1. PICK sat \in Int : sat = Saturday(d)
      BY <1>1, WeekendIs
    <3>2. InRange(t, DaysOf(sat, sat + 1)) <=> sat <= LocalDay(t) /\ LocalDay(t) <= sat + 1
      BY <3>1, DaysAre
    <3>3. InRange(t, DaysOf(sat, sat + 1)) <=>
            IsWeekend(LocalDay(t)) /\ LocalDay(t) \div Week = d \div Week
      BY <1>1, <3>1, <3>2, WeekendIs
    <3>4. BaseRange(b, now) = DaysOf(sat, sat + 1)
      BY <2>4, <3>1 DEF BaseRange
    <3> QED
      BY <2>4, <3>3, <3>4 DEF CoversBase
  <2>5. CASE b.kind = "next_hours"
    BY <2>5 DEF BaseRange, CoversBase, InRange
  <2>6. CASE b.kind = "date_range"
    BY <2>6 DEF BaseRange, CoversBase, InRange
  <2> QED
    BY <1>2, <2>1, <2>2, <2>3, <2>4, <2>5, <2>6 DEF BaseKinds
<1>3. CASE r.kind # "between"
  BY <1>2, <1>3 DEF IsTimeRange, RangeAt, Covers
<1>4. CASE r.kind = "between"
  <2> DEFINE Inner(n) == /\ LocalDay(t) = n
                         /\ r.from * Hour <= TimeOfDay(t) /\ TimeOfDay(t) <= r.to * Hour
  <2>1. r.from \in 0 .. DayHours - 1 /\ r.to \in 0 .. DayHours - 1
    BY <1>4 DEF RangeReadable
  <2>2. \A n \in Int : InRange(t, Between(DaysOf(n, n), r.from, r.to)) <=> Inner(n)
    BY <2>1, BetweenIs
  <2>3. RangeAt(r, now) = Between(BaseRange(r.of, now), r.from, r.to)
    BY <1>4 DEF RangeAt
  <2>4. CASE r.of.kind = "today"
    <3>1. BaseRange(r.of, now) = DaysOf(d, d)
      BY <2>4 DEF BaseRange
    <3>2. Covers(r, now, t) <=> Inner(d)
      BY <1>4, <2>4 DEF Covers, CoversBase
    <3> QED
      BY <1>1, <2>2, <2>3, <3>1, <3>2
  <2>5. CASE r.of.kind = "tomorrow"
    <3>1. BaseRange(r.of, now) = DaysOf(d + 1, d + 1)
      BY <2>5 DEF BaseRange
    <3>2. Covers(r, now, t) <=> Inner(d + 1)
      BY <1>4, <2>5 DEF Covers, CoversBase
    <3> QED
      BY <1>1, <2>2, <2>3, <3>1, <3>2
  <2> QED
    BY <1>4, <2>4, <2>5 DEF Constrains
<1> QED
  BY <1>3, <1>4

-----------------------------------------------------------------------------
(* The verdict.                                                            *)

\* The verdict on a list of points is what the expression means of the hours they
\* stand for; it is an error where the expression means nothing.
THEOREM EvaluateMeans ==
  ASSUME NEW e, Accepts(e), e.op \in Ops \union {"none"}, e.limit \in Int,
         e.fn = "pctl" => e.arg \in Nat,
         NEW points, NEW T, NEW H, NEW v, Listing(points, T, H, e.metric, v), T # {},
         NEW previous, NEW T2, NEW H2, NEW u, Listing(previous, T2, H2, e.metric, u), NEW now
  PROVE  LET range == RangeAt(e.range, now)
             used == IF e.fn = "bare" THEN H ELSE Hours(H, range)
             old == Hours(H2, range)
             verdict == Evaluate(e, points, previous, now)
         IN  /\ verdict \in {"true", "false", "error"}
             /\ verdict = "error" <=> Meaningless(e, used, Hours(T, range), T, v, old)
             /\ verdict # "error" => (verdict = "true" <=> Means(e, used, T, v, old, u))
<1> DEFINE range == RangeAt(e.range, now)
           R == Hours(H, range)
           used == IF e.fn = "bare" THEN H ELSE R
           old == Hours(H2, range)
           raises == Raises(e, points, previous, now)
           holds == Compare(Value(e, points, previous, now), e.op, Limit(e))
           nothing == Meaningless(e, used, Hours(T, range), T, v, old)
           means == Means(e, used, T, v, old, u)
           verdict == Evaluate(e, points, previous, now)
<1>1. verdict = IF raises \/ e.op = "none" THEN "error" ELSE IF holds THEN "true" ELSE "false"
  BY DEF Evaluate
<1>2. e.fn \in Registry /\ Trial(e)
  BY DEF Accepts
<1>4. ASSUME e.op # "none", raises <=> nothing, ~raises => (holds <=> means)
      PROVE  /\ verdict \in {"true", "false", "error"}
             /\ verdict = "error" <=> nothing
             /\ verdict # "error" => (verdict = "true" <=> means)
  <2> HIDE DEF verdict, nothing, means, holds, raises
  <2> QED
    BY <1>1, <1>4
<1>5. CASE e.op # "none" /\ e.fn \in Counted
  <2> DEFINE vals == MetricValues(points, e.metric, range)
             before == MetricValues(previous, e.metric, range)
  <2>1. Valued(vals, R, v) /\ Valued(before, old, u)
    BY ValuesListed
  <2>2. Values(e, points, now) = vals /\ Values(e, previous, now) = before
    BY <1>5 DEF Values, Counted
  <2>3. e.op \in Ops /\ used = R
    BY <1>5 DEF Counted
  <2> HIDE DEF vals, before, R, old, range
  <2>4. raises <=> Fails(e, vals, before)
    BY <1>5, <2>2 DEF Raises, Counted
  <2>5. raises <=> nothing
    BY <1>2, <1>5, <2>1, <2>3, <2>4, FailsMeans DEF Ops
  <2>6. ASSUME ~raises PROVE holds <=> means
    <3>1. R # {}
      <4>1. vals # <<>>
        BY <2>4, <2>6 DEF Fails
      <4> QED
        BY <2>1, <4>1, ValuedFacts
    <3>2. Value(e, points, previous, now) = Worth(e, vals, before)
      BY <1>5, <2>2 DEF Value, Worth, Counted, Registry
    <3>3. Compare(Worth(e, vals, before), e.op, Limit(e)) <=> Means(e, R, T, v, old, u)
      BY <1>2, <1>5, <2>1, <2>3, <3>1, WorthMeans
    <3> QED
      BY <2>3, <3>2, <3>3
  <2> HIDE DEF raises, holds, means, nothing
  <2> QED
    BY <1>4, <1>5, <2>5, <2>6 DEF R, old, range, nothing, means
<1>6. CASE e.op # "none" /\ e.fn = "duration"
  <2>1. raises <=> Hours(T, range) # R
    BY <1>6, DurationIs DEF Raises
  <2>2. nothing <=> Hours(T, range) # R
    BY <1>6 DEF Meaningless
  <2>3. ASSUME ~raises PROVE holds <=> means
    <3>1. Value(e, points, previous, now) = Whole(60 * Len(Filtered(e, points, now)))
      BY <1>6 DEF Value
    <3>2. Len(Filtered(e, points, now)) = Cardinality(More(R, v, e.arg))
      BY <2>1, <2>3, DurationIs
    <3>3. means <=> Compare(Whole(60 * Cardinality(More(R, v, e.arg))), e.op, e.limit)
      BY <1>6 DEF Means, More
    <3> QED
      BY <1>6, <3>1, <3>2, <3>3 DEF Limit
  <2>4. raises <=> nothing
    BY <2>1, <2>2
  <2> HIDE DEF raises, holds, means, nothing
  <2> QED
    BY <1>4, <1>6, <2>3, <2>4 DEF nothing, means
<1>7. CASE e.op # "none" /\ e.fn = "bare"
  <2>1. nothing <=> e.metric \in TextMetrics \/ Min(T) \notin H
    BY <1>7 DEF Meaningless
  <2>2. Values(e, points, now) = IF Min(T) \in H THEN <<v[Min(T)]>> ELSE <<>>
    BY <1>7, FirstIs DEF Values
  <2>3. raises <=> e.metric \in TextMetrics \/ Min(T) \notin H
    <3>1. raises <=> e.metric \in TextMetrics \/ Fails(e, Values(e, points, now), Values(e, previous, now))
      BY <1>7 DEF Raises
    <3>2. Fails(e, Values(e, points, now), Values(e, previous, now)) <=> Values(e, points, now) = <<>>
      BY <1>7 DEF Fails
    <3> QED
      BY <2>2, <3>1, <3>2
  <2>4. ASSUME ~raises PROVE holds <=> means
    <3>1. Value(e, points, previous, now) = Whole(v[Min(T)])
      BY <1>7, <2>2, <2>3, <2>4 DEF Value
    <3> QED
      BY <1>7, <3>1 DEF Means, Limit
  <2>5. raises <=> nothing
    BY <2>1, <2>3
  <2> HIDE DEF raises, holds, means, nothing
  <2> QED
    BY <1>4, <1>7, <2>4, <2>5 DEF nothing, means
<1>8. e.fn \in Counted \/ e.fn = "duration" \/ e.fn = "bare"
  BY <1>2 DEF Counted
<1> HIDE DEF verdict, nothing, means
<1>9. /\ verdict \in {"true", "false", "error"}
      /\ verdict = "error" <=> nothing
      /\ verdict # "error" => (verdict = "true" <=> means)
  <2>1. e.op = "none" => verdict = "error" /\ nothing
    BY <1>1 DEF nothing, Meaningless
  <2>2. CASE e.op = "none"
    BY <2>1, <2>2
  <2> QED
    BY <1>5, <1>6, <1>7, <1>8, <2>2 DEF verdict, nothing, means
<1> QED
  BY <1>9 DEF verdict, nothing, means
=============================================================================
