--------------------------- MODULE Search_proofs ----------------------------
(***************************************************************************)
(* Proofs about Search: whatever others write while a search runs, it      *)
(* misses no concept but those it may miss, and what it returns is ranked, *)
(* fits, and was made by this server's model.                              *)
(***************************************************************************)
EXTENDS Search, FiniteSetTheorems, TLAPS

-----------------------------------------------------------------------------
(* The inductive invariant                                                 *)

Bounded ==
  /\ IsFiniteSet(seen) /\ Fitting(rows) \subseteq seen /\ found \subseteq seen
  /\ \A g, h \in found : g.id = h.id => g = h
  /\ pc \in {"scan", "recount", "exact", "meta"} => fetch >= Least(Wanted + 1, MaxFetch)
  /\ pc \in {"recount", "exact"} => backend = "postgres"
  /\ pc # "done" => results = <<>>

(* What fits and was there when vectors were counted can be compared.      *)
Counted ==
  pc \notin {"count", "failed"} =>
    \A i \in Ids \ touched : Fits(rows, i) => ~rows[i].foreign

(* A hit of a concept nobody wrote is what the store holds.                *)
Current ==
  \A h \in found : h.id \notin touched => Fits(rows, h.id) /\ h = HitOf(rows, h.id)

(* The hit was found, or need not be.                                      *)
Covered(h) == h \in found \/ Ahead(h) >= Wanted \/ Capped(h) \/ Lost

(* When the search stops scanning, no concept nobody wrote is left out.    *)
Whole == pc = "meta" => \A h \in Fitting(rows) : h.id \notin touched => Covered(h)

SearchInv ==
  TypeOK /\ Bounded /\ Counted /\ Current /\ Whole /\ NearestFound /\ ResultsComparable

-----------------------------------------------------------------------------
(* Ranking                                                                 *)

(* The hits of one scan: finitely many, each of a concept of its own.      *)
Distinct(hits) ==
  /\ hits \subseteq Hit /\ IsFiniteSet(hits)
  /\ \A g, h \in hits : g.id = h.id => g = h

LEMMA SubsetDistinct ==
  ASSUME NEW hits, Distinct(hits), NEW part \in SUBSET hits
  PROVE  Distinct(part)
BY FS_Subset DEF Distinct

(* Nearer orders hits of different concepts.                               *)
LEMMA NearerOrders ==
  ASSUME NEW hits, Distinct(hits)
  PROVE  /\ \A a \in hits : ~Nearer(a, a)
         /\ \A a, b \in hits : a = b \/ Nearer(a, b) \/ Nearer(b, a)
         /\ \A a, b, c \in hits : Nearer(a, b) /\ Nearer(b, c) => Nearer(a, c)
<1>1. \A a \in hits : a.far \in Nat /\ a.id \in Nat
  BY SearchAssumption DEF Distinct, Hit
<1> QED BY <1>1 DEF Nearer, Distinct

(* Every rank is taken, and once.                                          *)
LEMMA RankTaken ==
  ASSUME NEW hits, Distinct(hits)
  PROVE  /\ Cardinality(hits) \in Nat
         /\ \A a \in hits : Before(hits, a) \in 0 .. Cardinality(hits) - 1
         /\ \A a, b \in hits : Before(hits, a) = Before(hits, b) => a = b
         /\ \A n \in 1 .. Cardinality(hits) : \E a \in hits : Before(hits, a) = n - 1
         /\ \A a, b \in hits : Nearer(a, b) => Before(hits, a) < Before(hits, b)
<1> DEFINE first == [x \in hits |-> {y \in hits : Nearer(y, x)}]
           rank == [x \in hits |-> Cardinality(first[x])]
           N == Cardinality(hits)
           places == 0 .. N - 1
<1>1. N \in Nat /\ IsFiniteSet(hits)
  BY FS_CardinalityType DEF Distinct
<1>2. ASSUME NEW x \in hits
      PROVE  IsFiniteSet(first[x]) /\ rank[x] \in places
  <2>1. first[x] \in SUBSET hits /\ first[x] # hits
    BY NearerOrders
  <2>2. IsFiniteSet(first[x]) /\ Cardinality(first[x]) <= N /\ Cardinality(first[x]) # N
    <3> HIDE DEF first
    <3> QED BY <1>1, <2>1, FS_Subset
  <2>3. Cardinality(first[x]) \in Nat
    <3> HIDE DEF first
    <3> QED BY <2>2, FS_CardinalityType
  <2> HIDE DEF first, N
  <2> QED BY <1>1, <2>2, <2>3
<1>3. ASSUME NEW x \in hits, NEW y \in hits, Nearer(x, y)
      PROVE  rank[x] < rank[y]
  <2>1. first[x] \in SUBSET first[y] /\ x \in first[y] /\ x \notin first[x]
    BY <1>3, NearerOrders
  <2>2. IsFiniteSet(first[y])
    BY <1>2
  <2>3. Cardinality(first[x]) <= Cardinality(first[y]) /\ Cardinality(first[x]) # Cardinality(first[y])
    <3> HIDE DEF first
    <3> QED BY <2>1, <2>2, FS_Subset
  <2>4. rank[x] \in places /\ rank[y] \in places
    BY <1>2
  <2> HIDE DEF first, N
  <2>5. rank[x] \in Int /\ rank[y] \in Int
    BY <1>1, <2>4
  <2> QED BY <2>3, <2>5
<1>4. \A x, y \in hits : rank[x] = rank[y] => x = y
  <2>1. \A x \in hits : rank[x] \in Int
    <3> HIDE DEF N, first, rank
    <3> QED BY <1>1, <1>2
  <2> SUFFICES ASSUME NEW x \in hits, NEW y \in hits, rank[x] = rank[y] PROVE x = y
    OBVIOUS
  <2>2. rank[x] \in Int /\ ~(rank[x] < rank[y]) /\ ~(rank[y] < rank[x])
    <3> HIDE DEF rank
    <3> QED BY <2>1
  <2>3. ~Nearer(x, y) /\ ~Nearer(y, x)
    <3> HIDE DEF rank
    <3> QED BY <1>3, <2>2
  <2> QED BY <2>3, NearerOrders
<1>5. rank \in [hits -> places]
  BY <1>2
<1>6. rank \in Injection(hits, places)
  <2> HIDE DEF rank
  <2> QED BY <1>4, <1>5 DEF Injection, IsInjective
<1>7. IsFiniteSet(places) /\ Cardinality(places) = N
  <2>1. /\ IsFiniteSet(0 .. N - 1)
        /\ Cardinality(0 .. N - 1) = IF 0 > N - 1 THEN 0 ELSE N - 1 - 0 + 1
    <3> HIDE DEF N
    <3> QED BY <1>1, FS_Interval
  <2> HIDE DEF N
  <2> QED BY <1>1, <2>1
<1>8. rank \in Surjection(hits, places)
  <2> HIDE DEF rank, places
  <2> QED BY <1>6, <1>7, FS_Injection
<1>9. \A n \in 1 .. N : \E x \in hits : rank[x] = n - 1
  <2>1. \A n \in 1 .. N : n - 1 \in places
    <3> HIDE DEF N
    <3> QED BY <1>1
  <2> HIDE DEF rank, places, N
  <2> QED BY <1>8, <2>1 DEF Surjection
<1>10. \A x \in hits : Before(hits, x) = rank[x]
  BY DEF Before
<1>11. \A x, y \in hits : Nearer(x, y) => rank[x] < rank[y]
  BY <1>3
<1>12. \A x \in hits : rank[x] \in places
  BY <1>2
<1> HIDE DEF rank
<1> QED BY <1>1, <1>4, <1>9, <1>10, <1>11, <1>12

(* Ranked lists every hit once, nearest first.                             *)
LEMMA RankedLists ==
  ASSUME NEW hits, Distinct(hits)
  PROVE  /\ Ranked(hits) \in [1 .. Cardinality(hits) -> hits]
         /\ \A n \in 1 .. Cardinality(hits) : Before(hits, Ranked(hits)[n]) = n - 1
         /\ \A h \in hits : \E n \in 1 .. Cardinality(hits) : Ranked(hits)[n] = h
         /\ \A m, n \in 1 .. Cardinality(hits) : m < n => Nearer(Ranked(hits)[m], Ranked(hits)[n])
<1> DEFINE N == Cardinality(hits)
<1>1. N \in Nat
  BY RankTaken
<1>2. ASSUME NEW n \in 1 .. N
      PROVE  Ranked(hits)[n] \in hits /\ Before(hits, Ranked(hits)[n]) = n - 1
  <2>1. \E h \in hits : Before(hits, h) = n - 1
    BY RankTaken
  <2>2. Ranked(hits)[n] = CHOOSE h \in hits : Before(hits, h) = n - 1
    BY DEF Ranked
  <2> QED BY <2>1, <2>2
<1>3. Ranked(hits) \in [1 .. N -> hits]
  BY <1>2 DEF Ranked
<1>4. ASSUME NEW h \in hits
      PROVE  \E n \in 1 .. N : Ranked(hits)[n] = h
  <2>1. PICK n \in 1 .. N : n - 1 = Before(hits, h)
    <3> DEFINE k == Before(hits, h) + 1
    <3>1. Before(hits, h) \in 0 .. N - 1
      BY RankTaken
    <3> HIDE DEF N
    <3>2. k \in 1 .. N /\ k - 1 = Before(hits, h)
      BY <1>1, <3>1
    <3> HIDE DEF k
    <3> QED BY <3>2
  <2>2. Ranked(hits)[n] \in hits /\ Before(hits, Ranked(hits)[n]) = Before(hits, h)
    BY <1>2, <2>1
  <2>3. Ranked(hits)[n] = h
    BY <2>2, RankTaken
  <2> QED BY <2>3
<1>5. ASSUME NEW m \in 1 .. N, NEW n \in 1 .. N, m < n
      PROVE  Nearer(Ranked(hits)[m], Ranked(hits)[n])
  <2> DEFINE a == Ranked(hits)[m]
             b == Ranked(hits)[n]
  <2>1. a \in hits /\ b \in hits /\ Before(hits, a) = m - 1 /\ Before(hits, b) = n - 1
    BY <1>2
  <2> HIDE DEF a, b, N
  <2>2. a # b /\ ~(Before(hits, b) < Before(hits, a))
    BY <1>1, <1>5, <2>1
  <2>3. ~Nearer(b, a)
    BY <2>1, <2>2, RankTaken
  <2>4. Nearer(a, b)
    BY <2>1, <2>2, <2>3, NearerOrders
  <2> QED BY <2>4 DEF a, b
<1> QED BY <1>2, <1>3, <1>4, <1>5

-----------------------------------------------------------------------------
(* What a scan may leave out                                               *)

LEMMA FittingDistinct ==
  ASSUME TypeOK, Bounded
  PROVE  Distinct(Fitting(rows))
<1>1. IsFiniteSet(Fitting(rows))
  BY FS_Subset DEF Bounded
<1> QED BY <1>1 DEF Bounded, TypeOK, Distinct, Fitting, HitOf

(* The ids of the hits seen that come before h.                            *)
IdsAhead(h) == {s.id : s \in {t \in seen : Nearer(t, h)}}

LEMMA AheadFinite ==
  ASSUME IsFiniteSet(seen), NEW h
  PROVE  IsFiniteSet(IdsAhead(h)) /\ Ahead(h) = Cardinality(IdsAhead(h)) /\ Ahead(h) \in Nat
<1> DEFINE near == {t \in seen : Nearer(t, h)}
           idOf == [s \in near |-> s.id]
<1>1. IsFiniteSet(near)
  BY FS_Subset
<1>2. idOf \in Surjection(near, IdsAhead(h))
  BY DEF Surjection, IdsAhead
<1>3. IsFiniteSet(IdsAhead(h))
  <2> HIDE DEF idOf, near
  <2> QED BY <1>1, <1>2, FS_Surjection
<1>4. Ahead(h) = Cardinality(IdsAhead(h))
  BY DEF Ahead, IdsAhead
<1> QED BY <1>3, <1>4, FS_CardinalityType

(* So many are ahead of h as there are in any set of hits nearer than it.  *)
LEMMA AheadOf ==
  ASSUME IsFiniteSet(seen), NEW h, NEW X \in SUBSET seen, Distinct(X), \A g \in X : Nearer(g, h)
  PROVE  Cardinality(X) <= Ahead(h)
<1> DEFINE idOf == [g \in X |-> g.id]
<1>1. idOf \in Injection(X, IdsAhead(h))
  BY DEF Injection, IsInjective, IdsAhead, Distinct
<1> HIDE DEF idOf
<1> QED BY <1>1, AheadFinite, FS_Injection

LEMMA AheadGrows ==
  ASSUME IsFiniteSet(seen), IsFiniteSet(seen'), seen \subseteq seen', NEW h, Ahead(h) >= Wanted
  PROVE  Ahead(h)' >= Wanted
<1> DEFINE later == {s.id : s \in {t \in seen' : Nearer(t, h)}}
           near == {t \in seen' : Nearer(t, h)}
           idOf == [s \in near |-> s.id]
<1>1. IsFiniteSet(near)
  BY FS_Subset
<1>2. idOf \in Surjection(near, later)
  BY DEF Surjection
<1>3. IsFiniteSet(later)
  <2> HIDE DEF idOf, near, later
  <2> QED BY <1>1, <1>2, FS_Surjection
<1>4. IdsAhead(h) \in SUBSET later
  BY DEF IdsAhead
<1>5. Ahead(h)' = Cardinality(later)
  BY DEF Ahead
<1> HIDE DEF later
<1>6. Cardinality(IdsAhead(h)) <= Cardinality(later) /\ Cardinality(later) \in Nat
  BY <1>3, <1>4, FS_Subset, FS_CardinalityType
<1> QED BY <1>5, <1>6, AheadFinite, SearchAssumption

(* The hits seen that are no farther than h.                               *)
Upto(h) == {s \in seen : s.far <= h.far}

LEMMA CappedBy ==
  ASSUME IsFiniteSet(seen), NEW h, NEW X \in SUBSET Upto(h), Cardinality(X) = MaxFetch, fetch = MaxFetch
  PROVE  Capped(h)
<1>1. IsFiniteSet(Upto(h))
  BY FS_Subset DEF Upto
<1>2. Cardinality(X) <= Cardinality(Upto(h)) /\ Cardinality(Upto(h)) \in Nat
  BY <1>1, FS_Subset, FS_CardinalityType
<1> QED BY <1>2, SearchAssumption DEF Capped, Upto

LEMMA CappedGrows ==
  ASSUME IsFiniteSet(seen), IsFiniteSet(seen'), seen \subseteq seen', fetch' = fetch, NEW h, Capped(h)
  PROVE  Capped(h)'
<1> DEFINE now == {s \in seen : s.far <= h.far}
           later == {s \in seen' : s.far <= h.far}
<1>1. now \in SUBSET later /\ IsFiniteSet(later)
  BY FS_Subset
<1>2. IsFiniteSet(now)
  BY FS_Subset
<1>3. fetch = MaxFetch /\ Cardinality(now) >= MaxFetch
  BY DEF Capped
<1>4. Cardinality(later) >= MaxFetch => Capped(h)'
  BY <1>3 DEF Capped
<1> HIDE DEF now, later
<1>5. Cardinality(now) <= Cardinality(later) /\ Cardinality(now) \in Nat /\ Cardinality(later) \in Nat
  BY <1>1, <1>2, FS_Subset, FS_CardinalityType
<1> QED BY <1>3, <1>4, <1>5, SearchAssumption

(* If the scan left h out, it was cut: as many rows as were asked for are  *)
(* no farther than h.                                                      *)
CutBefore(hits, h) ==
  \E cut \in SUBSET hits : Cardinality(cut) = fetch /\ \A a \in cut : a.far <= h.far

(* Unless it is repeated, a scan that left h out found k hits nearer than  *)
(* it, or could not have looked further.                                   *)
LEMMA CutCovers ==
  ASSUME TypeOK, Bounded, pc \in {"scan", "recount", "exact"},
         NEW hits \in SUBSET Fitting(rows), ~(fetch < MaxFetch /\ BoundaryTied(hits, fetch)),
         NEW h \in Fitting(rows), CutBefore(hits, h)
  PROVE  Ahead(h) >= Wanted \/ Capped(h)
<1>1. /\ Distinct(hits) /\ hits \subseteq seen /\ IsFiniteSet(seen) /\ IsFiniteSet(hits)
  BY FittingDistinct, SubsetDistinct DEF Bounded, Distinct
<1>2. /\ fetch \in Nat /\ fetch <= MaxFetch /\ fetch >= Least(Wanted + 1, MaxFetch)
      /\ Wanted \in Nat \ {0} /\ MaxFetch \in Nat
  BY SearchAssumption DEF TypeOK, Bounded
<1>3. PICK cut \in SUBSET hits : Cardinality(cut) = fetch /\ \A a \in cut : a.far <= h.far
  BY DEF CutBefore
<1>4. \A a \in hits \cup {h} : a.far \in Nat /\ a.id \in Nat
  BY SearchAssumption, FittingDistinct DEF Distinct, Hit
<1>5. CASE fetch = MaxFetch
  <2>1. cut \in SUBSET Upto(h)
    BY <1>1, <1>3 DEF Upto
  <2> QED BY <1>1, <1>3, <1>5, <2>1, CappedBy
<1>6. CASE fetch # MaxFetch
  <2>1. fetch < MaxFetch /\ fetch > Wanted
    BY <1>2, <1>6 DEF Least
  <2>2. Cardinality(hits) >= fetch /\ Cardinality(hits) \in Nat
    BY <1>1, <1>3, FS_Subset, FS_CardinalityType
  <2>3. Wanted \in 1 .. Cardinality(hits) /\ Cardinality(hits) >= Wanted
    BY <1>2, <2>1, <2>2
  <2> DEFINE kth == Ranked(hits)[Wanted]
             upto == {g \in hits : g.far <= kth.far}
             before == {g \in hits : Nearer(g, kth)}
  <2>4. kth \in hits /\ Cardinality(before) = Wanted - 1
    BY <1>1, <2>3, RankedLists DEF Before
  <2>5. ~(Cardinality(upto) >= fetch)
    BY <2>1, <2>3 DEF BoundaryTied
  <2>6. PICK a \in cut : ~(a.far <= kth.far)
    <3>1. SUFFICES ASSUME cut \in SUBSET upto PROVE FALSE
      BY <1>3
    <3>2. IsFiniteSet(upto)
      BY <1>1, FS_Subset
    <3> HIDE DEF upto
    <3>3. Cardinality(cut) <= Cardinality(upto) /\ Cardinality(upto) \in Nat
      BY <3>1, <3>2, FS_Subset, FS_CardinalityType
    <3> QED BY <1>2, <1>3, <2>5, <3>3
  <2>7. kth.far < h.far
    <3>1. a \in hits /\ a.far <= h.far
      BY <1>3, <2>6
    <3> HIDE DEF kth
    <3> QED BY <1>4, <2>4, <2>6, <3>1
  <2>8. \A g \in before \cup {kth} : Nearer(g, h)
    <3> HIDE DEF kth
    <3> QED BY <1>4, <2>4, <2>7 DEF Nearer
  <2>9. Cardinality(before \cup {kth}) = Wanted
    <3>1. IsFiniteSet(before) /\ kth \notin before
      BY <1>1, <2>4, FS_Subset, NearerOrders
    <3> HIDE DEF kth, before, upto
    <3>2. Cardinality(before \cup {kth}) = Cardinality(before) + 1
      BY <3>1, FS_AddElement
    <3> QED BY <1>2, <2>4, <3>2
  <2>10. Distinct(before \cup {kth}) /\ before \cup {kth} \in SUBSET seen
    <3>1. before \cup {kth} \in SUBSET hits
      BY <2>4
    <3> HIDE DEF before, kth
    <3> QED BY <1>1, <3>1, SubsetDistinct
  <2>11. Wanted <= Ahead(h)
    <3> HIDE DEF before, kth
    <3> QED BY <1>1, <2>8, <2>9, <2>10, AheadOf
  <2> QED BY <1>1, <1>2, <2>11, AheadFinite
<1> QED BY <1>5, <1>6

-----------------------------------------------------------------------------
(* The steps                                                               *)

LEMMA RowTyped ==
  ASSUME TypeOK, NEW i \in Ids, rows[i] # None
  PROVE  /\ rows[i] \in Row /\ rows[i].ns \in Namespaces /\ rows[i].far \in Distances
         /\ HitOf(rows, i) \in Hit /\ HitOf(rows, i).id = i
BY DEF TypeOK, Row, HitOf, Hit

LEMMA FitsHit ==
  ASSUME NEW i \in Ids, Fits(rows, i)
  PROVE  HitOf(rows, i) \in Fitting(rows)
BY DEF Fitting

LEMMA HitFits ==
  ASSUME NEW h \in Fitting(rows)
  PROVE  h.id \in Ids /\ Fits(rows, h.id) /\ h = HitOf(rows, h.id)
BY DEF Fitting, HitOf

LEMMA Initially == Init => SearchInv
<1> SUFFICES ASSUME Init PROVE SearchInv
  OBVIOUS
<1>1. TypeOK
  <2>1. Fitting(rows) \subseteq Hit
    BY DEF Init, Fitting, Fits, HitOf, Hit, Row
  <2> QED BY <2>1, SearchAssumption DEF Init, TypeOK
<1>2. IsFiniteSet(Fitting(rows))
  <2> DEFINE idOf == [h \in Fitting(rows) |-> h.id]
             stored == {i \in Ids : rows[i] # None}
  <2>1. idOf \in Injection(Fitting(rows), stored)
    BY DEF Injection, IsInjective, Fitting, HitOf, Fits
  <2>2. IsFiniteSet(stored)
    BY DEF Init
  <2> HIDE DEF idOf, stored
  <2> QED BY <2>1, <2>2, FS_Injection
<1>3. Bounded
  BY <1>2 DEF Init, Bounded
<1>4. NearestFound /\ ResultsComparable
  BY SearchAssumption DEF Init, NearestFound, ResultsComparable
<1> QED BY <1>1, <1>3, <1>4 DEF Init, SearchInv, Counted, Current, Whole

LEMMA PutKeeps ==
  ASSUME SearchInv, NEW i \in Ids, Save(i) \/ Delete(i)
  PROVE  SearchInv'
<1>1. PICK row \in Row \cup {None} : Put(i, row)
  BY DEF Save, Delete
<1> USE DEF SearchInv, search
<1>2. /\ rows' = [rows EXCEPT ![i] = row] /\ rows' \in [Ids -> Row \cup {None}]
      /\ \A j \in Ids \ {i} : rows'[j] = rows[j]
      /\ touched' = touched \cup {i} /\ seen' = seen \cup Fitting(rows')
      /\ UNCHANGED <<backend, pc, fetch, found, results>> /\ pc \notin {"done", "failed"}
  BY <1>1 DEF Put, TypeOK
<1>3. TypeOK'
  <2>1. Fitting(rows') \subseteq Hit
    BY <1>2 DEF Fitting, Fits, HitOf, Hit, Row
  <2>2. writes' \in 0 .. MaxWrites
    BY <1>1, SearchAssumption DEF TypeOK, Put
  <2> QED BY <1>2, <2>1, <2>2 DEF TypeOK
<1>4. IsFiniteSet(seen) /\ IsFiniteSet(seen') /\ seen \subseteq seen'
  <2>1. seen' \in SUBSET (seen \cup {HitOf(rows', i)})
    BY <1>2 DEF Bounded, Fitting, Fits, HitOf
  <2>2. IsFiniteSet(seen \cup {HitOf(rows', i)})
    BY FS_AddElement DEF Bounded
  <2> QED BY <1>2, <2>1, <2>2, FS_Subset DEF Bounded
<1>5. Bounded'
  BY <1>2, <1>4 DEF Bounded
<1>6. \A j \in Ids \ touched' :
        /\ j \in Ids \ touched /\ rows'[j] = rows[j]
        /\ Fits(rows', j) = Fits(rows, j) /\ HitOf(rows', j) = HitOf(rows, j)
  BY <1>2 DEF Fits, HitOf
<1>7. Counted'
  BY <1>2, <1>6 DEF Counted
<1>8. Current'
  <2>1. \A h \in found : h.id \in Ids
    BY DEF TypeOK, Hit
  <2> QED BY <1>2, <1>6, <2>1 DEF Current
<1>9. Whole'
  <2> SUFFICES ASSUME pc = "meta", NEW h \in Fitting(rows'), h.id \notin touched'
               PROVE  Covered(h)'
    BY <1>2 DEF Whole
  <2>1. h.id \in Ids /\ Fits(rows', h.id) /\ h = HitOf(rows', h.id)
    BY DEF Fitting, HitOf
  <2>2. h \in Fitting(rows) /\ h.id \notin touched
    BY <1>6, <2>1 DEF Fitting
  <2>3. Covered(h)
    BY <2>2 DEF Whole
  <2>4. h \in found => h \in found'
    BY <1>2
  <2>5. Lost => Lost'
    BY <1>2 DEF Lost
  <2>6. Ahead(h) >= Wanted => Ahead(h)' >= Wanted
    BY <1>4, AheadGrows
  <2>7. Capped(h) => Capped(h)'
    BY <1>2, <1>4, CappedGrows
  <2> QED BY <2>3, <2>4, <2>5, <2>6, <2>7 DEF Covered
<1>10. NearestFound' /\ ResultsComparable'
  BY <1>2, SearchAssumption DEF NearestFound, ResultsComparable, Bounded
<1> QED BY <1>3, <1>5, <1>7, <1>8, <1>9, <1>10

LEMMA CountKeeps ==
  ASSUME SearchInv, Count
  PROVE  SearchInv'
<1> USE DEF SearchInv, Count
<1>1. TypeOK'
  BY SearchAssumption DEF TypeOK, Least
<1>2. Bounded'
  BY SearchAssumption DEF Bounded, Least
<1>3. Counted'
  BY DEF Counted, Fits
<1>4. Current' /\ Whole'
  BY DEF Current, Whole, Fits, HitOf
<1>5. NearestFound' /\ ResultsComparable'
  BY SearchAssumption DEF NearestFound, ResultsComparable, Bounded
<1> QED BY <1>1, <1>2, <1>3, <1>4, <1>5

(* The search looks at hits that leave out only what may be left out.      *)
LEMMA LookKeeps ==
  ASSUME SearchInv, pc \in {"scan", "recount", "exact"}, NEW hits \in SUBSET seen, Look(hits),
         UNCHANGED <<backend, rows, seen, touched, writes>>,
         \A g, h \in hits : g.id = h.id => g = h,
         \A h \in hits : h.id \notin touched => h \in Fitting(rows),
         ~(fetch < MaxFetch /\ BoundaryTied(hits, fetch)) =>
           \A h \in Fitting(rows) : h.id \notin touched =>
             h \in hits \/ Ahead(h) >= Wanted \/ Capped(h) \/ Lost
  PROVE  SearchInv'
<1> USE DEF SearchInv
<1>1. /\ found' = hits /\ results' = results /\ pc' \in {"scan", "meta", "done"}
      /\ results = <<>>
  BY DEF Look, Bounded
<1>2. fetch' \in 0 .. MaxFetch /\ fetch' >= Least(Wanted + 1, MaxFetch)
  BY SearchAssumption DEF Look, Widened, Least, TypeOK, Bounded
<1>3. TypeOK' /\ Bounded'
  BY <1>1, <1>2 DEF TypeOK, Bounded
<1>4. Counted'
  BY <1>1 DEF Counted
<1>5. Current'
  BY <1>1, HitFits DEF Current
<1>6. ASSUME pc' # "scan", NEW h \in Fitting(rows), h.id \notin touched
      PROVE  Covered(h)'
  <2>1. fetch' = fetch /\ (h \in hits \/ Ahead(h) >= Wanted \/ Capped(h) \/ Lost)
    BY <1>6 DEF Look
  <2> QED BY <1>1, <2>1 DEF Covered, Ahead, Capped, Lost
<1>7. Whole'
  BY <1>1, <1>6 DEF Whole
<1>8. NearestFound'
  <2> SUFFICES ASSUME pc' = "done", NEW i \in Ids \ touched, Fits(rows, i),
                      NEW h, h = HitOf(rows, i)
               PROVE  Ahead(h)' >= Wanted \/ Capped(h)' \/ Lost'
    BY DEF NearestFound, Ahead, Capped, HitOf
  <2>1. hits = {}
    BY DEF Look
  <2>2. h \in Fitting(rows) /\ h.id \notin touched
    BY FitsHit DEF HitOf
  <2> QED BY <1>1, <1>6, <2>1, <2>2 DEF Covered
<1>9. ResultsComparable'
  BY <1>1, SearchAssumption DEF ResultsComparable
<1> QED BY <1>3, <1>4, <1>5, <1>7, <1>8, <1>9

(* The search looks at the hits of a scan.                                 *)
LEMMA ScanKeeps ==
  ASSUME SearchInv, pc \in {"scan", "exact"}, NEW hits \in SUBSET Fitting(rows), Look(hits),
         UNCHANGED <<backend, rows, seen, touched, writes>>,
         \A h \in Fitting(rows) \ hits : CutBefore(hits, h)
  PROVE  SearchInv'
<1>1. Distinct(Fitting(rows)) /\ Fitting(rows) \subseteq seen
  BY FittingDistinct DEF SearchInv, Bounded
<1>2. \A g, h \in hits : g.id = h.id => g = h
  BY <1>1 DEF Distinct
<1>3. ASSUME ~(fetch < MaxFetch /\ BoundaryTied(hits, fetch)), NEW h \in Fitting(rows)
      PROVE  h \in hits \/ Ahead(h) >= Wanted \/ Capped(h) \/ Lost
  BY <1>3, CutCovers DEF SearchInv
<1> QED BY <1>1, <1>2, <1>3, LookKeeps

(* A cut of n rows leaves none out that is nearer than one of its own.     *)
LEMMA NearestCut ==
  ASSUME IsFiniteSet(seen), NEW hits \in SUBSET seen, fetch \in Nat, NEW cut \in Nearest(hits, fetch),
         NEW h \in hits \ cut
  PROVE  Cardinality(cut) = fetch /\ \A a \in cut : a.far <= h.far
<1>1. /\ cut \in SUBSET hits /\ Cardinality(cut) = Least(fetch, Cardinality(hits))
      /\ \A a \in cut : a.far <= h.far
  BY DEF Nearest
<1>2. IsFiniteSet(hits)
  BY FS_Subset
<1>3. Cardinality(cut) # Cardinality(hits)
  BY <1>1, <1>2, FS_Subset
<1> QED BY <1>1, <1>3 DEF Least

LEMMA SqliteScanKeeps ==
  ASSUME SearchInv, SqliteScan
  PROVE  SearchInv'
<1> DEFINE in(ns) == {h \in Fitting(rows) : rows[h.id].ns = ns}
           of(ns) == Nearest(in(ns), fetch)
           each == {f \in [Searched -> UNION {of(ns) : ns \in Searched}] :
                      \A ns \in Searched : f[ns] \in of(ns)}
<1>1. PICK hits \in SqliteScans(fetch) : Look(hits)
  BY DEF SqliteScan
<1>2. PICK cuts \in each : hits = UNION {cuts[ns] : ns \in Searched}
  <2>1. hits \in {UNION {cuts[ns] : ns \in Searched} : cuts \in each}
    BY <1>1 DEF SqliteScans
  <2> HIDE DEF each
  <2> QED BY <2>1
<1>3. \A ns \in Searched : cuts[ns] \in Nearest(in(ns), fetch)
  OBVIOUS
<1> HIDE DEF each
<1>4. hits \in SUBSET Fitting(rows)
  <2>1. \A ns \in Searched : in(ns) \subseteq Fitting(rows) /\ cuts[ns] \subseteq in(ns)
    BY <1>3 DEF Nearest
  <2> HIDE DEF in
  <2> QED BY <1>2, <2>1
<1>5. ASSUME NEW h \in Fitting(rows) \ hits PROVE CutBefore(hits, h)
  <2> DEFINE ns == rows[h.id].ns
  <2>1. ns \in Searched /\ h \in in(ns) /\ h \notin cuts[ns]
    BY <1>2, <1>5, HitFits DEF Fits
  <2>2. cuts[ns] \in Nearest(in(ns), fetch) /\ cuts[ns] \in SUBSET hits
    BY <1>2, <1>3, <2>1
  <2>3. in(ns) \in SUBSET seen /\ IsFiniteSet(seen) /\ fetch \in Nat
    BY SearchAssumption DEF SearchInv, Bounded, TypeOK
  <2> HIDE DEF in, ns
  <2>4. Cardinality(cuts[ns]) = fetch /\ \A a \in cuts[ns] : a.far <= h.far
    BY <2>1, <2>2, <2>3, NearestCut
  <2> QED BY <2>2, <2>4 DEF CutBefore
<1> QED BY <1>1, <1>4, <1>5, ScanKeeps DEF SqliteScan

LEMMA IndexScanKeeps ==
  ASSUME SearchInv, IndexScan
  PROVE  SearchInv'
<1>1. PICK n \in 0 .. fetch : \E hits \in Nearest(Fitting(rows), n) :
        IF Cardinality(hits) = fetch THEN Look(hits)
        ELSE pc' = "recount" /\ found' = hits /\ UNCHANGED <<fetch, results>>
  BY DEF IndexScan
<1>2. PICK hits \in Nearest(Fitting(rows), n) :
        IF Cardinality(hits) = fetch THEN Look(hits)
        ELSE pc' = "recount" /\ found' = hits /\ UNCHANGED <<fetch, results>>
  BY <1>1
<1>3. hits \in SUBSET Fitting(rows)
  BY DEF Nearest
<1>4. CASE Cardinality(hits) = fetch
  <2>1. \A h \in Fitting(rows) \ hits : CutBefore(hits, h)
    BY <1>4 DEF Nearest, CutBefore
  <2> QED BY <1>2, <1>3, <1>4, <2>1, ScanKeeps DEF IndexScan
<1>5. CASE Cardinality(hits) # fetch
  <2> USE DEF SearchInv
  <2>1. /\ pc = "scan" /\ backend = "postgres" /\ pc' = "recount" /\ found' = hits
        /\ UNCHANGED <<fetch, results, backend, rows, seen, touched, writes>>
    BY <1>2, <1>5 DEF IndexScan
  <2>2. Distinct(hits) /\ hits \subseteq seen
    BY <1>3, FittingDistinct, SubsetDistinct DEF Bounded
  <2>3. TypeOK' /\ Bounded'
    BY <2>1, <2>2 DEF TypeOK, Bounded, Distinct
  <2>4. Counted' /\ Whole'
    BY <2>1 DEF Counted, Whole
  <2>5. Current'
    BY <1>3, <2>1, HitFits DEF Current
  <2>6. NearestFound' /\ ResultsComparable'
    BY <2>1, SearchAssumption DEF NearestFound, ResultsComparable, Bounded
  <2> QED BY <2>3, <2>4, <2>5, <2>6
<1> QED BY <1>4, <1>5

LEMMA ExactScanKeeps ==
  ASSUME SearchInv, ExactScan
  PROVE  SearchInv'
<1>1. PICK hits \in Nearest(Fitting(rows), fetch) : Look(hits)
  BY DEF ExactScan
<1>2. hits \in SUBSET Fitting(rows)
  BY DEF Nearest
<1>3. Fitting(rows) \in SUBSET seen /\ IsFiniteSet(seen) /\ fetch \in Nat
  BY SearchAssumption DEF SearchInv, Bounded, TypeOK
<1>4. \A h \in Fitting(rows) \ hits : CutBefore(hits, h)
  BY <1>3, NearestCut DEF CutBefore
<1> QED BY <1>1, <1>2, <1>4, ScanKeeps DEF ExactScan

(* If no concept that fitted was written, the hits of the short scan still *)
(* fit, and there are no others if there are no more.                      *)
LEMMA RecountKeeps ==
  ASSUME SearchInv, Recount
  PROVE  SearchInv'
<1>1. CASE Cardinality(Fitting(rows)) <= Cardinality(found)
  <2>1. Look(found) /\ pc = "recount" /\ UNCHANGED <<backend, rows, seen, touched, writes>>
    BY <1>1 DEF Recount
  <2>2. \A h \in found : h.id \notin touched => h \in Fitting(rows)
    BY FitsHit DEF SearchInv, Current, TypeOK, Hit
  <2>3. ASSUME ~Lost PROVE Fitting(rows) = found
    <3>1. found \in SUBSET Fitting(rows)
      BY <2>1, <2>2, <2>3 DEF SearchInv, Bounded, Lost
    <3>2. IsFiniteSet(Fitting(rows))
      BY FittingDistinct DEF SearchInv, Distinct
    <3>3. /\ Cardinality(found) <= Cardinality(Fitting(rows))
          /\ Cardinality(found) \in Nat /\ Cardinality(Fitting(rows)) \in Nat
      BY <3>1, <3>2, FS_Subset, FS_CardinalityType
    <3> QED BY <1>1, <3>1, <3>2, <3>3, FS_Subset
  <2>4. \A h \in Fitting(rows) : h \in found \/ Lost
    BY <2>3
  <2>5. found \in SUBSET seen /\ \A g, h \in found : g.id = h.id => g = h
    BY DEF SearchInv, Bounded
  <2> QED BY <2>1, <2>2, <2>4, <2>5, LookKeeps
<1>2. CASE ~(Cardinality(Fitting(rows)) <= Cardinality(found))
  <2> USE DEF SearchInv
  <2>1. /\ pc = "recount" /\ pc' = "exact"
        /\ UNCHANGED <<fetch, found, results, backend, rows, seen, touched, writes>>
    BY <1>2 DEF Recount
  <2>2. TypeOK' /\ Bounded' /\ Counted' /\ Current' /\ Whole'
    BY <2>1 DEF TypeOK, Bounded, Counted, Current, Whole
  <2>3. NearestFound' /\ ResultsComparable'
    BY <2>1, SearchAssumption DEF NearestFound, ResultsComparable, Bounded
  <2> QED BY <2>2, <2>3
<1> QED BY <1>1, <1>2

(* There are at most k hits of which fewer than k come before.             *)
LEMMA TopSmall ==
  ASSUME Distinct(found)
  PROVE  IsFiniteSet(Top) /\ Cardinality(Top) \in 0 .. Wanted
<1> DEFINE rank == [h \in Top |-> Before(found, h)]
           places == 0 .. Wanted - 1
<1>1. IsFiniteSet(places) /\ Cardinality(places) = Wanted
  BY SearchAssumption, FS_Interval
<1>2. ASSUME NEW h \in Top PROVE rank[h] \in places
  <2>1. Before(found, h) \in Nat /\ Before(found, h) < Wanted
    BY RankTaken DEF Top
  <2> QED BY <2>1, SearchAssumption
<1>3. rank \in Injection(Top, places)
  <2>1. \A g, h \in Top : rank[g] = rank[h] => g = h
    BY RankTaken DEF Top
  <2>2. rank \in [Top -> places]
    BY <1>2
  <2> HIDE DEF rank, places
  <2> QED BY <2>1, <2>2 DEF Injection, IsInjective
<1> HIDE DEF rank, places
<1>4. IsFiniteSet(Top) /\ Cardinality(Top) <= Wanted
  BY <1>1, <1>3, FS_Injection
<1> QED BY <1>4, FS_CardinalityType, SearchAssumption

LEMMA FunctionIsSequence ==
  ASSUME NEW S, NEW n \in Nat, NEW f \in [1 .. n -> S]
  PROVE  f \in Seq(S) /\ DOMAIN f = 1 .. n /\ Len(f) = n
OBVIOUS

LEMMA ReadMetaKeeps ==
  ASSUME SearchInv, ReadMeta
  PROVE  SearchInv'
<1> USE DEF SearchInv
<1> DEFINE left == {h \in Top : rows[h.id] # None}
           N == Cardinality(left)
           meta(h) == [hit |-> h, ns |-> rows[h.id].ns]
<1>1. /\ pc = "meta" /\ pc' = "done"
      /\ results' = [n \in DOMAIN Ranked(left) |-> meta(Ranked(left)[n])]
      /\ UNCHANGED <<backend, rows, fetch, found, seen, touched, writes>>
  BY DEF ReadMeta
<1>2. Distinct(found) /\ IsFiniteSet(seen) /\ found \subseteq seen
  BY FS_Subset DEF Bounded, Distinct, TypeOK
<1>3. left \in SUBSET found /\ left \in SUBSET Top /\ Distinct(left)
  BY <1>2, SubsetDistinct DEF Top
<1>4. N \in 0 .. Wanted
  <2>1. N <= Cardinality(Top) /\ N \in Nat
    <3> HIDE DEF left
    <3> QED BY <1>2, <1>3, TopSmall, FS_Subset, FS_CardinalityType DEF Distinct
  <2>2. Cardinality(Top) \in 0 .. Wanted /\ Wanted \in Nat
    BY <1>2, TopSmall, SearchAssumption
  <2> HIDE DEF N
  <2> QED BY <2>1, <2>2
<1>5. \A h \in left : meta(h) \in [hit : Hit, ns : Namespaces]
  BY <1>3, RowTyped DEF TypeOK, Hit
<1> HIDE DEF left
<1>6. /\ Ranked(left) \in [1 .. N -> left]
      /\ \A h \in left : \E n \in 1 .. N : Ranked(left)[n] = h
      /\ \A m, n \in 1 .. N : m < n => Nearer(Ranked(left)[m], Ranked(left)[n])
  BY <1>3, RankedLists
<1>7. DOMAIN Ranked(left) = 1 .. N
  BY <1>6
<1> HIDE DEF N
<1>8. /\ results' \in Seq([hit : Hit, ns : Namespaces]) /\ DOMAIN results' = 1 .. N /\ Len(results') = N
      /\ \A n \in 1 .. N : results'[n].hit = Ranked(left)[n] /\ Ranked(left)[n] \in left
  <2> DEFINE list == [n \in 1 .. N |-> meta(Ranked(left)[n])]
  <2>1. results' = list
    BY <1>1, <1>7
  <2>2. \A n \in 1 .. N : meta(Ranked(left)[n]) \in [hit : Hit, ns : Namespaces]
    BY <1>5, <1>6
  <2>3. list \in [1 .. N -> [hit : Hit, ns : Namespaces]] /\ N \in Nat
    <3> HIDE DEF meta
    <3> QED BY <1>4, <2>2, SearchAssumption
  <2>4. \A n \in 1 .. N : list[n].hit = Ranked(left)[n]
    OBVIOUS
  <2> HIDE DEF list
  <2>5. list \in Seq([hit : Hit, ns : Namespaces]) /\ DOMAIN list = 1 .. N /\ Len(list) = N
    BY <2>3, FunctionIsSequence
  <2> QED BY <1>6, <2>1, <2>4, <2>5
<1>9. TypeOK' /\ Bounded' /\ Counted' /\ Current' /\ Whole'
  <2>1. TypeOK'
    BY <1>1, <1>8 DEF TypeOK
  <2> QED BY <1>1, <2>1 DEF Bounded, Counted, Current, Whole
<1>10. ResultsComparable'
  <2>1. Len(results') <= Wanted
    BY <1>4, <1>8, SearchAssumption
  <2>2. \A m, n \in 1 .. N : m < n => Nearer(results'[m].hit, results'[n].hit)
    BY <1>6, <1>8
  <2>3. ASSUME NEW n \in 1 .. N, results'[n].hit.id \notin touched
        PROVE  /\ Fits(rows, results'[n].hit.id) /\ ~rows[results'[n].hit.id].foreign
               /\ results'[n].hit = HitOf(rows, results'[n].hit.id)
    <3> DEFINE h == results'[n].hit
    <3>1. h \in found
      BY <1>3, <1>8
    <3> HIDE DEF h
    <3>2. h.id \in Ids
      BY <3>1 DEF TypeOK, Hit
    <3>3. h.id \notin touched
      BY <2>3 DEF h
    <3>4. Fits(rows, h.id) /\ h = HitOf(rows, h.id) /\ ~rows[h.id].foreign
      BY <1>1, <3>1, <3>2, <3>3 DEF Current, Counted
    <3> QED BY <3>4 DEF h
  <2> QED BY <1>1, <1>8, <2>1, <2>2, <2>3 DEF ResultsComparable
<1>11. NearestFound'
  <2> SUFFICES ASSUME NEW i \in Ids \ touched, Fits(rows, i), NEW h, h = HitOf(rows, i)
               PROVE  \/ \E n \in DOMAIN results' : results'[n].hit = h
                      \/ Ahead(h)' >= Wanted \/ Capped(h)' \/ Lost'
    <3>1. ASSUME NEW i \in Ids \ touched PROVE Fits(rows, i)' = Fits(rows, i) /\ HitOf(rows, i)' = HitOf(rows, i)
      BY <1>1
    <3> QED BY <1>1, <3>1 DEF NearestFound
  <2>1. h \in Fitting(rows) /\ h.id = i /\ h.id \notin touched
    BY FitsHit DEF HitOf
  <2>2. Covered(h)
    BY <1>1, <2>1 DEF Whole
  <2>3. /\ Ahead(h)' = Ahead(h) /\ Capped(h)' = Capped(h) /\ Lost' = Lost
    BY <1>1 DEF Ahead, Capped, Lost
  <2>4. CASE h \in found /\ Before(found, h) < Wanted
    <3>1. h \in left
      BY <2>1, <2>4 DEF left, Top, Fits
    <3> QED BY <1>6, <1>8, <3>1
  <2>5. CASE h \in found /\ ~(Before(found, h) < Wanted)
    <3> DEFINE X == {g \in found : Nearer(g, h)}
    <3>1. X \in SUBSET seen /\ Distinct(X) /\ Cardinality(X) = Before(found, h)
      BY <1>2, SubsetDistinct DEF Before
    <3>2. Cardinality(X) <= Ahead(h)
      <4>1. \A g \in X : Nearer(g, h)
        OBVIOUS
      <4> HIDE DEF X
      <4> QED BY <1>2, <3>1, <4>1, AheadOf
    <3>3. Before(found, h) \in Nat /\ Ahead(h) \in Nat
      BY <1>2, <2>5, RankTaken, AheadFinite
    <3> HIDE DEF X
    <3> QED BY <2>3, <2>5, <3>1, <3>2, <3>3, SearchAssumption
  <2> QED BY <2>2, <2>3, <2>4, <2>5 DEF Covered
<1> QED BY <1>9, <1>10, <1>11

LEMMA StutterKeeps ==
  ASSUME SearchInv, UNCHANGED vars
  PROVE  SearchInv'
<1> USE DEF SearchInv, vars, search
<1>1. TypeOK' /\ Bounded' /\ Counted' /\ Current'
  BY DEF TypeOK, Bounded, Counted, Current
<1>2. Whole'
  BY DEF Whole, Covered, Ahead, Capped, Lost
<1>3. NearestFound'
  BY DEF NearestFound, Ahead, Capped, Lost
<1>4. ResultsComparable'
  BY DEF ResultsComparable
<1> QED BY <1>1, <1>2, <1>3, <1>4

LEMMA Inductive == SearchInv /\ [Next]_vars => SearchInv'
<1> SUFFICES ASSUME SearchInv, [Next]_vars PROVE SearchInv'
  OBVIOUS
<1>1. CASE Step
  BY <1>1, CountKeeps, SqliteScanKeeps, IndexScanKeeps, RecountKeeps, ExactScanKeeps, ReadMetaKeeps
  DEF Step
<1> QED BY <1>1, PutKeeps, StutterKeeps DEF Next

-----------------------------------------------------------------------------
(* Theorems                                                                *)

LEMMA Invariance == Spec => []SearchInv
<1> QED BY Initially, Inductive, PTL DEF Spec

(* Every variable keeps its type.                                          *)
THEOREM TypeCorrect == Spec => []TypeOK
<1>1. SearchInv => TypeOK
  BY DEF SearchInv
<1> QED BY <1>1, Invariance, PTL

(* However many concepts there are and whatever is written meanwhile: a    *)
(* concept nobody wrote is returned, unless k that fitted come before it,  *)
(* the scans could not go further, or a short scan lost one that fitted.   *)
THEOREM NearestFoundCorrect == Spec => []NearestFound
<1>1. SearchInv => NearestFound
  BY DEF SearchInv
<1> QED BY <1>1, Invariance, PTL

(* What is returned is ranked, at most k, and, of concepts nobody wrote    *)
(* meanwhile, fits what was asked and was made by this server's model.     *)
THEOREM ResultsComparableCorrect == Spec => []ResultsComparable
<1>1. SearchInv => ResultsComparable
  BY DEF SearchInv
<1> QED BY <1>1, Invariance, PTL

=============================================================================
