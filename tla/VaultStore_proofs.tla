------------------------- MODULE VaultStore_proofs --------------------------
(***************************************************************************)
(* Proofs about VaultStore: what the importer replaces is what it read,    *)
(* unless a server wrote the concept in between; a restore that ends has   *)
(* done what its bundle says, however often it was cut off before; and a   *)
(* backup has the concepts that nobody wrote while it was read.            *)
(***************************************************************************)
EXTENDS VaultStore, FiniteSetTheorems, TLAPS

(* The importer's place in the bundle, and the types of what it compares.  *)
ImportTyped ==
  /\ rows \in [Ids -> Row \cup {None}]
  /\ clock \in 1..MaxClock
  /\ bundle \in Seq(Form) /\ at \in Nat
  /\ importer \in {"find", "write"} => at < Len(bundle)
  /\ missed \subseteq Ids /\ edits \in Nat

(* What is about to be written was not older than what the importer read,  *)
(* and that is what is there as long as no server wrote the concept.       *)
ReadHolds ==
  importer = "write" =>
    /\ existing = None \/ ~Newer(existing, Current)
    /\ Current.id \notin missed => rows[Current.id] = existing

ImportInv == ImportTyped /\ ReadHolds

-----------------------------------------------------------------------------
(* The ThoughtForm the importer is at.                                     *)
LEMMA CurrentTyped ==
  ASSUME ImportTyped, importer \in {"find", "write"}
  PROVE  /\ Current \in Form /\ Current.id \in Ids /\ Current.stamp \in 1..MaxClock
         /\ at + 1 \in 1..Len(bundle)
<1>1. at + 1 \in 1..Len(bundle)
  BY DEF ImportTyped
<1>2. Current \in Form
  BY <1>1 DEF ImportTyped, Current
<1> QED BY <1>1, <1>2 DEF Form

(* What is stored for a ThoughtForm of the bundle is a row.                *)
LEMMA StoredTyped ==
  ASSUME NEW f \in Form
  PROVE  [updated |-> f.stamp, form |-> f] \in Row
BY DEF Form, Row

LEMMA PutKeeps ==
  ASSUME ImportInv, NEW i \in Ids, NEW row \in Row \cup {None}, Put(i, row)
  PROVE  ImportInv'
<1> USE DEF ImportInv, Put, import
<1>1. clock' \in 1..MaxClock
  BY VaultStoreAssumption DEF ImportTyped, Row
<1>2. ImportTyped'
  BY <1>1 DEF ImportTyped
<1>3. ReadHolds'
  <2> SUFFICES ASSUME importer = "write" PROVE ReadHolds'
    BY DEF ReadHolds
  <2>1. Current' = Current /\ Current.id \in Ids
    BY CurrentTyped DEF Current
  <2> QED BY <2>1 DEF ReadHolds, ImportTyped, Newer
<1> QED BY <1>2, <1>3

LEMMA SaveKeeps ==
  ASSUME ImportInv, NEW i \in Ids, Save(i)
  PROVE  ImportInv'
<1>1. PICK now \in clock..MaxClock, f \in Form \cup {None} : Put(i, [updated |-> now, form |-> f])
  BY DEF Save
<1>2. [updated |-> now, form |-> f] \in Row
  BY VaultStoreAssumption DEF ImportInv, ImportTyped, Row
<1> QED BY <1>1, <1>2, PutKeeps

LEMMA BeginImportKeeps ==
  ASSUME ImportInv, BeginImport
  PROVE  ImportInv'
<1>1. bundle # <<>> => 0 < Len(bundle)
  BY DEF ImportInv, ImportTyped
<1> QED BY <1>1 DEF ImportInv, BeginImport, ImportTyped, ReadHolds, paging

LEMMA FindKeeps ==
  ASSUME ImportInv, Find
  PROVE  ImportInv'
<1> USE DEF ImportInv, Find
<1>1. Current \in Form /\ Current.id \in Ids /\ at + 1 \in 1..Len(bundle)
  BY CurrentTyped
<1>2. CASE importer' = "write"
  <2>1. UNCHANGED <<rows, clock, bundle, at>> /\ Current' = Current
    BY <1>2 DEF Advanced, Current
  <2>2. existing' = rows[Current.id] /\ (existing' = None \/ ~Newer(existing', Current))
    BY <1>2 DEF Advanced
  <2> QED BY <1>1, <1>2, <2>1, <2>2 DEF ImportTyped, ReadHolds
<1>3. CASE importer' # "write"
  BY <1>1, <1>3 DEF ImportTyped, ReadHolds, Advanced
<1> QED BY <1>2, <1>3

LEMMA WriteKeeps ==
  ASSUME ImportInv, Update \/ Insert
  PROVE  ImportInv'
<1>1. importer = "write" /\ importer' # "write" /\ UNCHANGED <<clock, bundle, missed, edits>>
      /\ importer' \in {"idle", "find", "done"}
      /\ (importer' = "find" => at' = at + 1 /\ at + 1 # Len(bundle))
      /\ at' \in {at, at + 1}
  BY DEF Update, UpdateConcept, Insert, InsertConcept, Advanced
<1>2. /\ Current.id \in Ids /\ at + 1 \in 1..Len(bundle)
      /\ [updated |-> Current.stamp, form |-> Current] \in Row
  BY <1>1, CurrentTyped, StoredTyped DEF ImportInv
<1>3. rows' \in [Ids -> Row \cup {None}]
  BY <1>2 DEF Update, UpdateConcept, Insert, InsertConcept, ImportInv, ImportTyped
<1> QED BY <1>1, <1>2, <1>3 DEF ImportInv, ImportTyped, ReadHolds

(* Steps that leave the store and the importer alone.                      *)
LEMMA OthersKeep ==
  ASSUME ImportInv, UNCHANGED <<rows, clock, import, missed, edits>>
  PROVE  ImportInv'
BY DEF ImportInv, ImportTyped, ReadHolds, import, Current, Newer

LEMMA Initially == Init => ImportInv
<1> SUFFICES ASSUME Init PROVE ImportInv
  OBVIOUS
<1>1. bundle \in Seq(Form)
  BY VaultStoreAssumption DEF Init
<1>2. rows \in [Ids -> Row \cup {None}]
  <2> DEFINE text == CHOOSE t \in Texts : TRUE
  <2>1. text \in Texts /\ 1..clock \subseteq 1..MaxClock
    BY VaultStoreAssumption DEF Init
  <2>2. PICK present \in SUBSET Ids, since \in [Ids -> 1..clock] :
          rows = [i \in Ids |-> IF i \in present
            THEN [updated |-> since[i], form |-> [id |-> i, stamp |-> since[i], text |-> text]]
            ELSE None]
    BY DEF Init
  <2> HIDE DEF text
  <2>3. \A i \in Ids : [updated |-> since[i],
                       form |-> [id |-> i, stamp |-> since[i], text |-> text]] \in Row
    BY <2>1, <2>2 DEF Row, Form
  <2> QED BY <2>2, <2>3
<1> QED BY <1>1, <1>2, VaultStoreAssumption DEF Init, ImportInv, ImportTyped, ReadHolds

LEMMA Inductive == ImportInv /\ [Next]_vars => ImportInv'
<1> SUFFICES ASSUME ImportInv, [Next]_vars PROVE ImportInv'
  OBVIOUS
<1>1. CASE UNCHANGED vars
  BY <1>1, OthersKeep DEF vars
<1>2. CASE Crash
  BY <1>2 DEF Crash, ImportInv, ImportTyped, ReadHolds, paging
<1>3. CASE BeginBackup \/ Backup
  BY <1>3, OthersKeep DEF BeginBackup, Backup, Count, ReadPage, Fetch
<1>4. ASSUME NEW i \in Ids, Delete(i) PROVE ImportInv'
  BY <1>4, PutKeeps DEF Delete
<1> QED BY <1>1, <1>2, <1>3, <1>4, BeginImportKeeps, FindKeeps, WriteKeeps, SaveKeeps
        DEF Next, Import

LEMMA Invariance == Spec => []ImportInv
<1> QED BY Initially, Inductive, PTL DEF Spec

(* The importer replaces a newer concept only if a server saved it between *)
(* the importer's read and its write, for bundles of any length.           *)
THEOREM NewerKeptCorrect == Spec => NewerKept
<1> DEFINE Step == \A i \in Ids :
                     (/\ edits' = edits /\ rows'[i] # rows[i] /\ rows[i] # None
                      /\ rows[i].updated > rows'[i].updated)
                       => i \in missed
<1>1. ImportInv /\ [Next]_vars => [Step]_vars
  <2> SUFFICES ASSUME ImportInv, Next, NEW i \in Ids, edits' = edits, rows'[i] # rows[i],
                      rows[i] # None, rows[i].updated > rows'[i].updated
               PROVE  i \in missed
    OBVIOUS
  <2>1. CASE Update
    <3>1. Current.id \in Ids /\ importer = "write"
      BY <2>1, CurrentTyped DEF ImportInv, Update, UpdateConcept
    <3>2. i = Current.id /\ rows'[i].updated = Current.stamp
      BY <2>1, <3>1 DEF Update, UpdateConcept, ImportInv, ImportTyped
    <3> QED BY <2>1, <3>1, <3>2 DEF Update, UpdateConcept, ImportInv, ReadHolds, Newer
  <2>2. CASE Insert
    <3>1. Current.id \in Ids /\ importer = "write"
      BY <2>2, CurrentTyped DEF ImportInv, Insert, InsertConcept
    <3> QED BY <2>2, <3>1 DEF Insert, InsertConcept, ImportInv, ImportTyped
  <2>3. ASSUME NEW j \in Ids, Save(j) \/ Delete(j) PROVE FALSE
    BY <2>3 DEF Save, Delete, Put, ImportInv, ImportTyped
  <2> QED BY <2>1, <2>2, <2>3
          DEF Next, BeginImport, Import, Find, Crash, BeginBackup, Backup, Count, ReadPage, Fetch
<1> QED BY <1>1, Invariance, PTL DEF Spec, NewerKept

-----------------------------------------------------------------------------
(* A restore that ends                                                     *)

StoredFor(f) == [updated |-> f.stamp, form |-> f]

(* A concept no server wrote is as it was, or as a restore left it that    *)
(* did not find it newer.                                                  *)
FromBundle ==
  \A i \in Ids \ changed :
    \/ rows[i] = before[i]
    \/ \E n \in 1..Len(bundle) :
         /\ bundle[n].id = i /\ rows[i] = StoredFor(bundle[n])
         /\ before[i] = None \/ ~(before[i].updated > bundle[n].stamp)

(* Of what the importer is past, such a concept has nothing older, and of  *)
(* one time only what the bundle has later.                                *)
Settled(m) ==
  LET row == rows[bundle[m].id] IN
  /\ row # None
  /\ \/ row.updated > bundle[m].stamp
     \/ row.updated = bundle[m].stamp
        /\ \E k \in m..Len(bundle) : bundle[k].id = bundle[m].id /\ row = StoredFor(bundle[k])

PastDone ==
  importer \in {"find", "write", "done"} =>
    \A m \in 1..at : bundle[m].id \notin changed => Settled(m)

Progress ==
  /\ missed \subseteq changed
  /\ before \in [Ids -> Row \cup {None}]
  /\ importer = "done" => at = Len(bundle)

ConvergeInv == ImportInv /\ Progress /\ FromBundle /\ PastDone

-----------------------------------------------------------------------------
(* A backup that ends                                                      *)

Behind(i) == Cardinality(Ahead(i)) >= offset

(* More than the pages that were read is still to be listed, or the last   *)
(* one was cut from more concepts than its count has.                      *)
More ==
  grown \/ reader \in {"list", "page"} \/ (reader = "fetch" /\ offset < total)

(* Until the reader is through the list, a concept nobody wrote is in the  *)
(* backup, in the page that is fetched, or still to be listed, unless a    *)
(* page ended within its updated_at; then it is in one of the first two.   *)
Untouched(i) == i \in Stored \ (moved \cup split) /\ rows[i].form # None

Awaited ==
  reader # "idle" /\ ~slid =>
    \A i \in Ids : Untouched(i) =>
      rows[i].form \in taken \/ i \in page \/ (Behind(i) /\ More)

ReaderTyped ==
  /\ reader \in {"idle", "list", "page", "fetch", "done"}
  /\ offset \in Nat /\ total \in Nat /\ page \subseteq Ids /\ taken \subseteq Form
  /\ (reader = "fetch") <=> (page # {})
  /\ reader = "idle" => offset = 0
  /\ reader = "done" => ~(offset < total)
  /\ IsFiniteSet(Stored)

BackupInv == ImportInv /\ ReaderTyped /\ Awaited

-----------------------------------------------------------------------------
(* Ranks in a finite set                                                   *)

(* How many of the elements of S come before x in the order R.             *)
Rank(S, R, x) == Cardinality({y \in S : <<y, x>> \in R})

(* In a total order of a finite set every rank is taken, and once.         *)
LEMMA Ranked ==
  ASSUME NEW S, IsFiniteSet(S), NEW R,
         \A x \in S : <<x, x>> \notin R,
         \A x, y \in S : x = y \/ <<x, y>> \in R \/ <<y, x>> \in R,
         \A x, y, z \in S : <<x, y>> \in R /\ <<y, z>> \in R => <<x, z>> \in R
  PROVE  /\ \A x \in S : Rank(S, R, x) \in 0 .. Cardinality(S) - 1
         /\ \A x, y \in S : Rank(S, R, x) = Rank(S, R, y) => x = y
         /\ \A n \in 1 .. Cardinality(S) : \E x \in S : Rank(S, R, x) = n - 1
<1> DEFINE first == [x \in S |-> {y \in S : <<y, x>> \in R}]
           rank == [x \in S |-> Cardinality(first[x])]
           N == Cardinality(S)
           places == 0 .. N - 1
<1>1. N \in Nat
  BY FS_CardinalityType
<1>2. ASSUME NEW x \in S
      PROVE  IsFiniteSet(first[x]) /\ rank[x] \in places
  <2>1. first[x] \in SUBSET S /\ first[x] # S
    OBVIOUS
  <2>2. IsFiniteSet(first[x]) /\ Cardinality(first[x]) <= N /\ Cardinality(first[x]) # N
    <3> HIDE DEF first
    <3> QED BY <2>1, FS_Subset
  <2>3. Cardinality(first[x]) \in Nat
    <3> HIDE DEF first
    <3> QED BY <2>2, FS_CardinalityType
  <2> HIDE DEF first, N
  <2> QED
    BY <1>1, <2>2, <2>3
<1>3. ASSUME NEW x \in S, NEW y \in S, <<x, y>> \in R
      PROVE  rank[x] < rank[y]
  <2>1. first[x] \in SUBSET first[y] /\ x \in first[y] /\ x \notin first[x]
    BY <1>3
  <2>2. IsFiniteSet(first[y])
    BY <1>2
  <2>3. Cardinality(first[x]) <= Cardinality(first[y]) /\ Cardinality(first[x]) # Cardinality(first[y])
    <3> HIDE DEF first
    <3> QED BY <2>1, <2>2, FS_Subset
  <2>4. rank[x] \in places /\ rank[y] \in places
    BY <1>2
  <2> HIDE DEF first, N
  <2>5. rank[x] \in Int /\ rank[y] \in Int
    BY <1>1, <2>4
  <2> QED
    BY <2>3, <2>5
<1>4. \A x, y \in S : rank[x] = rank[y] => x = y
  <2>1. \A x \in S : rank[x] \in Int
    <3> HIDE DEF N, first, rank
    <3> QED BY <1>1, <1>2
  <2> SUFFICES ASSUME NEW x \in S, NEW y \in S, rank[x] = rank[y] PROVE x = y
    OBVIOUS
  <2>2. rank[x] \in Int /\ ~(rank[x] < rank[y]) /\ ~(rank[y] < rank[x])
    <3> HIDE DEF rank
    <3> QED BY <2>1
  <2>3. <<x, y>> \notin R /\ <<y, x>> \notin R
    <3> HIDE DEF rank
    <3> QED BY <1>3, <2>2
  <2> QED
    BY <2>3
<1>5. rank \in [S -> places]
  BY <1>2
<1>6. rank \in Injection(S, places)
  <2> HIDE DEF rank
  <2> QED BY <1>4, <1>5 DEF Injection, IsInjective
<1>7. IsFiniteSet(places) /\ Cardinality(places) = N
  <2>1. /\ IsFiniteSet(0 .. N - 1)
        /\ Cardinality(0 .. N - 1) = IF 0 > N - 1 THEN 0 ELSE N - 1 - 0 + 1
    <3> HIDE DEF N
    <3> QED BY <1>1, FS_Interval
  <2> HIDE DEF N
  <2> QED
    BY <1>1, <2>1
<1>8. rank \in Surjection(S, places)
  <2> HIDE DEF rank, places
  <2> QED BY <1>6, <1>7, FS_Injection
<1>9. \A n \in 1 .. N : \E x \in S : rank[x] = n - 1
  <2>1. \A n \in 1 .. N : n - 1 \in places
    <3> HIDE DEF N
    <3> QED BY <1>1
  <2> HIDE DEF rank, places, N
  <2> QED BY <1>8, <2>1 DEF Surjection
<1>10. \A x \in S : Rank(S, R, x) = rank[x]
  BY DEF Rank
<1> HIDE DEF rank, places, N
<1>11. \A x \in S : Rank(S, R, x) \in places
  BY <1>2, <1>10
<1>12. \A x, y \in S : Rank(S, R, x) = Rank(S, R, y) => x = y
  BY <1>4, <1>10
<1>13. \A n \in 1 .. N : \E x \in S : Rank(S, R, x) = n - 1
  <2> SUFFICES ASSUME NEW n \in 1 .. N PROVE \E x \in S : Rank(S, R, x) = n - 1
    OBVIOUS
  <2>1. PICK x \in S : rank[x] = n - 1
    BY <1>9
  <2> QED
    BY <1>10, <2>1
<1> QED
  BY <1>11, <1>12, <1>13 DEF places, N

-----------------------------------------------------------------------------
(* The importer's progress                                                 *)

LEMMA RowsTyped ==
  ASSUME ImportTyped
  PROVE  /\ None \notin Row
         /\ \A i \in Ids : rows[i] # None => rows[i] \in Row /\ rows[i].updated \in Int
<1>1. None \notin Row
  BY VaultStoreAssumption
<1>2. \A r \in Row : r.updated \in Int
  BY VaultStoreAssumption DEF Row
<1> QED
  BY <1>1, <1>2 DEF ImportTyped

LEMMA BundleTyped ==
  ASSUME ImportTyped
  PROVE  /\ Len(bundle) \in Nat /\ DOMAIN bundle = 1..Len(bundle)
         /\ \A n \in 1..Len(bundle) :
              /\ bundle[n] \in Form /\ bundle[n].id \in Ids /\ bundle[n].stamp \in Int
              /\ StoredFor(bundle[n]) # None /\ StoredFor(bundle[n]).updated = bundle[n].stamp
<1>1. Len(bundle) \in Nat /\ DOMAIN bundle = 1..Len(bundle)
      /\ \A n \in 1..Len(bundle) : bundle[n] \in Form
  BY DEF ImportTyped
<1>2. \A f \in Form : f.id \in Ids /\ f.stamp \in Int
  BY DEF Form
<1>3. \A f \in Form : StoredFor(f) \in Row /\ StoredFor(f).updated = f.stamp
  BY DEF Form, Row, StoredFor
<1> QED
  BY <1>1, <1>2, <1>3, RowsTyped

LEMMA InitConverges == Init => ConvergeInv
<1> SUFFICES ASSUME Init PROVE ConvergeInv
  OBVIOUS
<1>1. ImportInv
  BY Initially
<1>2. Progress
  BY <1>1 DEF Init, Progress, ImportInv, ImportTyped
<1>3. FromBundle /\ PastDone
  BY DEF Init, FromBundle, PastDone
<1> QED
  BY <1>1, <1>2, <1>3 DEF ConvergeInv

(* A server's write takes the concept out of what a restore promises.      *)
LEMMA PutConverges ==
  ASSUME ConvergeInv, NEW i \in Ids, NEW row \in Row \cup {None}, Put(i, row)
  PROVE  ConvergeInv'
<1> USE DEF ConvergeInv
<1>1. ImportInv'
  BY PutKeeps
<1>2. UNCHANGED <<bundle, at, importer, before>> /\ changed' = changed \cup {i}
  BY DEF Put, import
<1>3. \A k \in Ids \ {i} : rows'[k] = rows[k]
  BY DEF Put, ImportInv, ImportTyped
<1>4. Progress'
  BY <1>2 DEF Put, Progress
<1>5. FromBundle'
  BY <1>2, <1>3 DEF FromBundle, StoredFor
<1>6. PastDone'
  <2> SUFFICES ASSUME importer \in {"find", "write", "done"},
                      NEW m \in 1..at, bundle[m].id \notin changed \cup {i}
               PROVE  Settled(m)'
    BY <1>2 DEF PastDone
  <2>1. at <= Len(bundle) /\ Len(bundle) \in Nat /\ at \in Nat
    BY DEF ImportInv, ImportTyped, Progress
  <2>2. bundle[m].id \in Ids
    BY <2>1, BundleTyped DEF ImportInv
  <2>3. rows'[bundle[m].id] = rows[bundle[m].id]
    BY <1>3, <2>2
  <2> QED
    BY <1>2, <2>3 DEF PastDone, Settled, StoredFor
<1> QED
  BY <1>1, <1>4, <1>5, <1>6

(* Steps of the backup, and the end of a restore.                          *)
LEMMA OthersConverge ==
  ASSUME ConvergeInv, ImportInv',
         UNCHANGED <<rows, bundle, before, changed, missed>>,
         \/ UNCHANGED <<at, importer>>
         \/ importer' = "idle"
         \/ at' = 0 /\ importer' = (IF bundle = <<>> THEN "done" ELSE "find")
  PROVE  ConvergeInv'
<1> USE DEF ConvergeInv
<1>1. Progress'
  <2>1. bundle = <<>> => Len(bundle) = 0
    OBVIOUS
  <2> QED
    BY <2>1 DEF Progress
<1>2. FromBundle'
  BY DEF FromBundle, StoredFor
<1>3. PastDone'
  BY DEF PastDone, Settled, StoredFor
<1> QED
  BY <1>1, <1>2, <1>3

(* Skipped: what is there is newer.                                        *)
LEMMA FindConverges ==
  ASSUME ConvergeInv, Find
  PROVE  ConvergeInv'
<1> USE DEF ConvergeInv
<1>1. ImportInv'
  BY FindKeeps
<1>2. /\ at \in Nat /\ at + 1 \in 1..Len(bundle) /\ Len(bundle) \in Nat
      /\ Current.id \in Ids /\ Current = bundle[at + 1]
  BY CurrentTyped DEF Find, ImportInv, ImportTyped, Current
<1>3. UNCHANGED <<rows, bundle, before, changed>> /\ missed' \subseteq missed
  BY DEF Find
<1>4. FromBundle'
  BY <1>3 DEF FromBundle, StoredFor
<1>5. CASE importer' = "write"
  <2>1. at' = at
    BY <1>5 DEF Find, Advanced
  <2>2. PastDone'
    BY <1>3, <2>1 DEF Find, PastDone, Settled, StoredFor
  <2> QED
    BY <1>1, <1>3, <1>4, <1>5, <2>2 DEF Progress
<1>6. CASE importer' # "write"
  <2>1. /\ rows[Current.id] # None /\ rows[Current.id].updated > Current.stamp
        /\ at' = at + 1 /\ (importer' = "done" => at + 1 = Len(bundle))
    BY <1>6 DEF Find, Advanced, Newer
  <2>2. Progress'
    BY <1>3, <2>1 DEF Progress
  <2>3. PastDone'
    <3> SUFFICES ASSUME NEW m \in 1..at + 1, bundle[m].id \notin changed
                 PROVE  Settled(m)
      BY <1>3, <2>1 DEF PastDone, Settled, StoredFor
    <3>1. CASE m = at + 1
      BY <1>2, <2>1, <3>1 DEF Settled
    <3>2. CASE m # at + 1
      <4>1. m \in 1..at
        BY <1>2, <3>2
      <4> QED
        BY <4>1 DEF PastDone, Find
    <3> QED
      BY <3>1, <3>2
  <2> QED
    BY <1>1, <1>4, <2>2, <2>3
<1> QED
  BY <1>5, <1>6

(* Written: of the bundle's ThoughtForms of this concept the importer is   *)
(* past, none is later than what is written now.                           *)
LEMMA WriteConverges ==
  ASSUME ConvergeInv, Update \/ Insert
  PROVE  ConvergeInv'
<1> USE DEF ConvergeInv
<1> DEFINE i == Current.id
           p == at + 1
<1>1. ImportInv'
  BY WriteKeeps
<1>2. /\ at \in Nat /\ p \in 1..Len(bundle) /\ Len(bundle) \in Nat
      /\ i \in Ids /\ Current = bundle[p] /\ importer = "write" /\ Current.stamp \in Int
  <2>1. importer = "write"
    BY DEF Update, UpdateConcept, Insert, InsertConcept
  <2>2. at \in Nat /\ p \in 1..Len(bundle) /\ Len(bundle) \in Nat /\ i \in Ids /\ Current = bundle[p]
    BY <2>1, CurrentTyped DEF ImportInv, ImportTyped, Current
  <2> QED
    BY <2>1, <2>2, BundleTyped DEF ImportInv
<1>3. UNCHANGED <<bundle, before, changed, missed>>
  BY DEF Update, UpdateConcept, Insert, InsertConcept
<1>4. \/ importer' = "idle" /\ UNCHANGED rows
      \/ at' = p /\ (importer' = "done" => p = Len(bundle)) /\ importer' # "idle"
  BY DEF Update, UpdateConcept, Insert, InsertConcept, Advanced
<1>5. Progress'
  BY <1>3, <1>4 DEF Progress, Update, UpdateConcept, Insert, InsertConcept, Advanced
<1>6. CASE importer' = "idle"
  <2>1. UNCHANGED rows
    BY <1>4, <1>6
  <2> QED
    BY <1>1, <1>3, <1>5, <1>6, <2>1 DEF FromBundle, StoredFor, PastDone
<1>7. CASE importer' # "idle"
  <2>1. at' = p
    BY <1>4, <1>7
  <2>2. \A k \in Ids \ {i} : rows'[k] = rows[k]
    BY DEF Update, UpdateConcept, Insert, InsertConcept, ImportInv, ImportTyped
  <2>3. ASSUME i \notin changed
        PROVE  /\ rows[i] = existing
               /\ rows[i] = None \/ ~(rows[i].updated > Current.stamp)
               /\ rows'[i] = StoredFor(Current)
    <3>1. rows[i] = existing /\ (rows[i] = None \/ ~(rows[i].updated > Current.stamp))
      BY <1>2, <2>3 DEF Progress, ImportInv, ReadHolds, Newer
    <3>2. rows'[i] = StoredFor(Current)
      BY <1>2, <1>7, <3>1 DEF Update, UpdateConcept, Insert, InsertConcept, ImportInv, ImportTyped, StoredFor
    <3> QED
      BY <3>1, <3>2
  <2>4. FromBundle'
    <3> SUFFICES ASSUME NEW k \in Ids \ changed
                 PROVE  \/ rows'[k] = before[k]
                        \/ \E n \in 1..Len(bundle) :
                             /\ bundle[n].id = k /\ rows'[k] = StoredFor(bundle[n])
                             /\ before[k] = None \/ ~(before[k].updated > bundle[n].stamp)
      BY <1>3 DEF FromBundle, StoredFor
    <3>1. CASE k # i
      BY <2>2, <3>1 DEF FromBundle
    <3>2. CASE k = i
      <4>1. rows'[k] = StoredFor(bundle[p]) /\ bundle[p].id = k
        BY <1>2, <2>3, <3>2
      <4>2. before[k] = None \/ ~(before[k].updated > bundle[p].stamp)
        <5>1. CASE rows[k] = before[k]
          BY <1>2, <2>3, <3>2, <5>1
        <5>2. CASE rows[k] # before[k]
          <6>1. PICK n \in 1..Len(bundle) :
                  /\ bundle[n].id = k /\ rows[k] = StoredFor(bundle[n])
                  /\ before[k] = None \/ ~(before[k].updated > bundle[n].stamp)
            BY <5>2 DEF FromBundle
          <6>2. /\ rows[k] # None /\ rows[k].updated = bundle[n].stamp
                /\ bundle[n].stamp \in Int /\ bundle[p].stamp \in Int
            BY <1>2, <6>1, BundleTyped DEF ImportInv
          <6>3. ~(bundle[n].stamp > bundle[p].stamp)
            BY <1>2, <2>3, <3>2, <6>2
          <6>4. before[k] # None => before[k].updated \in Int
            BY VaultStoreAssumption DEF Progress, Row
          <6> QED
            BY <6>1, <6>2, <6>3, <6>4
        <5> QED
          BY <5>1, <5>2
      <4> QED
        BY <1>2, <4>1, <4>2
    <3> QED
      BY <3>1, <3>2
  <2>5. PastDone'
    <3> SUFFICES ASSUME NEW m \in 1..p, bundle[m].id \notin changed
                 PROVE  Settled(m)'
      BY <1>3, <2>1 DEF PastDone
    <3>1. m \in 1..Len(bundle) /\ (m # p => m \in 1..at) /\ m \in Int
      BY <1>2
    <3>2. bundle[m].id \in Ids /\ bundle[m].stamp \in Int
      BY <3>1, BundleTyped DEF ImportInv
    <3>3. m # p => Settled(m)
      BY <1>2, <3>1 DEF PastDone
    <3>4. CASE bundle[m].id # i
      <4>1. rows'[bundle[m].id] = rows[bundle[m].id] /\ m # p
        BY <1>2, <2>2, <3>2, <3>4
      <4> QED
        BY <1>3, <3>3, <4>1 DEF Settled, StoredFor
    <3>5. CASE bundle[m].id = i
      <4>1. rows'[i] = StoredFor(bundle[p]) /\ p \in m..Len(bundle) /\ bundle[p].id = i
        BY <1>2, <2>3, <3>5
      <4>2. rows'[i] # None /\ rows'[i].updated = bundle[p].stamp
        BY <1>2, <4>1, BundleTyped DEF ImportInv
      <4>3. ~(bundle[m].stamp > bundle[p].stamp)
        <5>1. CASE m = p
          BY <1>2, <5>1
        <5>2. CASE m # p
          <6>1. rows[i] # None /\ (rows[i].updated > bundle[m].stamp \/ rows[i].updated = bundle[m].stamp)
            BY <3>3, <3>5, <5>2 DEF Settled
          <6>2. rows[i].updated \in Int
            BY <1>2, <6>1, RowsTyped DEF ImportInv
          <6> QED
            BY <1>2, <2>3, <3>2, <3>5, <6>1, <6>2
        <5> QED
          BY <5>1, <5>2
      <4>4. bundle[p].stamp > bundle[m].stamp \/ bundle[p].stamp = bundle[m].stamp
        BY <1>2, <3>2, <4>3
      <4> QED
        BY <1>3, <3>5, <4>1, <4>2, <4>4 DEF Settled, StoredFor
    <3> QED
      BY <3>4, <3>5
  <2> QED
    BY <1>1, <1>5, <2>4, <2>5
<1> QED
  BY <1>6, <1>7

LEMMA NextConverges == ConvergeInv /\ [Next]_vars => ConvergeInv'
<1> SUFFICES ASSUME ConvergeInv, [Next]_vars PROVE ConvergeInv'
  OBVIOUS
<1>1. ImportInv'
  BY Inductive DEF ConvergeInv
<1>2. CASE UNCHANGED vars
  BY <1>1, <1>2, OthersConverge DEF vars, import
<1>3. CASE BeginImport \/ Crash
  BY <1>1, <1>3, OthersConverge DEF BeginImport, Crash
<1>4. CASE BeginBackup \/ Backup
  BY <1>1, <1>4, OthersConverge DEF BeginBackup, Backup, Count, ReadPage, Fetch, import
<1>5. ASSUME NEW i \in Ids, Save(i) \/ Delete(i) PROVE ConvergeInv'
  <2>1. CASE Delete(i)
    BY <2>1, PutConverges DEF Delete
  <2>2. CASE Save(i)
    <3>1. PICK now \in clock..MaxClock, f \in Form \cup {None} : Put(i, [updated |-> now, form |-> f])
      BY <2>2 DEF Save
    <3>2. [updated |-> now, form |-> f] \in Row
      BY VaultStoreAssumption DEF ConvergeInv, ImportInv, ImportTyped, Row
    <3> QED
      BY <3>1, <3>2, PutConverges
  <2> QED
    BY <1>5, <2>1, <2>2
<1> QED
  BY <1>2, <1>3, <1>4, <1>5, FindConverges, WriteConverges DEF Next, Import

(* The last of a concept's newest ThoughtForms is well defined.            *)
LEMMA LatestIsLast ==
  ASSUME ImportTyped, NEW i \in Ids, InBundle(i)
  PROVE  \E n \in 1..Len(bundle) :
           /\ bundle[n] = Latest(i) /\ bundle[n].id = i
           /\ \A m \in 1..Len(bundle) : bundle[m].id = i =>
                bundle[m].stamp < bundle[n].stamp
                \/ (bundle[m].stamp = bundle[n].stamp /\ m <= n)
<1> DEFINE S == {n \in 1..Len(bundle) : bundle[n].id = i}
           later(m, n) == bundle[m].stamp > bundle[n].stamp
                          \/ (bundle[m].stamp = bundle[n].stamp /\ m > n)
           R == {q \in S \X S : later(q[1], q[2])}
           isLast(n) == \A m \in 1..Len(bundle) : bundle[m].id = i =>
                          bundle[m].stamp < bundle[n].stamp
                          \/ (bundle[m].stamp = bundle[n].stamp /\ m <= n)
           latest(f) == f.id = i /\ \E n \in DOMAIN bundle : bundle[n] = f /\ isLast(n)
<1>1. /\ DOMAIN bundle = 1..Len(bundle) /\ Len(bundle) \in Nat
      /\ \A n \in 1..Len(bundle) : bundle[n].stamp \in Int
  BY BundleTyped
<1>2. IsFiniteSet(S)
  <2>1. IsFiniteSet(1..Len(bundle))
    BY <1>1, FS_Interval
  <2>2. S \in SUBSET (1..Len(bundle))
    OBVIOUS
  <2> HIDE DEF S
  <2> QED
    BY <2>1, <2>2, FS_Subset
<1>3. \A n \in S : n \in Int /\ bundle[n].stamp \in Int
  BY <1>1
<1>4. \A m, n \in S : <<m, n>> \in R <=> later(m, n)
  OBVIOUS
<1>5. PICK n \in S : \A m \in S : ~later(m, n)
  <2>1. \A x \in S : <<x, x>> \notin R
    <3> HIDE DEF S, R
    <3> QED BY <1>3, <1>4
  <2>2. \A x, y \in S : x = y \/ <<x, y>> \in R \/ <<y, x>> \in R
    <3> HIDE DEF S, R
    <3> SUFFICES ASSUME NEW x \in S, NEW y \in S, x # y PROVE later(x, y) \/ later(y, x)
      BY <1>4
    <3>1. x \in Int /\ y \in Int /\ bundle[x].stamp \in Int /\ bundle[y].stamp \in Int
      BY <1>3
    <3> QED
      BY <3>1
  <2>3. \A x, y, z \in S : <<x, y>> \in R /\ <<y, z>> \in R => <<x, z>> \in R
    <3> HIDE DEF S, R
    <3> QED BY <1>3, <1>4
  <2>4. \A k \in 1 .. Cardinality(S) : \E x \in S : Rank(S, R, x) = k - 1
    <3> HIDE DEF S, R
    <3> QED BY <1>2, <2>1, <2>2, <2>3, Ranked
  <2>5. Cardinality(S) \in Nat /\ Cardinality(S) # 0
    <3>1. S # {}
      BY <1>1 DEF InBundle
    <3> HIDE DEF S
    <3> QED BY <1>2, <3>1, FS_CardinalityType, FS_EmptySet
  <2>6. PICK x \in S : Rank(S, R, x) = 0
    <3> HIDE DEF S, R
    <3>1. 1 \in 1 .. Cardinality(S) /\ 1 - 1 = 0
      BY <2>5
    <3> QED BY <2>4, <3>1
  <2> DEFINE first == {y \in S : <<y, x>> \in R}
  <2>7. first = {}
    <3>1. first \in SUBSET S /\ Cardinality(first) = 0
      BY <2>6 DEF Rank
    <3> HIDE DEF first, S
    <3>2. IsFiniteSet(first)
      BY <1>2, <3>1, FS_Subset
    <3> QED
      BY <3>1, <3>2, FS_EmptySet
  <2> QED
    BY <1>4, <2>7
<1>6. n \in 1..Len(bundle) /\ bundle[n].id = i
  OBVIOUS
<1>7. isLast(n)
  <2> SUFFICES ASSUME NEW m \in 1..Len(bundle), bundle[m].id = i
               PROVE  bundle[m].stamp < bundle[n].stamp
                      \/ (bundle[m].stamp = bundle[n].stamp /\ m <= n)
    OBVIOUS
  <2>1. ~later(m, n)
    BY <1>5
  <2>2. bundle[m].stamp \in Int /\ bundle[n].stamp \in Int /\ m \in Int /\ n \in Int
    BY <1>1, <1>6
  <2> HIDE DEF S
  <2> QED
    BY <2>1, <2>2
<1> HIDE DEF isLast, S, R
<1>8. \E f \in Range(bundle) : latest(f)
  BY <1>1, <1>6, <1>7 DEF Range
<1>9. latest(Latest(i))
  <2>1. Latest(i) = CHOOSE f \in Range(bundle) : latest(f)
    BY DEF Latest, isLast
  <2> HIDE DEF latest
  <2> QED
    BY <1>8, <2>1
<1>10. PICK k \in 1..Len(bundle) : bundle[k] = Latest(i) /\ isLast(k)
  BY <1>1, <1>9
<1> QED
  BY <1>9, <1>10 DEF isLast

(* A restore that ended has left every concept no server wrote as its      *)
(* bundle (sqlite-upsert.ts upsertThoughtforms) has it last, or as it was  *)
(* when that was newer, for bundles of any length and however often it was *)
(* cut off and begun again.                                                *)
THEOREM RestoreConvergesCorrect == Spec => []RestoreConverges
<1>1. ConvergeInv => RestoreConverges
  <2> SUFFICES ASSUME ConvergeInv, importer = "done", NEW i \in Ids \ changed
               PROVE  IF InBundle(i) /\ (before[i] = None \/ ~(before[i].updated > Latest(i).stamp))
                      THEN rows[i] = [updated |-> Latest(i).stamp, form |-> Latest(i)]
                      ELSE rows[i] = before[i]
    BY DEF RestoreConverges
  <2> USE DEF ConvergeInv
  <2>1. /\ at = Len(bundle) /\ DOMAIN bundle = 1..Len(bundle)
        /\ \A n \in 1..Len(bundle) :
             bundle[n].stamp \in Int /\ StoredFor(bundle[n]) # None
             /\ StoredFor(bundle[n]).updated = bundle[n].stamp
    BY BundleTyped DEF Progress, ImportInv
  <2>2. CASE ~InBundle(i)
    BY <2>1, <2>2 DEF FromBundle, InBundle
  <2>3. CASE InBundle(i)
    <3>1. PICK n \in 1..Len(bundle) :
            /\ bundle[n] = Latest(i) /\ bundle[n].id = i
            /\ \A m \in 1..Len(bundle) : bundle[m].id = i =>
                 bundle[m].stamp < bundle[n].stamp
                 \/ (bundle[m].stamp = bundle[n].stamp /\ m <= n)
      BY <2>3, LatestIsLast DEF ImportInv
    <3>2. Settled(n)
      BY <2>1, <3>1 DEF PastDone
    <3>3. CASE rows[i].updated = bundle[n].stamp
      <4>1. PICK k \in n..Len(bundle) : bundle[k].id = i /\ rows[i] = StoredFor(bundle[k])
        BY <2>1, <3>1, <3>2, <3>3 DEF Settled
      <4>2. n \in Int /\ k \in 1..Len(bundle) /\ k \in Int /\ n <= k
        OBVIOUS
      <4>3. k = n
        BY <2>1, <3>1, <3>3, <4>1, <4>2
      <4>4. rows[i] = [updated |-> Latest(i).stamp, form |-> Latest(i)]
        BY <3>1, <4>1, <4>3 DEF StoredFor
      <4>5. before[i] = None \/ ~(before[i].updated > bundle[n].stamp)
        <5>1. CASE rows[i] = before[i]
          BY <2>1, <3>3, <5>1
        <5>2. CASE rows[i] # before[i]
          <6>1. PICK m \in 1..Len(bundle) :
                  /\ bundle[m].id = i /\ rows[i] = StoredFor(bundle[m])
                  /\ before[i] = None \/ ~(before[i].updated > bundle[m].stamp)
            BY <5>2 DEF FromBundle
          <6>2. bundle[m].stamp = bundle[n].stamp
            BY <2>1, <3>3, <6>1
          <6> QED
            BY <6>1, <6>2
        <5> QED
          BY <5>1, <5>2
      <4> QED
        BY <2>3, <3>1, <4>4, <4>5
    <3>4. CASE rows[i].updated # bundle[n].stamp
      <4>1. rows[i] # None /\ rows[i].updated > bundle[n].stamp
        BY <3>1, <3>2, <3>4 DEF Settled
      <4>2. rows[i] = before[i]
        <5> SUFFICES ASSUME rows[i] # before[i] PROVE FALSE
          OBVIOUS
        <5>1. PICK m \in 1..Len(bundle) : bundle[m].id = i /\ rows[i] = StoredFor(bundle[m])
          BY DEF FromBundle
        <5> QED
          BY <2>1, <3>1, <4>1, <5>1
      <4> QED
        BY <3>1, <4>1, <4>2
    <3> QED
      BY <3>3, <3>4
  <2> QED
    BY <2>2, <2>3
<1>2. Spec => []ConvergeInv
  BY InitConverges, NextConverges, PTL DEF Spec
<1> QED
  BY <1>1, <1>2, PTL

-----------------------------------------------------------------------------
(* The list a backup reads                                                 *)

(* Counting is safe: the concepts ahead of one, and those not behind it,   *)
(* are finitely many.                                                      *)
LEMMA AheadFinite ==
  ASSUME IsFiniteSet(Stored), NEW i
  PROVE  /\ IsFiniteSet(Ahead(i)) /\ Cardinality(Ahead(i)) \in Nat
         /\ IsFiniteSet(NotBehind(i)) /\ Cardinality(NotBehind(i)) \in Nat
         /\ Cardinality(Stored) \in Nat
<1>1. Ahead(i) \in SUBSET Stored /\ NotBehind(i) \in SUBSET Stored
  BY DEF Ahead, NotBehind
<1> HIDE DEF Stored
<1> QED
  BY <1>1, FS_Subset, FS_CardinalityType

(* What the first n have at the latest, and what they may not have yet, if *)
(* no concept's updated_at straddles the cut.                              *)
LEMMA NewestCut ==
  ASSUME ImportTyped, IsFiniteSet(Stored), NEW n \in Nat, NEW first \in Newest(n),
         NEW i \in Stored
  PROVE  /\ Cardinality(Ahead(i)) >= n => i \notin first
         /\ Cardinality(NotBehind(i)) <= n => i \in first
<1>1. /\ first \in SUBSET Stored
      /\ Cardinality(first) = (IF n < Cardinality(Stored) THEN n ELSE Cardinality(Stored))
      /\ \A k \in first, j \in Stored \ first : rows[k].updated >= rows[j].updated
  BY DEF Newest
<1>2. \A j \in Stored : rows[j].updated \in Int
  BY RowsTyped DEF Stored
<1>3. /\ IsFiniteSet(first) /\ Cardinality(first) \in Nat
      /\ IsFiniteSet(Ahead(i)) /\ Cardinality(Ahead(i)) \in Nat
      /\ IsFiniteSet(NotBehind(i)) /\ Cardinality(NotBehind(i)) \in Nat
      /\ Cardinality(Stored) \in Nat
  <2>1. IsFiniteSet(first) /\ Cardinality(first) \in Nat
    <3> HIDE DEF Stored
    <3> QED BY <1>1, FS_Subset, FS_CardinalityType
  <2> QED
    BY <2>1, AheadFinite
<1>4. ASSUME Cardinality(Ahead(i)) >= n, i \in first
      PROVE  FALSE
  <2>1. Ahead(i) \in SUBSET (first \ {i})
    BY <1>1, <1>2, <1>4 DEF Ahead
  <2>2. IsFiniteSet(first \ {i}) /\ Cardinality(first \ {i}) = Cardinality(first) - 1
    BY <1>3, <1>4, FS_RemoveElement
  <2>3. Cardinality(Ahead(i)) <= Cardinality(first \ {i})
    BY <2>1, <2>2, FS_Subset
  <2> QED
    BY <1>1, <1>3, <1>4, <2>2, <2>3
<1>5. ASSUME Cardinality(NotBehind(i)) <= n, i \notin first
      PROVE  FALSE
  <2>1. i \in NotBehind(i)
    BY <1>2 DEF NotBehind
  <2>2. first \in SUBSET (NotBehind(i) \ {i})
    BY <1>1, <1>2, <1>5 DEF NotBehind
  <2>3. /\ IsFiniteSet(NotBehind(i) \ {i})
        /\ Cardinality(NotBehind(i) \ {i}) = Cardinality(NotBehind(i)) - 1
    BY <1>3, <2>1, FS_RemoveElement
  <2>4. Cardinality(first) <= Cardinality(NotBehind(i) \ {i})
    BY <2>2, <2>3, FS_Subset
  <2>5. Cardinality(NotBehind(i)) <= Cardinality(Stored)
    <3>1. NotBehind(i) \in SUBSET Stored
      BY DEF NotBehind
    <3> HIDE DEF Stored
    <3> QED BY <3>1, FS_Subset
  <2> QED
    BY <1>1, <1>3, <1>5, <2>3, <2>4, <2>5
<1> QED
  BY <1>4, <1>5

(* A write that does not leave a place to others moves nobody up.          *)
LEMMA PlacesStay ==
  ASSUME ImportTyped, ImportTyped', IsFiniteSet(Stored'),
         NEW i \in Ids, ~LeavesPlace(i), \A k \in Ids \ {i} : rows'[k] = rows[k],
         NEW k \in Stored, rows'[k] = rows[k]
  PROVE  Cardinality(Ahead(k)) <= Cardinality(Ahead(k)')
<1>1. /\ \A j \in Stored : rows[j].updated \in Int
      /\ \A j \in Stored' : rows'[j].updated \in Int
  <2>1. \A j \in Stored : rows[j].updated \in Int
    BY RowsTyped DEF Stored
  <2>2. \A j \in Stored' : rows'[j].updated \in Int
    BY VaultStoreAssumption DEF ImportTyped, Stored, Row
  <2> QED
    BY <2>1, <2>2
<1>2. ASSUME NEW j \in Ahead(k)
      PROVE  j \in Ahead(k)'
  <2>1. CASE j # i
    <3>1. rows'[j] = rows[j]
      BY <2>1 DEF Stored, Ahead
    <3> QED
      BY <1>2, <3>1 DEF Stored, Ahead
  <2>2. CASE j = i
    <3>1. j \in Stored /\ j \in Stored' /\ ~(rows'[j].updated < rows[j].updated)
      BY <2>2 DEF LeavesPlace, Stored, Ahead
    <3>2. rows[j].updated \in Int /\ rows'[j].updated \in Int /\ rows[k].updated \in Int
      BY <1>1, <3>1
    <3> QED
      BY <1>2, <3>1, <3>2 DEF Ahead
  <2> QED
    BY <2>1, <2>2
<1>3. Ahead(k) \in SUBSET (Ahead(k)')
  BY <1>2
<1>4. IsFiniteSet(Ahead(k)')
  <2>1. Ahead(k)' \in SUBSET (Stored')
    BY DEF Ahead
  <2> QED
    BY <2>1, FS_Subset
<1> HIDE DEF Ahead
<1> QED
  BY <1>3, <1>4, FS_Subset

-----------------------------------------------------------------------------
(* The steps of a backup                                                   *)

LEMMA InitAwaits == Init => BackupInv
<1> SUFFICES ASSUME Init PROVE BackupInv
  OBVIOUS
<1>1. IsFiniteSet(Stored)
  <2>1. PICK present \in SUBSET Ids :
          IsFiniteSet(present) /\ \A i \in Ids : i \notin present => rows[i] = None
    BY DEF Init
  <2>2. Stored \in SUBSET present
    BY <2>1 DEF Stored
  <2> QED
    BY <2>1, <2>2, FS_Subset
<1> QED
  BY <1>1, Initially DEF Init, BackupInv, ReaderTyped, Awaited

(* A write of one concept, by a server or by the importer.                 *)
LEMMA WriteAwaits ==
  ASSUME BackupInv, ImportInv', UNCHANGED paging,
         NEW i \in Ids, \A k \in Ids \ {i} : rows'[k] = rows[k],
         rows'[i] # rows[i] => i \in moved',
         moved \subseteq moved', ~slid' => ~slid /\ ~LeavesPlace(i)
  PROVE  BackupInv'
<1> USE DEF BackupInv
<1>1. IsFiniteSet(Stored')
  <2>1. Stored' \in SUBSET (Stored \cup {i})
    BY DEF Stored
  <2>2. IsFiniteSet(Stored \cup {i})
    BY FS_AddElement DEF ReaderTyped
  <2> QED
    BY <2>1, <2>2, FS_Subset
<1>2. ReaderTyped'
  BY <1>1 DEF ReaderTyped, paging
<1>3. Awaited'
  <2> SUFFICES ASSUME reader # "idle", ~slid', NEW k \in Ids, Untouched(k)'
               PROVE  rows'[k].form \in taken \/ k \in page \/ (Behind(k)' /\ More)
    BY DEF Awaited, More, paging
  <2>1. rows'[k] = rows[k]
    BY DEF Untouched
  <2>2. Untouched(k)
    BY <2>1 DEF Untouched, Stored, paging
  <2>3. /\ Cardinality(Ahead(k)) <= Cardinality(Ahead(k)')
        /\ Cardinality(Ahead(k)) \in Nat /\ Cardinality(Ahead(k)') \in Nat
    <3>1. Cardinality(Ahead(k)) <= Cardinality(Ahead(k)')
      BY <1>1, <2>1, <2>2, PlacesStay DEF ImportInv, Untouched
    <3>2. Cardinality(Ahead(k)) \in Nat
      BY AheadFinite DEF ReaderTyped
    <3>3. Cardinality(Ahead(k)') \in Nat
      <4>1. Ahead(k)' \in SUBSET (Stored')
        BY DEF Ahead
      <4> HIDE DEF Ahead
      <4> QED
        BY <1>1, <4>1, FS_Subset, FS_CardinalityType
    <3> QED
      BY <3>1, <3>2, <3>3
  <2>4. Behind(k) => Behind(k)'
    BY <2>3 DEF Behind, ReaderTyped, paging
  <2> QED
    BY <2>1, <2>2, <2>4 DEF Awaited
<1> QED
  BY <1>2, <1>3

(* Steps that leave the store, and what is known of it, alone.             *)
LEMMA IdleAwaits ==
  ASSUME BackupInv, ImportInv', UNCHANGED <<rows, paging, moved, slid>>
  PROVE  BackupInv'
BY DEF BackupInv, ReaderTyped, Awaited, Untouched, Behind, More, Ahead, Stored, paging

LEMMA BeginBackupAwaits ==
  ASSUME BackupInv, ImportInv', BeginBackup
  PROVE  BackupInv'
<1> USE DEF BackupInv
<1>1. UNCHANGED <<rows, offset, page, total, taken, split, grown>> /\ reader' = "list" /\ offset = 0
  BY DEF BeginBackup, ReaderTyped
<1>2. ReaderTyped'
  BY <1>1 DEF ReaderTyped, Stored, BeginBackup
<1>3. ASSUME NEW i \in Ids PROVE Behind(i)'
  <2>1. Cardinality(Ahead(i)) \in Nat
    BY AheadFinite DEF ReaderTyped
  <2> QED
    BY <1>1, <2>1 DEF Behind, Ahead, Stored
<1>4. Awaited'
  BY <1>1, <1>3 DEF Awaited, More
<1> QED
  BY <1>2, <1>4

(* The count decides nothing yet: a page is still to be read.              *)
LEMMA CountAwaits ==
  ASSUME BackupInv, ImportInv', Count
  PROVE  BackupInv'
<1> USE DEF BackupInv
<1>1. /\ UNCHANGED <<rows, offset, page, taken, moved, slid, split, grown>>
      /\ reader = "list" /\ reader' = "page" /\ total' = Cardinality(Stored)
  BY DEF Count
<1>2. total' \in Nat
  BY <1>1, AheadFinite DEF ReaderTyped
<1>3. ReaderTyped'
  BY <1>1, <1>2 DEF ReaderTyped, Stored
<1>4. Awaited'
  BY <1>1 DEF Awaited, Untouched, Behind, More, Ahead, Stored
<1> QED
  BY <1>3, <1>4

(* A page has every concept of its range, unless it ends within the        *)
(* concept's updated_at; those beyond its end are still to come, unless    *)
(* there were more than counted.                                           *)
LEMMA ReadPageAwaits ==
  ASSUME BackupInv, ImportInv', ReadPage
  PROVE  BackupInv'
<1> USE DEF BackupInv
<1>1. PICK skipped \in Newest(offset), reached \in Newest(NextOffset) :
        page' = {i \in reached \ skipped : rows[i].form # None}
  BY DEF ReadPage
<1>2. /\ reader = "page" /\ page = {}
      /\ offset' = NextOffset /\ reader' = Onwards(page', NextOffset)
      /\ split' = split \cup Split(NextOffset) /\ grown' = (Cardinality(Stored) > total)
      /\ UNCHANGED <<rows, total, taken, moved, slid>>
  BY DEF ReadPage, ReaderTyped
<1>3. offset \in Nat /\ NextOffset \in Nat
  BY VaultStoreAssumption DEF ReaderTyped, NextOffset
<1>4. reached \subseteq Stored
  BY DEF Newest
<1>5. ReaderTyped'
  <2>1. IsFiniteSet(Stored')
    BY <1>2 DEF ReaderTyped, Stored
  <2>2. page' \subseteq Ids
    BY <1>1, <1>4 DEF Stored
  <2> QED
    BY <1>2, <1>3, <2>1, <2>2 DEF ReaderTyped, Onwards
<1>6. Awaited'
  <2> SUFFICES ASSUME ~slid, NEW i \in Ids, Untouched(i), i \notin Split(NextOffset)
               PROVE  rows[i].form \in taken \/ i \in page' \/ (Behind(i)' /\ More')
    <3>1. \A i \in Ids : Untouched(i)' => Untouched(i) /\ i \notin Split(NextOffset)
      BY <1>2 DEF Untouched, Stored
    <3> QED BY <1>2, <3>1 DEF Awaited
  <2>1. i \in Stored /\ rows[i].form # None
    BY DEF Untouched
  <2>2. /\ Cardinality(Ahead(i)) \in Nat /\ Cardinality(NotBehind(i)) \in Nat
        /\ Cardinality(Stored) \in Nat
    BY AheadFinite DEF ReaderTyped
  <2>3. rows[i].form \in taken \/ Cardinality(Ahead(i)) >= offset
    BY <1>2 DEF Awaited, Behind
  <2>4. CASE Cardinality(Ahead(i)) >= offset /\ Cardinality(NotBehind(i)) <= NextOffset
    <3>1. i \notin skipped /\ i \in reached
      BY <1>3, <2>1, <2>4, NewestCut DEF ReaderTyped, ImportInv
    <3> QED
      BY <1>1, <2>1, <3>1
  <2>5. CASE ~(Cardinality(NotBehind(i)) <= NextOffset)
    <3>1. Cardinality(Ahead(i)) >= NextOffset
      BY <1>3, <2>1, <2>2, <2>5 DEF Split
    <3>2. Behind(i)'
      BY <1>2, <3>1 DEF Behind, Ahead, Stored
    <3>3. Cardinality(Ahead(i)) < Cardinality(Stored)
      <4>1. Ahead(i) \in SUBSET (Stored \ {i})
        BY RowsTyped, <2>1 DEF Ahead, ImportInv, Stored
      <4>2. /\ IsFiniteSet(Stored \ {i})
            /\ Cardinality(Stored \ {i}) = Cardinality(Stored) - 1
        BY <2>1, FS_RemoveElement DEF ReaderTyped
      <4>3. Cardinality(Ahead(i)) <= Cardinality(Stored \ {i})
        BY <4>1, <4>2, FS_Subset
      <4> QED
        BY <2>2, <4>2, <4>3
    <3>4. grown' \/ NextOffset < total
      <4>1. Cardinality(Stored) > total \/ NextOffset < total
        BY <1>3, <2>2, <3>1, <3>3 DEF ReaderTyped
      <4> QED
        BY <1>2, <4>1, Zenon
    <3>5. More'
      BY <1>2, <3>4 DEF More, Onwards
    <3> QED
      BY <3>2, <3>5
  <2> QED
    BY <2>3, <2>4, <2>5
<1> QED
  BY <1>5, <1>6

(* A concept of the page is taken, if nobody wrote it.                     *)
LEMMA FetchAwaits ==
  ASSUME BackupInv, ImportInv', NEW i \in page, Fetch(i)
  PROVE  BackupInv'
<1> USE DEF BackupInv
<1>1. /\ i \in Ids /\ page' = page \ {i}
      /\ taken' = taken \cup (IF rows[i] = None THEN {} ELSE {rows[i].form} \ {None})
      /\ reader = "fetch" /\ reader' = Onwards(page', offset)
      /\ UNCHANGED <<rows, offset, total, moved, slid, split, grown>>
  BY DEF Fetch, ReaderTyped
<1>2. taken' \subseteq Form
  <2>1. rows[i] # None => rows[i].form \in Form \cup {None}
    BY <1>1 DEF ImportInv, ImportTyped, Row
  <2> QED
    BY <1>1, <2>1 DEF ReaderTyped
<1>3. ReaderTyped'
  <2>1. IsFiniteSet(Stored')
    BY <1>1 DEF ReaderTyped, Stored
  <2> QED
    BY <1>1, <1>2, <2>1 DEF ReaderTyped, Onwards
<1>4. Awaited'
  <2> SUFFICES ASSUME ~slid, NEW k \in Ids, Untouched(k)
               PROVE  rows[k].form \in taken' \/ k \in page' \/ (Behind(k)' /\ More')
    BY <1>1 DEF Awaited, Untouched, Stored
  <2>1. rows[k].form \in taken \/ k \in page \/ (Behind(k) /\ More)
    BY <1>1 DEF Awaited
  <2>2. CASE rows[k].form \in taken \/ k \in page
    BY <1>1, <2>2 DEF Untouched, Stored
  <2>3. CASE Behind(k) /\ More
    <3>1. Behind(k)'
      BY <1>1, <2>3 DEF Behind, Ahead, Stored
    <3>2. More'
      BY <1>1, <2>3 DEF More, Onwards
    <3> QED
      BY <3>1, <3>2
  <2> QED
    BY <2>1, <2>2, <2>3
<1> QED
  BY <1>3, <1>4

LEMMA NextAwaits == BackupInv /\ [Next]_vars => BackupInv'
<1> SUFFICES ASSUME BackupInv, [Next]_vars PROVE BackupInv'
  OBVIOUS
<1>1. ImportInv'
  BY Inductive DEF BackupInv
<1>2. CASE UNCHANGED vars
  BY <1>1, <1>2, IdleAwaits DEF vars
<1>3. CASE BeginImport \/ Crash \/ Find
  BY <1>1, <1>3, IdleAwaits DEF BeginImport, Crash, Find
<1>4. CASE Update
  <2>1. Current.id \in Ids
    BY <1>4, CurrentTyped DEF BackupInv, ImportInv, Update, UpdateConcept
  <2>2. \A k \in Ids \ {Current.id} : rows'[k] = rows[k]
    BY <1>4 DEF Update, UpdateConcept, BackupInv, ImportInv, ImportTyped
  <2> QED
    BY <1>1, <1>4, <2>1, <2>2, WriteAwaits DEF Update, UpdateConcept
<1>5. CASE Insert
  <2>1. Current.id \in Ids
    BY <1>5, CurrentTyped DEF BackupInv, ImportInv, Insert, InsertConcept
  <2>2. /\ \A k \in Ids \ {Current.id} : rows'[k] = rows[k]
        /\ rows'[Current.id] # rows[Current.id] =>
             rows[Current.id] = None /\ Current.id \in moved'
        /\ moved \subseteq moved' /\ slid' = slid /\ UNCHANGED paging
    BY <1>5 DEF Insert, InsertConcept, BackupInv, ImportInv, ImportTyped
  <2>3. ~LeavesPlace(Current.id)
    <3>1. rows[Current.id] # None => rows[Current.id].updated \in Int
      BY <2>1, RowsTyped DEF BackupInv, ImportInv
    <3> QED
      BY <2>2, <3>1 DEF LeavesPlace
  <2> QED
    BY <1>1, <2>1, <2>2, <2>3, WriteAwaits
<1>6. CASE BeginBackup
  BY <1>1, <1>6, BeginBackupAwaits
<1>7. CASE Backup
  BY <1>1, <1>7, CountAwaits, ReadPageAwaits, FetchAwaits DEF Backup
<1>8. ASSUME NEW i \in Ids, Save(i) \/ Delete(i) PROVE BackupInv'
  <2>1. PICK row : Put(i, row)
    BY <1>8 DEF Save, Delete
  <2>2. \A k \in Ids \ {i} : rows'[k] = rows[k]
    BY <2>1 DEF Put, BackupInv, ImportInv, ImportTyped
  <2> QED
    BY <1>1, <2>1, <2>2, WriteAwaits DEF Put
<1> QED
  BY <1>2, <1>3, <1>4, <1>5, <1>6, <1>7, <1>8 DEF Next, Import

(* A backup that counted and read the store page by page (sqlite-upsert.ts *)
(* readThoughtformsFromDb, the adapters' listConcepts) while others wrote  *)
(* has every concept nobody wrote, for stores and pages of any size and    *)
(* whatever order equals were listed in, unless a concept was deleted or   *)
(* stamped back, more were there at the last page than its count has, or a *)
(* page ended among the concepts of its updated_at.                        *)
THEOREM UntouchedInBackupCorrect == Spec => []UntouchedInBackup
<1>1. BackupInv => UntouchedInBackup
  BY DEF BackupInv, ReaderTyped, Awaited, Untouched, More, UntouchedInBackup, Stored
<1>2. Spec => []BackupInv
  BY InitAwaits, NextAwaits, PTL DEF Spec
<1> QED
  BY <1>1, <1>2, PTL
=============================================================================
