--------------------------- MODULE Rebase_proofs ---------------------------
(***************************************************************************)
(* Proofs about Rebase: a device misses no commit up to its cursor, keeps  *)
(* the edits its options promise to keep, and agrees with every device     *)
(* that has applied the same commits.                                      *)
(***************************************************************************)
EXTENDS Rebase, FiniteSetTheorems, WellFoundedInduction, TLAPS

-----------------------------------------------------------------------------
(* The inductive invariant                                                 *)

RebaseTyped == TypeOK /\ IsFiniteSet(commits) /\ edits \in Nat

(* A cursor is of a round that is over, so what is committed from now on   *)
(* comes after it.                                                         *)
CursorsPast == \A d \in Devices : state[d] # None => state[d].created < clock

(* An export has every commit up to the time of its last one: it answered  *)
(* after that round.                                                       *)
ExportsWhole ==
  \A d \in Devices : \A r \in remote[d] :
    /\ r.created < clock
    /\ \A c \in commits : c.created <= r.created => c \in remote[d]

RebaseInv == RebaseTyped /\ CursorsPast /\ ExportsWhole /\ NothingMissed

-----------------------------------------------------------------------------
(* Finite sets and their orders                                            *)

LEMMA NatMin ==
  ASSUME NEW T \in SUBSET Nat, T # {}
  PROVE  \E n \in T : \A m \in T : n <= m
<1> DEFINE less == OpToRel(<, Nat)
<1>1. \A m, n \in T : m < n => <<m, n>> \in less
  BY DEF OpToRel
<1>2. IsWellFoundedOn(less, Nat)
  BY NatLessThanWellFounded
<1> HIDE DEF less
<1>3. \E n \in T : \A m \in T : <<m, n>> \notin less
  BY <1>2, WFMin
<1>4. PICK n \in T : \A m \in T : <<m, n>> \notin less
  BY <1>3
<1>5. \A m \in T : ~(m < n)
  BY <1>1, <1>4
<1> QED
  BY <1>5

(* An element with the fewest elements above it has none.                  *)
LEMMA Maximal ==
  ASSUME NEW S, IsFiniteSet(S), S # {}, NEW R,
         \A x \in S : <<x, x>> \notin R,
         \A x, y, z \in S : <<x, y>> \in R /\ <<y, z>> \in R => <<x, z>> \in R
  PROVE  \E x \in S : \A y \in S : <<x, y>> \notin R
<1> DEFINE above == [x \in S |-> {y \in S : <<x, y>> \in R}]
           size == [x \in S |-> Cardinality(above[x])]
           sizes == {size[x] : x \in S}
<1>1. \A x \in S : IsFiniteSet(above[x]) /\ size[x] \in Nat
  <2> SUFFICES ASSUME NEW x \in S PROVE IsFiniteSet(above[x]) /\ size[x] \in Nat
    OBVIOUS
  <2>1. above[x] \in SUBSET S
    OBVIOUS
  <2>2. IsFiniteSet(above[x])
    <3> HIDE DEF above, size
    <3> QED BY <2>1, FS_Subset
  <2> QED
    BY <2>2, FS_CardinalityType
<1>2. PICK x \in S : \A y \in S : size[x] <= size[y]
  <2>1. sizes \in SUBSET Nat /\ sizes # {}
    <3>1. \A x \in S : size[x] \in Nat
      BY <1>1
    <3> HIDE DEF size
    <3> QED BY <3>1
  <2>2. PICK n \in sizes : \A m \in sizes : n <= m
    <3> HIDE DEF sizes
    <3> QED BY <2>1, NatMin
  <2> HIDE DEF size
  <2> QED
    BY <2>2
<1>3. ASSUME NEW y \in S, <<x, y>> \in R PROVE FALSE
  <2>1. above[y] \in SUBSET above[x] /\ y \in above[x] /\ y \notin above[y]
    BY <1>3
  <2>2. IsFiniteSet(above[x])
    BY <1>1
  <2>3. /\ Cardinality(above[y]) <= Cardinality(above[x])
        /\ Cardinality(above[x]) # Cardinality(above[y])
    <3> HIDE DEF above, size, sizes
    <3> QED BY <2>1, <2>2, FS_Subset
  <2>4. /\ size[x] <= size[y] /\ size[x] \in Nat /\ size[y] \in Nat
        /\ size[x] = Cardinality(above[x]) /\ size[y] = Cardinality(above[y])
    BY <1>1, <1>2
  <2> QED
    BY <2>3, <2>4
<1> QED
  BY <1>3

-----------------------------------------------------------------------------
(* The rules of conflict.ts                                                *)

LEMMA FormTyped ==
  /\ None \notin Form
  /\ \A f \in Form : f.updated \in Int /\ f.content \in Int
  /\ \A f, g \in Form : f.updated = g.updated /\ f.content = g.content => f = g
<1>1. None \notin Form
  BY RulesAssumption
<1>2. \A f \in Form : f.updated \in Int /\ f.content \in Int
  <2>1. (\A n \in 1 .. MaxStamp : n \in Int) /\ (\A n \in Contents : n \in Int)
    BY RulesAssumption
  <2>2. \A f \in Form : f.updated \in 1 .. MaxStamp /\ f.content \in Contents
    BY DEF Form
  <2> QED
    BY <2>1, <2>2
<1>3. \A f, g \in Form : f.updated = g.updated /\ f.content = g.content => f = g
  BY DEF Form
<1> QED
  BY <1>1, <1>2, <1>3

LEMMA NewerOrders ==
  /\ \A f \in Form : ~Newer(f, f)
  /\ \A f, g, h \in Form : Newer(f, g) /\ Newer(g, h) => Newer(f, h)
  /\ \A f, g, h \in Form : ~Newer(f, g) /\ ~Newer(g, h) => ~Newer(f, h)
  /\ \A f, g \in Form : ~Newer(f, g) /\ ~Newer(g, f) => f = g
BY FormTyped DEF Newer

(* By the order of edits alone, the winner is the newer one.               *)
LEMMA WinnerIsNewest ==
  ASSUME NEW f \in Form, NEW g \in Form, NEW o \in Options
  PROVE  /\ Winner(f, g, o) \in {f, g}
         /\ o.policy = "updatedAt" /\ o.prefer = None =>
              ~Newer(f, Winner(f, g, o)) /\ ~Newer(g, Winner(f, g, o))
<1>1. /\ f.updated \in Int /\ g.updated \in Int
      /\ f.content \in Int /\ g.content \in Int
  BY FormTyped
<1>2. CASE RemoteWins(f, g, o)
  <2>1. Winner(f, g, o) = g
    BY <1>2 DEF Winner
  <2>2. o.policy = "updatedAt" /\ o.prefer = None => ~Newer(f, g)
    BY <1>1, <1>2 DEF RemoteWins, Preferred, Newer
  <2> QED
    BY <2>1, <2>2, NewerOrders
<1>3. CASE ~RemoteWins(f, g, o)
  <2>1. Winner(f, g, o) = f
    BY <1>3 DEF Winner
  <2>2. o.policy = "updatedAt" /\ o.prefer = None => ~Newer(g, f)
    BY <1>1, <1>3 DEF RemoteWins, Preferred, Newer
  <2> QED
    BY <2>1, <2>2, NewerOrders
<1> QED
  BY <1>2, <1>3

(* A set that is merged into another drops nothing of either, and by the   *)
(* order of edits alone makes nothing older.                               *)
LEMMA MergeKeeps ==
  ASSUME NEW mine \in FormSets, NEW other \in FormSets, NEW o \in Options
  PROVE  LET merged == MergeSets(mine, other, o)
         IN  /\ merged \in FormSets
             /\ \A i \in Ids : \A f \in {mine[i], other[i]} \ {None} :
                  /\ merged[i] # None
                  /\ o.policy = "updatedAt" /\ o.prefer = None => ~Newer(f, merged[i])
<1> DEFINE merged == MergeSets(mine, other, o)
<1>1. None \notin Form
  BY FormTyped
<1>2. \A k \in Ids : mine[k] \in Form \cup {None} /\ other[k] \in Form \cup {None}
  BY DEF FormSets
<1>3. \A k \in Ids : mine[k] # None /\ other[k] # None =>
        Winner(mine[k], other[k], o) \in {mine[k], other[k]}
  BY <1>2, WinnerIsNewest
<1>4. merged \in FormSets
  BY <1>2, <1>3 DEF FormSets, MergeSets
<1>5. ASSUME NEW i \in Ids, NEW f \in {mine[i], other[i]} \ {None}
      PROVE  /\ merged[i] # None
             /\ o.policy = "updatedAt" /\ o.prefer = None => ~Newer(f, merged[i])
  <2>1. CASE mine[i] # None /\ other[i] # None
    <3>1. merged[i] = Winner(mine[i], other[i], o)
      BY <2>1 DEF MergeSets
    <3>2. mine[i] \in Form /\ other[i] \in Form
      BY <1>2, <2>1
    <3> HIDE DEF merged
    <3> QED
      BY <1>1, <3>1, <3>2, WinnerIsNewest
  <2>2. CASE mine[i] = None \/ other[i] = None
    <3>1. merged[i] = f /\ f \in Form
      BY <1>2, <2>2 DEF MergeSets
    <3> QED
      BY <1>1, <3>1, NewerOrders
  <2> QED
    BY <2>1, <2>2
<1> QED
  BY <1>4, <1>5

-----------------------------------------------------------------------------
(* The rules of rebase.ts                                                  *)

LEMMA SkewIsNatural == \A o \in Options : o.skew \in Nat
BY DEF Options

LEMMA CursorTyped ==
  /\ None \notin Cursor
  /\ \A c \in Commit \cup Cursor : c.created \in Int /\ c.id \in Int
<1>1. None \notin Cursor
  BY RulesAssumption
<1>2. \A c \in Commit \cup Cursor : c.created \in Int /\ c.id \in Int
  <2>1. \A n \in CommitIds : n \in Int
    BY RulesAssumption
  <2>2. \A c \in Commit : c.created \in Int /\ c.id \in Int
    BY <2>1 DEF Commit
  <2>3. \A c \in Cursor : c.created \in Int /\ c.id \in Int
    BY <2>1 DEF Cursor
  <2> QED
    BY <2>2, <2>3
<1> QED
  BY <1>1, <1>2

(* The cursor after a rebase is that of a commit, which nothing applied is *)
(* after.                                                                  *)
LEMMA CursorIsLast ==
  ASSUME NEW S, S \subseteq Commit, IsFiniteSet(S), \A c, d \in S : c.id = d.id => c = d,
         NEW cursor, New(S, cursor) # {}
  PROVE  \E last \in New(S, cursor) :
           /\ NextCursor(S, cursor) = [created |-> last.created, id |-> last.id]
           /\ \A d \in New(S, cursor) : d = last \/ Later(last, d)
<1> DEFINE N == New(S, cursor)
           above == {p \in N \X N : Later(p[2], p[1])}
           isLast(c) == \A d \in N : d = c \/ Later(c, d)
           last == CHOOSE c \in N : isLast(c)
<1>1. N \in SUBSET S
  BY DEF New
<1>2. IsFiniteSet(N)
  <2> HIDE DEF N
  <2> QED BY <1>1, FS_Subset
<1>3. \A c \in N : c.created \in Int /\ c.id \in Int
  BY <1>1, CursorTyped
<1>4. \A c, d \in N : <<c, d>> \in above <=> Later(d, c)
  OBVIOUS
<1>5. \A c, d \in N : c.id = d.id => c = d
  BY <1>1
<1>6. PICK c \in N : \A d \in N : <<c, d>> \notin above
  <2>1. \A x \in N : <<x, x>> \notin above
    BY <1>3, <1>4 DEF Later
  <2>2. \A x, y, z \in N : <<x, y>> \in above /\ <<y, z>> \in above => <<x, z>> \in above
    <3> HIDE DEF above, N
    <3> QED BY <1>3, <1>4 DEF Later
  <2> HIDE DEF above, N
  <2>3. N # {}
    BY DEF N
  <2> QED
    BY <1>2, <2>1, <2>2, <2>3, Maximal
<1>7. isLast(c)
  <2> SUFFICES ASSUME NEW d \in N, d # c PROVE Later(c, d)
    OBVIOUS
  <2>1. ~Later(d, c) /\ d.id # c.id
    BY <1>4, <1>5, <1>6
  <2> HIDE DEF above, N
  <2> QED BY <1>3, <2>1 DEF Later
<1>8. last \in N /\ isLast(last)
  <2> HIDE DEF N, isLast
  <2> QED BY <1>7
<1>9. NextCursor(S, cursor) = [created |-> last.created, id |-> last.id]
  BY DEF NextCursor
<1> QED
  BY <1>8, <1>9

(* What a rebase merges in has, of every ThoughtForm the new commits have, *)
(* a form that is as new as any of them.                                   *)
LEMMA DeltaIsNewest ==
  ASSUME NEW S, S \subseteq Commit, IsFiniteSet(S), NEW cursor
  PROVE  LET delta == Delta(S, cursor)
         IN  /\ delta \in FormSets
             /\ \A c \in New(S, cursor), i \in Ids :
                  c.forms[i] # None => delta[i] # None /\ ~Newer(c.forms[i], delta[i])
<1> DEFINE N == New(S, cursor)
           delta == Delta(S, cursor)
<1>1. N \in SUBSET S /\ \A c \in N : c.forms \in FormSets
  BY DEF New, Commit
<1>2. IsFiniteSet(N)
  <2> HIDE DEF N
  <2> QED BY <1>1, FS_Subset
<1>3. ASSUME NEW i \in Ids
      PROVE  /\ delta[i] \in Form \cup {None}
             /\ \A c \in N : c.forms[i] # None => delta[i] # None /\ ~Newer(c.forms[i], delta[i])
  <2> DEFINE H == {c \in N : c.forms[i] # None}
             seen == FormsOf(N, i)
             above == {p \in H \X H : Newer(p[2].forms[i], p[1].forms[i])}
             newest(f) == \A g \in seen : ~Newer(g, f)
  <2>1. seen = {c.forms[i] : c \in H}
    BY DEF FormsOf
  <2>2. \A c \in H : c.forms[i] \in Form
    BY <1>1 DEF FormSets
  <2>3. delta[i] = IF seen = {} THEN None ELSE CHOOSE f \in seen : newest(f)
    BY DEF Delta
  <2>4. CASE H = {}
    BY <2>1, <2>3, <2>4
  <2>5. CASE H # {}
    <3>1. IsFiniteSet(H)
      <4>1. H \in SUBSET N
        OBVIOUS
      <4> HIDE DEF H, N
      <4> QED BY <1>2, <4>1, FS_Subset
    <3>2. \A c, d \in H : <<c, d>> \in above <=> Newer(d.forms[i], c.forms[i])
      OBVIOUS
    <3>3. \E c \in H : \A d \in H : <<c, d>> \notin above
      <4> HIDE DEF H, above, N
      <4>1. \A x \in H : <<x, x>> \notin above
        BY <2>2, <3>2, NewerOrders
      <4>2. \A x, y, z \in H : <<x, y>> \in above /\ <<y, z>> \in above => <<x, z>> \in above
        BY <2>2, <3>2, NewerOrders
      <4> QED
        BY <2>5, <3>1, <4>1, <4>2, Maximal
    <3> HIDE DEF H, above, N, delta
    <3>4. \E f \in seen : newest(f)
      <4>1. PICK c \in H : \A d \in H : <<c, d>> \notin above
        BY <3>3
      <4>2. c.forms[i] \in seen
        BY <2>1
      <4>3. ASSUME NEW g \in seen PROVE ~Newer(g, c.forms[i])
        BY <2>1, <3>2, <4>1
      <4> QED
        BY <4>2, <4>3
    <3>5. seen # {} /\ seen \subseteq Form
      BY <2>1, <2>2, <2>5
    <3> HIDE DEF seen, newest
    <3>6. delta[i] \in seen /\ newest(delta[i])
      BY <2>3, <3>4, <3>5
    <3>7. \A c \in N : c.forms[i] # None => c.forms[i] \in seen
      BY <2>1 DEF H
    <3> QED
      BY <3>5, <3>6, <3>7, FormTyped DEF newest
  <2> QED
    BY <2>4, <2>5
<1>4. delta = [i \in Ids |-> delta[i]]
  BY DEF Delta
<1>5. delta \in FormSets
  <2> HIDE DEF delta
  <2> QED BY <1>3, <1>4 DEF FormSets
<1> QED
  BY <1>3, <1>5

-----------------------------------------------------------------------------
(* The steps                                                               *)

(* A step that makes no file lose a form, or a plain device's older, and   *)
(* lets a device pass only commits it has now.                             *)
Has(d, c) == \A i \in Ids : c.forms[i] # None =>
               file[d][i] # None /\ (Plain(d) => ~Newer(c.forms[i], file[d][i]))

FilesGrow ==
  \A d \in Devices, i \in Ids : file[d][i] # None =>
    file'[d][i] # None /\ (Plain(d) => ~Newer(file[d][i], file'[d][i]))

LEMMA NothingMissedStays ==
  ASSUME RebaseTyped, RebaseTyped', NothingMissed, FilesGrow,
         \A d \in Devices : \A c \in Applied(d)' : c \in Applied(d) \/ Has(d, c)'
  PROVE  NothingMissed'
<1> SUFFICES ASSUME NEW d \in Devices, NEW c \in Applied(d)', NEW i \in Ids, c.forms[i] # None
             PROVE  file'[d][i] # None /\ (Plain(d) => ~Newer(c.forms[i], file'[d][i]))
  BY DEF NothingMissed, Plain
<1>1. CASE Has(d, c)'
  BY <1>1 DEF Has, Plain
<1>2. CASE c \in Applied(d)
  <2>1. file[d][i] # None /\ (Plain(d) => ~Newer(c.forms[i], file[d][i]))
    BY <1>2 DEF NothingMissed
  <2>2. file'[d][i] # None /\ (Plain(d) => ~Newer(file[d][i], file'[d][i]))
    BY <2>1 DEF FilesGrow
  <2>3. /\ c.forms[i] \in Form /\ file[d][i] \in Form /\ file'[d][i] \in Form
    <3>1. c \in Commit
      BY <1>2 DEF Applied, RebaseTyped, TypeOK
    <3>2. c.forms \in FormSets /\ file[d] \in FormSets /\ file'[d] \in FormSets
      BY <3>1 DEF RebaseTyped, TypeOK, Commit
    <3> QED
      BY <2>1, <2>2, <3>2 DEF FormSets
  <2> QED
    BY <2>1, <2>2, <2>3, NewerOrders
<1> QED
  BY <1>1, <1>2

LEMMA InitKeeps == Init => RebaseInv
<1> SUFFICES ASSUME Init PROVE RebaseInv
  OBVIOUS
<1>1. RebaseTyped
  <2>1. IsFiniteSet({})
    BY FS_EmptySet
  <2> QED
    BY <2>1 DEF Init, RebaseTyped, TypeOK, Nothing, FormSets
<1>2. CursorsPast /\ ExportsWhole
  BY DEF Init, CursorsPast, ExportsWhole
<1>3. NothingMissed
  BY DEF Init, NothingMissed, Applied
<1> QED
  BY <1>1, <1>2, <1>3 DEF RebaseInv

(* An edit is later than what it edits.                                    *)
LEMMA EditKeeps ==
  ASSUME RebaseInv, NEW d \in Devices, NEW i \in Ids, Edit(d, i)
  PROVE  RebaseInv'
<1> USE DEF RebaseInv
<1>1. PICK f \in Form :
        /\ IF file[d][i] = None THEN TRUE ELSE f.updated > file[d][i].updated
        /\ file' = [file EXCEPT ![d][i] = f]
  BY DEF Edit
<1>2. file \in [Devices -> FormSets]
  BY DEF RebaseTyped, TypeOK
<1>3. file' \in [Devices -> FormSets]
  BY <1>1, <1>2 DEF FormSets
<1>4. RebaseTyped'
  BY <1>3 DEF RebaseTyped, TypeOK, Edit
<1>5. CursorsPast' /\ ExportsWhole'
  BY DEF CursorsPast, ExportsWhole, Edit
<1>6. FilesGrow
  <2> SUFFICES ASSUME NEW e \in Devices, NEW k \in Ids, file[e][k] # None
               PROVE  file'[e][k] # None /\ (Plain(e) => ~Newer(file[e][k], file'[e][k]))
    BY DEF FilesGrow
  <2>1. file[e][k] \in Form
    BY <1>2 DEF FormSets
  <2>2. CASE e = d /\ k = i
    <3>1. file'[e][k] = f /\ f.updated > file[e][k].updated
      BY <1>1, <1>2, <2>2 DEF FormSets
    <3> QED
      BY <2>1, <3>1, FormTyped DEF Newer
  <2>3. CASE ~(e = d /\ k = i)
    <3>1. file'[e][k] = file[e][k]
      BY <1>1, <1>2, <2>3 DEF FormSets
    <3> QED
      BY <2>1, <3>1, NewerOrders
  <2> QED
    BY <2>2, <2>3
<1>7. \A e \in Devices : Applied(e)' = Applied(e)
  BY DEF Edit, Applied
<1>8. NothingMissed'
  BY <1>4, <1>6, <1>7, NothingMissedStays
<1> QED
  BY <1>4, <1>5, <1>8

(* Steps that change no file.                                              *)
LEMMA SameFilesGrow ==
  ASSUME RebaseTyped, UNCHANGED file
  PROVE  FilesGrow
<1>1. \A d \in Devices, i \in Ids : file[d][i] # None => file[d][i] \in Form
  BY DEF RebaseTyped, TypeOK, FormSets
<1> QED
  BY <1>1, NewerOrders DEF FilesGrow

(* A commit is of the round that is not over yet: no cursor has passed it, *)
(* and no export has a later one.                                          *)
LEMMA BackUpKeeps ==
  ASSUME RebaseInv, NEW d \in Devices, BackUp(d)
  PROVE  RebaseInv'
<1> USE DEF RebaseInv
<1>1. PICK id \in CommitIds :
        /\ \A c \in commits : c.id # id
        /\ commits' = commits \cup {[created |-> clock, id |-> id, forms |-> file[d]]}
  BY DEF BackUp
<1> DEFINE new == [created |-> clock, id |-> id, forms |-> file[d]]
<1>2. clock \in Nat \ {0} /\ clock \in Int /\ file[d] \in FormSets
  BY DEF RebaseTyped, TypeOK
<1>3. new \in Commit /\ new.id = id /\ new.created = clock
  BY <1>2 DEF Commit
<1>4. RebaseTyped'
  <2> HIDE DEF new
  <2>1. commits' = commits \cup {new}
    BY <1>1 DEF new
  <2>2. IsFiniteSet(commits')
    BY <2>1, FS_AddElement DEF RebaseTyped
  <2>3. commits' \subseteq Commit /\ \A b, c \in commits' : b.id = c.id => b = c
    BY <1>1, <1>3, <2>1 DEF RebaseTyped, TypeOK
  <2>4. \A c \in commits' : c.created <= clock'
    BY <1>2, <1>3, <2>1 DEF RebaseTyped, TypeOK, BackUp
  <2>5. remote' \in [Devices -> SUBSET commits']
    BY <2>1 DEF RebaseTyped, TypeOK, BackUp
  <2> QED
    BY <2>2, <2>3, <2>4, <2>5 DEF RebaseTyped, TypeOK, BackUp, counters
<1>5. CursorsPast'
  BY DEF CursorsPast, BackUp
<1>6. ExportsWhole'
  <2> SUFFICES ASSUME NEW e \in Devices, NEW r \in remote[e], NEW c \in commits \cup {new}
               PROVE  r.created < clock /\ (c.created <= r.created => c \in remote[e])
    BY <1>1 DEF ExportsWhole, BackUp
  <2>1. r.created < clock /\ r.created \in Int
    BY CursorTyped DEF ExportsWhole, RebaseTyped, TypeOK
  <2>2. CASE c = new
    BY <1>2, <1>3, <2>1, <2>2
  <2>3. CASE c \in commits
    BY <2>1, <2>3 DEF ExportsWhole
  <2> QED
    BY <2>2, <2>3
<1>7. ASSUME NEW e \in Devices, NEW c \in Applied(e)' PROVE c \in Applied(e)
  <2>1. c \in commits \cup {new} /\ ~After(c, state[e])
    BY <1>1, <1>7 DEF Applied, BackUp
  <2>2. CASE c = new
    <3>1. state[e] # None /\ ~Later(new, state[e])
      BY <2>1, <2>2 DEF After
    <3>2. state[e].created < clock /\ state[e].created \in Int
      BY <3>1, CursorTyped DEF CursorsPast, RebaseTyped, TypeOK
    <3> QED
      BY <1>2, <1>3, <3>1, <3>2 DEF Later
  <2> QED
    BY <2>1, <2>2 DEF Applied
<1>8. NothingMissed'
  BY <1>4, <1>7, SameFilesGrow, NothingMissedStays DEF BackUp
<1> QED
  BY <1>4, <1>5, <1>6, <1>8

LEMMA TickKeeps ==
  ASSUME RebaseInv, Tick
  PROVE  RebaseInv'
<1> USE DEF RebaseInv
<1>1. clock \in Nat \ {0} /\ clock' = clock + 1
  BY DEF RebaseTyped, TypeOK, Tick
<1>2. \A c \in commits : c.created \in Int
  BY CursorTyped DEF RebaseTyped, TypeOK
<1>3. \A d \in Devices : state[d] # None => state[d].created \in Int
  BY CursorTyped DEF RebaseTyped, TypeOK
<1>4. RebaseTyped'
  BY <1>1, <1>2 DEF RebaseTyped, TypeOK, Tick, counters
<1>5. CursorsPast'
  BY <1>1, <1>3 DEF CursorsPast, Tick
<1>6. ExportsWhole'
  <2>1. \A d \in Devices : remote[d] \subseteq commits
    BY DEF RebaseTyped, TypeOK
  <2> QED
    BY <1>1, <1>2, <2>1 DEF ExportsWhole, Tick
<1>7. \A d \in Devices : Applied(d)' = Applied(d)
  BY DEF Tick, Applied
<1>8. NothingMissed'
  BY <1>4, <1>7, SameFilesGrow, NothingMissedStays DEF Tick
<1> QED
  BY <1>4, <1>5, <1>6, <1>8

LEMMA ExportKeeps ==
  ASSUME RebaseInv, NEW d \in Devices, Export(d)
  PROVE  RebaseInv'
<1> USE DEF RebaseInv
<1>1. Listed \subseteq commits
  BY DEF Listed
<1>2. RebaseTyped'
  BY <1>1 DEF RebaseTyped, TypeOK, Export, counters
<1>3. CursorsPast'
  BY DEF CursorsPast, Export
<1>4. ExportsWhole'
  <2>1. \A c \in commits : c.created \in Int
    BY CursorTyped DEF RebaseTyped, TypeOK
  <2>2. clock \in Int
    BY DEF RebaseTyped, TypeOK
  <2>3. \A r \in Listed : r.created < clock /\ \A c \in commits : c.created <= r.created => c \in Listed
    BY <2>1, <2>2 DEF Listed
  <2>4. \A e \in Devices : remote'[e] = IF e = d THEN Listed ELSE remote[e]
    BY DEF Export, RebaseTyped, TypeOK
  <2> QED
    BY <2>3, <2>4 DEF ExportsWhole, Export
<1>5. \A e \in Devices : Applied(e)' = Applied(e)
  BY DEF Export, Applied
<1>6. NothingMissed'
  BY <1>2, <1>5, SameFilesGrow, NothingMissedStays DEF Export
<1> QED
  BY <1>2, <1>3, <1>4, <1>6

(* A merge of another set into a file.                                     *)
LEMMA MergedFilesGrow ==
  ASSUME RebaseTyped, NEW d \in Devices, NEW set \in FormSets,
         file' = [file EXCEPT ![d] = MergeSets(@, set, OptionsOf[d])]
  PROVE  /\ FilesGrow
         /\ file' \in [Devices -> FormSets]
         /\ \A i \in Ids : set[i] # None =>
              file'[d][i] # None /\ (Plain(d) => ~Newer(set[i], file'[d][i]))
<1> DEFINE merged == MergeSets(file[d], set, OptionsOf[d])
<1>1. file \in [Devices -> FormSets] /\ OptionsOf[d] \in Options
  BY RebaseAssumption DEF RebaseTyped, TypeOK
<1>2. file[d] \in FormSets
  BY <1>1
<1>3. \A e \in Devices : file'[e] = IF e = d THEN merged ELSE file[e]
  BY <1>1
<1> HIDE DEF merged
<1>4. /\ merged \in FormSets
      /\ \A i \in Ids : \A f \in {file[d][i], set[i]} \ {None} :
           merged[i] # None /\ (Plain(d) => ~Newer(f, merged[i]))
  BY <1>1, <1>2, MergeKeeps DEF merged, Plain
<1>5. file' \in [Devices -> FormSets]
  BY <1>1, <1>3, <1>4
<1>6. FilesGrow
  <2> SUFFICES ASSUME NEW e \in Devices, NEW i \in Ids, file[e][i] # None
               PROVE  file'[e][i] # None /\ (Plain(e) => ~Newer(file[e][i], file'[e][i]))
    BY DEF FilesGrow
  <2>1. CASE e = d
    BY <1>3, <1>4, <2>1
  <2>2. CASE e # d
    <3>1. file'[e] = file[e] /\ file[e][i] \in Form
      BY <1>1, <1>3, <2>2 DEF FormSets
    <3> QED
      BY <3>1, NewerOrders
  <2> QED
    BY <2>1, <2>2
<1> QED
  BY <1>3, <1>4, <1>5, <1>6

(* A rebase passes commits it has applied, or had passed before: those     *)
(* that are not in the export are after all that are.                      *)
LEMMA RunRebaseKeeps ==
  ASSUME RebaseInv, NEW d \in Devices, RunRebase(d)
  PROVE  RebaseInv'
<1> USE DEF RebaseInv
<1> DEFINE S == remote[d]
           delta == Delta(S, state[d])
<1>1. /\ S \subseteq commits /\ S \subseteq Commit /\ IsFiniteSet(S)
      /\ \A b, c \in S : b.id = c.id => b = c
  <2>1. S \in SUBSET commits /\ IsFiniteSet(commits)
    BY DEF RebaseTyped, TypeOK
  <2>2. IsFiniteSet(S)
    <3> HIDE DEF S
    <3> QED BY <2>1, FS_Subset
  <2> QED
    BY <2>1, <2>2 DEF RebaseTyped, TypeOK
<1>2. PICK last \in New(S, state[d]) :
        /\ NextCursor(S, state[d]) = [created |-> last.created, id |-> last.id]
        /\ \A c \in New(S, state[d]) : c = last \/ Later(last, c)
  <2>1. New(S, state[d]) # {}
    BY DEF RunRebase
  <2> HIDE DEF S
  <2> QED
    BY <1>1, <2>1, CursorIsLast
<1> DEFINE cursor == [created |-> last.created, id |-> last.id]
<1>3. last \in S /\ last \in Commit /\ cursor \in Cursor
  <2>1. last \in S /\ last \in Commit
    BY <1>1, <1>2 DEF New
  <2> QED
    BY <2>1 DEF Commit, Cursor
<1>4. /\ delta \in FormSets
      /\ \A c \in New(S, state[d]), i \in Ids :
           c.forms[i] # None => delta[i] # None /\ ~Newer(c.forms[i], delta[i])
  <2> HIDE DEF S
  <2> QED BY <1>1, DeltaIsNewest
<1>5. file' = [file EXCEPT ![d] = MergeSets(@, delta, OptionsOf[d])]
  BY DEF RunRebase, Rebased
<1> HIDE DEF delta
<1>6. /\ FilesGrow
      /\ file' \in [Devices -> FormSets]
      /\ \A i \in Ids : delta[i] # None =>
           file'[d][i] # None /\ (Plain(d) => ~Newer(delta[i], file'[d][i]))
  BY <1>4, <1>5, MergedFilesGrow
<1>7. \/ state' = [state EXCEPT ![d] = cursor]
      \/ state' = state
  BY <1>2 DEF RunRebase
<1>8. state \in [Devices -> Cursor \cup {None}]
  BY DEF RebaseTyped, TypeOK
<1>9. \A e \in Devices : state'[e] = state[e] \/ (e = d /\ state'[e] = cursor)
  BY <1>7, <1>8
<1>10. RebaseTyped'
  <2>1. state' \in [Devices -> Cursor \cup {None}]
    BY <1>3, <1>7, <1>8
  <2> QED
    BY <1>6, <2>1 DEF RebaseTyped, TypeOK, RunRebase
<1>11. CursorsPast'
  <2>1. last.created < clock
    BY <1>3 DEF ExportsWhole
  <2> QED
    BY <1>9, <2>1 DEF CursorsPast, RunRebase
<1>12. ExportsWhole'
  BY DEF ExportsWhole, RunRebase
<1>13. ASSUME NEW e \in Devices, NEW c \in Applied(e)'
       PROVE  c \in Applied(e) \/ Has(e, c)'
  <2>1. c \in commits /\ ~After(c, state'[e])
    BY <1>13 DEF Applied, RunRebase, After, Later
  <2>2. CASE state'[e] = state[e]
    BY <2>1, <2>2 DEF Applied
  <2>3. CASE e = d /\ state'[e] = cursor
    <3>1. ~Later(c, cursor)
      <4>1. cursor # None
        BY <1>3, CursorTyped
      <4> QED
        BY <2>1, <2>3, <4>1 DEF After
    <3>2. c.created <= last.created
      <4>1. /\ c.created \in Int /\ last.created \in Int
            /\ cursor.created = last.created
        BY <1>3, <2>1, CursorTyped DEF RebaseTyped, TypeOK
      <4> HIDE DEF cursor
      <4> QED
        BY <3>1, <4>1 DEF Later
    <3>3. c \in S
      BY <1>3, <2>1, <3>2 DEF ExportsWhole
    <3>4. CASE After(c, state[d])
      <4>1. c \in New(S, state[d])
        BY <3>3, <3>4 DEF New
      <4>2. \A i \in Ids : c.forms[i] # None =>
              file'[d][i] # None /\ (Plain(d) => ~Newer(c.forms[i], file'[d][i]))
        <5> SUFFICES ASSUME NEW i \in Ids, c.forms[i] # None
                     PROVE  file'[d][i] # None /\ (Plain(d) => ~Newer(c.forms[i], file'[d][i]))
          OBVIOUS
        <5>1. delta[i] # None /\ ~Newer(c.forms[i], delta[i])
          BY <1>4, <4>1
        <5>2. file'[d][i] # None /\ (Plain(d) => ~Newer(delta[i], file'[d][i]))
          BY <1>6, <5>1
        <5>3. /\ c.forms \in FormSets /\ file'[d] \in FormSets
          BY <1>6, <2>1 DEF RebaseTyped, TypeOK, Commit
        <5>4. c.forms[i] \in Form /\ delta[i] \in Form /\ file'[d][i] \in Form
          BY <1>4, <5>1, <5>2, <5>3 DEF FormSets
        <5> QED
          BY <5>1, <5>2, <5>4, NewerOrders
      <4> QED
        BY <2>3, <4>2 DEF Has, Plain
    <3>5. CASE ~After(c, state[d])
      BY <2>1, <2>3, <3>5 DEF Applied
    <3> QED
      BY <3>4, <3>5
  <2> QED
    BY <1>9, <2>2, <2>3
<1>14. NothingMissed'
  BY <1>6, <1>10, <1>13, NothingMissedStays
<1> QED
  BY <1>10, <1>11, <1>12, <1>14

LEMMA LoseStateKeeps ==
  ASSUME RebaseInv, NEW d \in Devices, LoseState(d)
  PROVE  RebaseInv'
<1> USE DEF RebaseInv
<1>1. RebaseTyped'
  BY DEF RebaseTyped, TypeOK, LoseState
<1>2. \A e \in Devices : state'[e] = IF e = d THEN None ELSE state[e]
  BY DEF RebaseTyped, TypeOK, LoseState
<1>3. CursorsPast' /\ ExportsWhole'
  BY <1>2 DEF CursorsPast, ExportsWhole, LoseState
<1>4. \A e \in Devices : Applied(e)' \subseteq Applied(e)
  BY <1>2 DEF Applied, After, LoseState
<1>5. NothingMissed'
  BY <1>1, <1>4, SameFilesGrow, NothingMissedStays DEF LoseState
<1> QED
  BY <1>1, <1>3, <1>5

LEMMA RunMergeKeeps ==
  ASSUME RebaseInv, NEW d \in Devices, NEW e \in Devices, RunMerge(d, e)
  PROVE  RebaseInv'
<1> USE DEF RebaseInv
<1>1. file[e] \in FormSets
  BY DEF RebaseTyped, TypeOK
<1>2. FilesGrow /\ file' \in [Devices -> FormSets]
  BY <1>1, MergedFilesGrow DEF RunMerge
<1>3. RebaseTyped'
  BY <1>2 DEF RebaseTyped, TypeOK, RunMerge
<1>4. CursorsPast' /\ ExportsWhole'
  BY DEF CursorsPast, ExportsWhole, RunMerge
<1>5. \A a \in Devices : Applied(a)' = Applied(a)
  BY DEF RunMerge, Applied
<1>6. NothingMissed'
  BY <1>2, <1>3, <1>5, NothingMissedStays
<1> QED
  BY <1>3, <1>4, <1>6

LEMMA NextKeeps == RebaseInv /\ [Next]_vars => RebaseInv'
<1> SUFFICES ASSUME RebaseInv, [Next]_vars PROVE RebaseInv'
  OBVIOUS
<1>1. ASSUME NEW d \in Devices, NEW i \in Ids, Edit(d, i) PROVE RebaseInv'
  BY <1>1, EditKeeps
<1>2. ASSUME NEW d \in Devices, BackUp(d) PROVE RebaseInv'
  BY <1>2, BackUpKeeps
<1>3. ASSUME NEW d \in Devices, Export(d) PROVE RebaseInv'
  BY <1>3, ExportKeeps
<1>4. ASSUME NEW d \in Devices, RunRebase(d) PROVE RebaseInv'
  BY <1>4, RunRebaseKeeps
<1>5. ASSUME NEW d \in Devices, LoseState(d) PROVE RebaseInv'
  BY <1>5, LoseStateKeeps
<1>6. ASSUME NEW d \in Devices, NEW e \in Devices, RunMerge(d, e) PROVE RebaseInv'
  BY <1>6, RunMergeKeeps
<1>7. CASE Tick
  BY <1>7, TickKeeps
<1>8. CASE UNCHANGED vars
  BY <1>8 DEF vars, counters, RebaseInv, RebaseTyped, TypeOK, CursorsPast, ExportsWhole,
              NothingMissed, Applied
<1> QED
  BY <1>1, <1>2, <1>3, <1>4, <1>5, <1>6, <1>7, <1>8 DEF Next

-----------------------------------------------------------------------------
(* The theorems                                                            *)

(* The inductive invariant of rebasing.                                    *)
THEOREM RebaseInvCorrect == Spec => []RebaseInv
BY InitKeeps, NextKeeps, PTL DEF Spec

(* Every ThoughtForm of the commits up to a device's cursor (rebase.ts     *)
(* commitsAfter) is in its file, as committed or in a later edit where the *)
(* order of edits decides: no commit is passed for an equal time, a late   *)
(* backup, or a run that failed between its output and its state.          *)
THEOREM NothingMissedCorrect == Spec => []NothingMissed
<1>1. RebaseInv => NothingMissed
  BY DEF RebaseInv
<1> QED
  BY <1>1, RebaseInvCorrect, PTL

(* Devices that go by the order of edits (conflict.ts resolveConflict),    *)
(* have applied the same commits and have nothing to commit, agree.        *)
THEOREM SettledAgreeCorrect == Spec => []SettledAgree
<1>1. RebaseInv => SettledAgree
  <2> USE DEF RebaseInv
  <2> SUFFICES ASSUME RebaseInv, NEW d \in Devices, NEW e \in Devices, Settled(d), Settled(e),
                      state[d] = state[e]
               PROVE  file[d] = file[e]
    BY DEF SettledAgree
  <2>1. Applied(d) = Applied(e)
    BY DEF Applied
  <2>2. file[d] \in FormSets /\ file[e] \in FormSets
    BY DEF RebaseTyped, TypeOK
  <2>3. \A a \in {d, e}, b \in {d, e}, i \in Ids : file[a][i] # None =>
          file[b][i] # None /\ ~Newer(file[a][i], file[b][i])
    <3> SUFFICES ASSUME NEW a \in {d, e}, NEW b \in {d, e}, NEW i \in Ids, file[a][i] # None
                 PROVE  file[b][i] # None /\ ~Newer(file[a][i], file[b][i])
      OBVIOUS
    <3>1. PICK c \in Applied(b) : c.forms[i] = file[a][i]
      BY <2>1 DEF Settled
    <3>2. Plain(b)
      BY DEF Settled
    <3> QED
      BY <3>1, <3>2 DEF NothingMissed
  <2>4. \A i \in Ids : file[d][i] = file[e][i]
    <3> SUFFICES ASSUME NEW i \in Ids PROVE file[d][i] = file[e][i]
      OBVIOUS
    <3>1. file[d][i] \in Form \cup {None} /\ file[e][i] \in Form \cup {None}
      BY <2>2 DEF FormSets
    <3>2. (file[d][i] = None) <=> (file[e][i] = None)
      BY <2>3
    <3> QED
      BY <2>3, <3>1, <3>2, NewerOrders
  <2> QED
    BY <2>2, <2>4 DEF FormSets
<1> QED
  BY <1>1, RebaseInvCorrect, PTL

(* What a merge makes of a form of the file is what the options promise.   *)
LEMMA WinnerKeeps ==
  ASSUME NEW d \in Devices, NEW f \in Form, NEW g \in Form
  PROVE  Keeps(d, f, Winner(f, g, OptionsOf[d]))
<1> DEFINE o == OptionsOf[d]
<1>1. o \in Options
  BY RebaseAssumption
<1>2. /\ o.policy \in {"updatedAt", "preferLocal", "preferRemote"}
      /\ o.prefer \in {"local", "onchain", None} /\ o.skew \in Int
  BY <1>1 DEF Options
<1>3. /\ f.updated \in Int /\ g.updated \in Int
      /\ f.content \in Int /\ g.content \in Int
  BY FormTyped
<1>4. CASE ~RemoteWins(f, g, o)
  BY <1>4 DEF Winner, Keeps
<1>5. CASE RemoteWins(f, g, o)
  <2>1. Winner(f, g, o) = g
    BY <1>5 DEF Winner
  <2>2. CASE f.content = g.content
    BY <1>5, <2>1, <2>2 DEF RemoteWins, Keeps
  <2>3. CASE f.content # g.content /\ o.policy = "preferRemote"
    BY <2>1, <2>3 DEF Keeps
  <2>4. CASE f.content # g.content /\ o.policy = "updatedAt"
    <3>1. IF Preferred(f, g, o) THEN o.prefer = "onchain" ELSE Newer(g, f)
      BY <1>5, <2>4 DEF RemoteWins
    <3>2. CASE o.prefer = "onchain"
      BY <2>1, <2>4, <3>2 DEF Keeps
    <3>3. CASE o.prefer = None
      BY <2>1, <2>4, <3>1, <3>3 DEF Keeps, Plain, Preferred
    <3>4. CASE o.prefer = "local"
      <4>1. o.prefer # None
        BY <3>4, RulesAssumption
      <4>2. ~(Apart(f, g) <= o.skew) /\ Newer(g, f)
        BY <3>1, <3>4, <4>1 DEF Preferred
      <4>3. g.updated > f.updated + o.skew
        BY <1>2, <1>3, <4>2, SkewIsNatural, <1>1 DEF Apart, Newer
      <4> QED
        BY <2>1, <2>4, <3>4, <4>3 DEF Keeps
    <3> QED
      BY <1>2, <3>2, <3>3, <3>4
  <2> QED
    BY <1>5, <2>2, <2>3, <2>4 DEF RemoteWins
<1> QED
  BY <1>4, <1>5

LEMMA MergeKeepsEdits ==
  ASSUME RebaseTyped, NEW d \in Devices, NEW set \in FormSets,
         file' = [file EXCEPT ![d] = MergeSets(@, set, OptionsOf[d])],
         NEW e \in Devices, NEW i \in Ids, file[e][i] # None
  PROVE  Keeps(e, file[e][i], file'[e][i])
<1>1. file \in [Devices -> FormSets]
  BY DEF RebaseTyped, TypeOK
<1>2. file[e][i] \in Form
  BY <1>1 DEF FormSets
<1>3. CASE e # d
  BY <1>1, <1>3 DEF Keeps
<1>4. CASE e = d
  <2>1. file'[e] = MergeSets(file[d], set, OptionsOf[d])
    BY <1>1, <1>4
  <2>2. CASE set[i] = None
    <3>1. file'[e][i] = file[e][i]
      BY <1>4, <2>1, <2>2 DEF MergeSets
    <3> QED
      BY <3>1 DEF Keeps
  <2>3. CASE set[i] # None
    <3>1. file'[e][i] = Winner(file[e][i], set[i], OptionsOf[e])
      BY <1>4, <2>1, <2>3 DEF MergeSets
    <3>2. set[i] \in Form
      BY <2>3 DEF FormSets
    <3> QED
      BY <1>2, <3>1, <3>2, WinnerKeeps
  <2> QED
    BY <2>2, <2>3
<1> QED
  BY <1>3, <1>4

(* No step drops a form from a file, and but for an edit of its own a      *)
(* device loses one only as its options (conflict.ts) allow.               *)
THEOREM EditsKeptCorrect == Spec => EditsKept
<1> DEFINE Step == \A d \in Devices, i \in Ids :
                     file[d][i] # None =>
                       file'[d][i] # None /\ (edits' = edits => Keeps(d, file[d][i], file'[d][i]))
<1>1. RebaseInv /\ [Next]_vars => Step
  <2> SUFFICES ASSUME RebaseInv, [Next]_vars PROVE Step
    OBVIOUS
  <2> USE DEF RebaseInv
  <2>1. edits \in Nat
    BY DEF RebaseTyped
  <2>2. ASSUME UNCHANGED file PROVE Step
    BY <2>2 DEF Keeps
  <2>3. ASSUME NEW d \in Devices, NEW i \in Ids, Edit(d, i) PROVE Step
    <3>1. edits' # edits
      BY <2>1, <2>3 DEF Edit
    <3>2. PICK f \in Form : file' = [file EXCEPT ![d][i] = f]
      BY <2>3 DEF Edit
    <3>3. \A e \in Devices, k \in Ids : file'[e][k] = file[e][k] \/ file'[e][k] = f
      BY <3>2 DEF RebaseTyped, TypeOK, FormSets
    <3> QED
      BY <3>1, <3>3, FormTyped
  <2>4. ASSUME NEW d \in Devices, RunRebase(d) PROVE Step
    <3>1. Delta(remote[d], state[d]) \in FormSets
      <4>1. remote[d] \in SUBSET commits /\ IsFiniteSet(commits) /\ commits \subseteq Commit
        BY DEF RebaseTyped, TypeOK
      <4>2. IsFiniteSet(remote[d]) /\ remote[d] \subseteq Commit
        BY <4>1, FS_Subset
      <4> QED
        BY <4>2, DeltaIsNewest
    <3>2. file' = [file EXCEPT ![d] = MergeSets(@, Delta(remote[d], state[d]), OptionsOf[d])]
      BY <2>4 DEF RunRebase, Rebased
    <3>3. FilesGrow
      BY <3>1, <3>2, MergedFilesGrow
    <3> QED
      BY <3>1, <3>2, <3>3, MergeKeepsEdits DEF FilesGrow
  <2>5. ASSUME NEW d \in Devices, NEW e \in Devices, RunMerge(d, e) PROVE Step
    <3>1. file[e] \in FormSets
      BY DEF RebaseTyped, TypeOK
    <3>2. file' = [file EXCEPT ![d] = MergeSets(@, file[e], OptionsOf[d])]
      BY <2>5 DEF RunMerge
    <3>3. FilesGrow
      BY <3>1, <3>2, MergedFilesGrow
    <3> QED
      BY <3>1, <3>2, <3>3, MergeKeepsEdits DEF FilesGrow
  <2>6. CASE UNCHANGED vars
    BY <2>2, <2>6 DEF vars
  <2>7. ASSUME NEW d \in Devices, BackUp(d) \/ Export(d) \/ LoseState(d) PROVE Step
    BY <2>2, <2>7 DEF BackUp, Export, LoseState
  <2>8. CASE Tick
    BY <2>2, <2>8 DEF Tick
  <2> QED
    BY <2>3, <2>4, <2>5, <2>6, <2>7, <2>8 DEF Next
<1>2. RebaseInv /\ [Next]_vars => [Step]_vars
  BY <1>1
<1> QED
  BY <1>2, RebaseInvCorrect, PTL DEF Spec, EditsKept
=============================================================================
