-------------------------- MODULE PolyVault_proofs --------------------------
(***************************************************************************)
(* Proofs about PolyVault: a commit is only accepted when it can be        *)
(* restored, and stays so until other bytes of its data are uploaded.      *)
(***************************************************************************)
EXTENDS PolyVault, FiniteSetTheorems, TLAPS

-----------------------------------------------------------------------------
(* The inductive invariant                                                 *)

Shapes ==
  /\ chunks = [d \in DataSets |-> chunks[d]]
  /\ keys = [d \in DataSets |-> keys[d]]
  /\ index = [d \in DataSets |-> index[d]]
  /\ commits = [d \in DataSets |-> commits[d]]
  /\ writers = [d \in DataSets |-> writers[d]]
  /\ \A d \in DataSets :
       /\ chunks[d] = [k \in ChunksOf(d) |-> chunks[d][k]]
       /\ index[d] \in Seq(ChunksOf(d))
       /\ IsFiniteSet(writers[d])

(* A chunk that was seen is in the chunk index, and a chunk is stored that *)
(* was seen for the same place.                                            *)
Indexed ==
  \A d \in DataSets : \A c \in keys[d] :
    /\ c.index \in ChunksOf(d)
    /\ chunks[d][c.index] \in keys[d] /\ chunks[d][c.index].index = c.index
    /\ \E i \in DOMAIN index[d] : index[d][i] = c.index

(* Two chunks that were seen for one place made two entries of the index.  *)
IndexedApart ==
  \A d \in DataSets : \A b, c \in keys[d] :
    b # c /\ b.index = c.index =>
      \E i, j \in DOMAIN index[d] : i # j /\ index[d][i] = c.index /\ index[d][j] = c.index

(* The canister has seen chunk k of the serialization under header h.      *)
Sent(d, h, k) == h \in writers[d] /\ Bytes(h, k) \in keys[d]
AllSent(d, h) == \A k \in ChunksOf(d) : Sent(d, h, k)

(* A commit was uploaded in full, and is intact if nothing else was.       *)
CommittedWhole ==
  \A d \in DataSets :
    commits[d] # None =>
      /\ AllSent(d, commits[d].manifest)
      /\ (\A g \in writers[d] : g = commits[d].manifest) => Restorable(d)

Store == Shapes /\ Indexed /\ IndexedApart /\ CommittedWhole

(* A request names a chunk of its data set, or finalizes what was sent.    *)
Fits(q) ==
  /\ q.of \in DataSets
  /\ IF q.chunk = None THEN AllSent(q.of, q.header) ELSE q.chunk \in ChunksOf(q.of)

RunShapes ==
  /\ pc = [r \in Runs |-> pc[r]]
  /\ data = [r \in Runs |-> data[r]]
  /\ header = [r \in Runs |-> header[r]]
  /\ next = [r \in Runs |-> next[r]]

(* Before chunk next[r], a run has sent every chunk.                       *)
Uploading(r) ==
  /\ pc[r] \in {"idle", "upload", "finalize"}
  /\ pc[r] = "idle" => next[r] = 0
  /\ pc[r] = "upload" =>
       /\ data[r] \in DataSets /\ next[r] \in ChunksOf(data[r])
       /\ \A k \in 0 .. next[r] - 1 : Sent(data[r], header[r], k)
  /\ pc[r] = "finalize" => data[r] \in DataSets /\ AllSent(data[r], header[r])

Requests == \A q \in late : Fits(q)

VaultInv == Store /\ RunShapes /\ (\A r \in Runs : Uploading(r)) /\ Requests

-----------------------------------------------------------------------------
(* The chunk index of a complete commit                                    *)

LEMMA FirstPlaces == ASSUME NEW n \in Nat PROVE Cardinality(0 .. n - 1) = n
<1>1. Cardinality(0 .. n - 1) = IF 0 > n - 1 THEN 0 ELSE n - 1 - 0 + 1
  BY FS_Interval
<1> QED
  BY <1>1

(* As many entries as places, and every place among them: no place twice.  *)
LEMMA OntoIsOneToOne ==
  ASSUME NEW N \in Nat, NEW ix \in [1 .. N -> 0 .. N - 1],
         \A k \in 0 .. N - 1 : \E i \in 1 .. N : ix[i] = k
  PROVE  \A i, j \in 1 .. N : ix[i] = ix[j] => i = j
<1>1. ix \in Surjection(1 .. N, 0 .. N - 1)
  BY DEF Surjection
<1>2. IsFiniteSet(1 .. N) /\ Cardinality(1 .. N) = N
  <2>1. /\ IsFiniteSet(1 .. N)
        /\ Cardinality(1 .. N) = IF 1 > N THEN 0 ELSE N - 1 + 1
    BY FS_Interval
  <2> QED
    BY <2>1
<1>3. Cardinality(0 .. N - 1) = N
  BY FirstPlaces
<1>4. ix \in Injection(1 .. N, 0 .. N - 1)
  BY <1>1, <1>2, <1>3, FS_SurjSameCardinalityImpliesInj
<1> QED
  BY <1>4 DEF Injection, IsInjective

(* Then as many entries are smaller than an entry as its value says.       *)
LEMMA RankIsValue ==
  ASSUME NEW N \in Nat, NEW ix \in [1 .. N -> 0 .. N - 1],
         \A k \in 0 .. N - 1 : \E i \in 1 .. N : ix[i] = k,
         NEW i \in 1 .. N
  PROVE  Cardinality({j \in 1 .. N : ix[j] < ix[i] \/ (ix[j] = ix[i] /\ j < i)}) = ix[i]
<1> DEFINE before == {j \in 1 .. N : ix[j] < ix[i] \/ (ix[j] = ix[i] /\ j < i)}
           below == 0 .. ix[i] - 1
           place == [j \in before |-> ix[j]]
<1>1. \A j, k \in 1 .. N : ix[j] = ix[k] => j = k
  BY OntoIsOneToOne
<1>2. \A j \in before : ix[j] \in below
  BY <1>1
<1>3. place \in [before -> below]
  BY <1>2
<1>4. place \in Bijection(before, below)
  <2>1. \A j, k \in before : place[j] = place[k] => j = k
    BY <1>1
  <2>2. \A k \in below : \E j \in before : place[j] = k
    <3> SUFFICES ASSUME NEW k \in below
                 PROVE  \E j \in before : ix[j] = k
      OBVIOUS
    <3>1. PICK j \in 1 .. N : ix[j] = k
      OBVIOUS
    <3> QED
      BY <3>1
  <2> HIDE DEF before, below, place
  <2> QED
    BY <1>3, <2>1, <2>2 DEF Bijection, Injection, IsInjective, Surjection
<1>5. IsFiniteSet(before)
  <2>1. IsFiniteSet(1 .. N)
    BY FS_Interval
  <2>2. before \in SUBSET (1 .. N)
    OBVIOUS
  <2> HIDE DEF before
  <2> QED
    BY <2>1, <2>2, FS_Subset
<1>6. Cardinality(below) = Cardinality(before)
  <2>1. ExistsBijection(before, below)
    BY <1>4 DEF ExistsBijection
  <2> HIDE DEF before, below
  <2> QED
    BY <1>5, <2>1, FS_Bijection
<1>7. Cardinality(below) = ix[i]
  <2>1. ix[i] \in Nat
    OBVIOUS
  <2> QED
    BY <2>1, FirstPlaces
<1> QED
  BY <1>6, <1>7

LEMMA CompleteIndex ==
  ASSUME NEW d \in DataSets, index[d] \in Seq(ChunksOf(d)), Complete(d)
  PROVE  /\ ChunkCount[d] \in Nat /\ DOMAIN index[d] = 1 .. ChunkCount[d]
         /\ index[d] \in [1 .. ChunkCount[d] -> 0 .. ChunkCount[d] - 1]
         /\ \A k \in 0 .. ChunkCount[d] - 1 : \E i \in 1 .. ChunkCount[d] : index[d][i] = k
<1>1. ChunkCount[d] \in Nat
  BY CanisterAssumption
<1>2. Len(index[d]) = ChunkCount[d] /\ ChunksOf(d) \subseteq {index[d][i] : i \in DOMAIN index[d]}
  BY DEF Complete, Range
<1>3. DOMAIN index[d] = 1 .. ChunkCount[d]
  BY <1>2
<1> QED
  BY <1>1, <1>2, <1>3 DEF ChunksOf

(* Sorted, such an index lists the chunks in the order of their places.    *)
LEMMA CompleteListing ==
  ASSUME NEW d \in DataSets, index[d] \in Seq(ChunksOf(d)), Complete(d)
  PROVE  ChunkListing(d) = [n \in 1 .. ChunkCount[d] |-> chunks[d][n - 1]]
<1> DEFINE N == ChunkCount[d]
           ix == index[d]
<1>1. /\ N \in Nat /\ DOMAIN ix = 1 .. N /\ ix \in [1 .. N -> 0 .. N - 1]
      /\ \A k \in 0 .. N - 1 : \E i \in 1 .. N : ix[i] = k
  BY CompleteIndex
<1>2. \A i \in 1 .. N : Ahead(d, i) = ix[i]
  <2> HIDE DEF N
  <2>1. \A i \in 1 .. N :
          Cardinality({j \in 1 .. N : ix[j] < ix[i] \/ (ix[j] = ix[i] /\ j < i)}) = ix[i]
    <3> HIDE DEF ix
    <3> QED
      BY <1>1, RankIsValue
  <2> QED
    BY <1>1, <2>1 DEF Ahead
<1>3. ASSUME NEW n \in 1 .. N
      PROVE  chunks[d][ix[CHOOSE i \in 1 .. N : Ahead(d, i) = n - 1]] = chunks[d][n - 1]
  <2> DEFINE e == CHOOSE i \in 1 .. N : Ahead(d, i) = n - 1
  <2>1. \E i \in 1 .. N : Ahead(d, i) = n - 1
    <3>1. n - 1 \in 0 .. N - 1
      BY <1>1
    <3> QED
      BY <1>1, <1>2, <3>1
  <2>2. e \in 1 .. N /\ Ahead(d, e) = n - 1
    BY <2>1
  <2>3. ix[e] = n - 1
    BY <1>2, <2>2
  <2> QED
    BY <2>3
<1> QED
  BY <1>1, <1>3 DEF ChunkListing

-----------------------------------------------------------------------------
(* Calls of the canister                                                   *)

LEMMA SameListing ==
  ASSUME NEW d \in DataSets,
         index'[d] = index[d], chunks'[d] = chunks[d], commits'[d] = commits[d]
  PROVE  Restorable(d)' <=> Restorable(d)
<1>1. ChunkListing(d)' = ChunkListing(d)
  BY DEF ChunkListing, Ahead
<1> QED
  BY <1>1 DEF Restorable, Intact

(* If the index is complete and every chunk under h was seen, these are    *)
(* the chunks that are stored: a second one would be in the index as well. *)
LEMMA CompleteIsWhole ==
  ASSUME Store, NEW d \in DataSets, NEW h, Complete(d), AllSent(d, h)
  PROVE  ChunkListing(d) = [i \in 1 .. ChunkCount[d] |-> Bytes(h, i - 1)]
<1>1. index[d] \in Seq(ChunksOf(d))
  BY DEF Store, Shapes
<1>2. \A i, j \in DOMAIN index[d] : index[d][i] = index[d][j] => i = j
  <2>1. /\ ChunkCount[d] \in Nat /\ DOMAIN index[d] = 1 .. ChunkCount[d]
        /\ index[d] \in [1 .. ChunkCount[d] -> 0 .. ChunkCount[d] - 1]
        /\ \A k \in 0 .. ChunkCount[d] - 1 : \E i \in 1 .. ChunkCount[d] : index[d][i] = k
    BY <1>1, CompleteIndex
  <2> DEFINE N == ChunkCount[d]
             ix == index[d]
  <2>2. \A i, j \in 1 .. N : ix[i] = ix[j] => i = j
    <3> HIDE DEF N, ix
    <3> QED
      BY <2>1, OntoIsOneToOne DEF N, ix
  <2> QED
    BY <2>1, <2>2
<1>3. ASSUME NEW k \in ChunksOf(d)
      PROVE  chunks[d][k] = Bytes(h, k)
  <2>1. Bytes(h, k) \in keys[d] /\ Bytes(h, k).index = k
    BY DEF AllSent, Sent, Bytes
  <2>2. chunks[d][k] \in keys[d] /\ chunks[d][k].index = k
    BY <2>1 DEF Store, Indexed
  <2> QED
    BY <1>2, <2>1, <2>2 DEF Store, IndexedApart
<1>4. \A i \in 1 .. ChunkCount[d] : i - 1 \in ChunksOf(d)
  BY CanisterAssumption DEF ChunksOf
<1> QED
  BY <1>1, <1>3, <1>4, CompleteListing

Grow == \A d \in DataSets : keys[d] \subseteq keys'[d] /\ writers[d] \subseteq writers'[d]

LEMMA SentStays ==
  ASSUME Grow, NEW d \in DataSets, NEW h
  PROVE  /\ \A k : Sent(d, h, k) => Sent(d, h, k)'
         /\ AllSent(d, h) => AllSent(d, h)'
BY DEF Grow, AllSent, Sent, ChunksOf, Bytes

LEMMA StoreSame ==
  ASSUME Store, UNCHANGED <<canister, writers>>
  PROVE  Store' /\ Grow
<1> USE DEF canister
<1>1. Grow
  BY DEF Grow
<1>2. Shapes' /\ Indexed' /\ IndexedApart'
  BY DEF Store, Shapes, Indexed, IndexedApart, ChunksOf
<1>3. CommittedWhole'
  BY <1>1, SentStays, SameListing DEF Store, CommittedWhole
<1> QED
  BY <1>1, <1>2, <1>3 DEF Store

(* A chunk arrives.                                                        *)
LEMMA PutStores ==
  ASSUME Store, NEW d \in DataSets, NEW h, NEW k \in ChunksOf(d),
         PutChunk(d, Bytes(h, k)), writers' = [writers EXCEPT ![d] = @ \cup {h}]
  PROVE  Store' /\ Grow /\ Sent(d, h, k)'
<1> DEFINE c == Bytes(h, k)
<1>1. c.index = k
  BY DEF Bytes
<1>2. /\ \A e \in DataSets : writers'[e] = IF e = d THEN writers[d] \cup {h} ELSE writers[e]
      /\ writers' = [e \in DataSets |-> writers'[e]]
      /\ \A e \in DataSets : IsFiniteSet(writers'[e])
  <2>1. IsFiniteSet(writers[d] \cup {h})
    BY FS_AddElement DEF Store, Shapes
  <2> QED
    BY <2>1 DEF Store, Shapes
<1>3. CASE c \in keys[d]
  <2>1. UNCHANGED <<chunks, keys, index, commits>>
    BY <1>3 DEF PutChunk
  <2>2. Grow /\ Sent(d, h, k)'
    BY <1>2, <1>3, <2>1 DEF Grow, Sent, Bytes
  <2>3. Shapes'
    BY <1>2, <2>1 DEF Store, Shapes, ChunksOf
  <2>4. Indexed' /\ IndexedApart'
    BY <2>1 DEF Store, Indexed, IndexedApart, ChunksOf
  <2>5. CommittedWhole'
    BY <1>2, <2>1, <2>2, SentStays, SameListing DEF Store, CommittedWhole, Grow
  <2> QED
    BY <2>2, <2>3, <2>4, <2>5 DEF Store
<1>4. CASE c \notin keys[d]
  <2> HIDE DEF c
  <2>1. /\ chunks' = [chunks EXCEPT ![d][k] = c]
        /\ keys' = [keys EXCEPT ![d] = @ \cup {c}]
        /\ index' = [index EXCEPT ![d] = Append(@, k)]
        /\ commits' = commits
    BY <1>1, <1>4 DEF PutChunk, c
  <2>2. /\ \A e \in DataSets \ {d} :
             keys'[e] = keys[e] /\ index'[e] = index[e] /\ chunks'[e] = chunks[e]
        /\ keys'[d] = keys[d] \cup {c}
        /\ chunks'[d] = [chunks[d] EXCEPT ![k] = c]
        /\ keys' = [e \in DataSets |-> keys'[e]]
        /\ index' = [e \in DataSets |-> index'[e]]
        /\ chunks' = [e \in DataSets |-> chunks'[e]]
    BY <2>1 DEF Store, Shapes
  <2>3. /\ index'[d] \in Seq(ChunksOf(d))
        /\ DOMAIN index'[d] = 1 .. Len(index[d]) + 1
        /\ index'[d][Len(index[d]) + 1] = k
        /\ \A i \in DOMAIN index[d] : i \in DOMAIN index'[d] /\ index'[d][i] = index[d][i]
                                    /\ i # Len(index[d]) + 1
    <3>1. index[d] \in Seq(ChunksOf(d)) /\ index'[d] = Append(index[d], k)
      BY <2>1 DEF Store, Shapes
    <3> QED
      BY <3>1
  <2>4. Grow /\ Sent(d, h, k)'
    BY <1>2, <2>2 DEF Grow, Sent, Bytes, c
  <2>5. Shapes'
    BY <1>2, <2>1, <2>2, <2>3 DEF Store, Shapes, ChunksOf
  <2>6. /\ \A j \in ChunksOf(d) \ {k} : chunks'[d][j] = chunks[d][j]
        /\ chunks'[d][k] = c
    BY <2>2 DEF Store, Shapes
  <2>7. Indexed'
    <3>1. ASSUME NEW a \in keys'[d]
          PROVE  /\ a.index \in ChunksOf(d)
                 /\ chunks'[d][a.index] \in keys'[d] /\ chunks'[d][a.index].index = a.index
                 /\ \E i \in DOMAIN index'[d] : index'[d][i] = a.index
      <4>1. CASE a.index = k
        <5>1. Len(index[d]) + 1 \in DOMAIN index'[d]
          <6>1. Len(index[d]) \in Nat
            BY DEF Store, Shapes
          <6> QED
            BY <2>3, <6>1
        <5> QED
          BY <1>1, <2>2, <2>3, <2>6, <4>1, <5>1 DEF c
      <4>2. CASE a.index # k
        <5>1. a \in keys[d]
          BY <1>1, <2>2, <3>1, <4>2 DEF c
        <5> QED
          BY <2>2, <2>3, <2>6, <4>2, <5>1 DEF Store, Indexed
      <4> QED
        BY <4>1, <4>2
    <3>2. \A e \in DataSets \ {d} :
            keys'[e] = keys[e] /\ index'[e] = index[e] /\ chunks'[e] = chunks[e]
      BY <2>2
    <3> QED
      BY <3>1, <3>2 DEF Store, Indexed, ChunksOf
  <2>8. IndexedApart'
    <3>1. \A e \in DataSets \ {d} : index'[e] = index[e] /\ keys'[e] = keys[e]
      BY <2>2
    <3>2. ASSUME NEW a \in keys'[d], NEW b \in keys'[d], a # b, a.index = b.index
          PROVE  \E i, j \in DOMAIN index'[d] :
                   i # j /\ index'[d][i] = b.index /\ index'[d][j] = b.index
      <4>1. CASE a # c /\ b # c
        <5>1. PICK i, j \in DOMAIN index[d] :
                i # j /\ index[d][i] = b.index /\ index[d][j] = b.index
          BY <2>2, <3>2, <4>1 DEF Store, IndexedApart
        <5> QED
          BY <2>3, <5>1
      <4>2. CASE a = c \/ b = c
        <5>1. PICK i \in DOMAIN index[d] : index[d][i] = k
          BY <1>1, <2>2, <3>2, <4>2 DEF Store, Indexed
        <5>2. Len(index[d]) + 1 \in DOMAIN index'[d] /\ b.index = k
          <6>1. Len(index[d]) \in Nat
            BY DEF Store, Shapes
          <6> QED
            BY <1>1, <2>3, <3>2, <4>2, <6>1
        <5> QED
          BY <2>3, <5>1, <5>2
      <4> QED
        BY <4>1, <4>2
    <3> QED
      BY <3>1, <3>2 DEF Store, IndexedApart
  <2>9. CommittedWhole'
    <3> SUFFICES ASSUME NEW e \in DataSets, commits'[e] # None
                 PROVE  /\ AllSent(e, commits[e].manifest)'
                        /\ (\A g \in writers'[e] : g = commits'[e].manifest) => Restorable(e)'
      BY <2>1 DEF CommittedWhole
    <3>1. AllSent(e, commits[e].manifest)
      BY <2>1 DEF Store, CommittedWhole
    <3>2. AllSent(e, commits[e].manifest)'
      BY <2>1, <2>4, <3>1, SentStays
    <3>3. CASE e # d
      BY <1>2, <2>1, <2>2, <3>2, <3>3, SameListing DEF Store, CommittedWhole
    <3>4. CASE e = d
      <4>1. h # commits[d].manifest
        BY <1>4, <3>1, <3>4 DEF AllSent, Sent, c
      <4> QED
        BY <1>2, <2>1, <3>2, <3>4, <4>1
    <3> QED
      BY <3>3, <3>4
  <2> QED
    BY <2>4, <2>5, <2>7, <2>8, <2>9 DEF Store
<1> QED
  BY <1>3, <1>4

(* A commit is finalized, or refused.                                      *)
LEMMA FinalizeStores ==
  ASSUME Store, NEW d \in DataSets, NEW h, NEW p, AllSent(d, h),
         Finalize(d, p, h), writers' = writers
  PROVE  /\ Store' /\ Grow
         /\ \A e \in DataSets : commits[e] = None /\ commits'[e] # None => Restorable(e)'
<1>1. Grow
  BY DEF Finalize, Grow
<1>2. CASE Verdict(d) # "ok"
  <2>1. UNCHANGED <<canister, writers>>
    BY <1>2 DEF Finalize, canister
  <2> QED
    BY <2>1, StoreSame DEF canister
<1>3. CASE Verdict(d) = "ok"
  <2> DEFINE new == [id |-> d, parent |-> p, created |-> clock, manifest |-> h]
  <2>1. UNCHANGED <<chunks, keys, index>> /\ commits' = [commits EXCEPT ![d] = new]
    BY <1>3 DEF Finalize
  <2>2. /\ commits' = [e \in DataSets |-> commits'[e]]
        /\ commits'[d] = new
        /\ \A e \in DataSets \ {d} : commits'[e] = commits[e]
    BY <2>1 DEF Store, Shapes
  <2>3. Complete(d) /\ commits[d] = None
    BY <1>3 DEF Verdict
  <2>4. ChunkListing(d)' = [i \in 1 .. ChunkCount[d] |-> Bytes(h, i - 1)]
    <3>1. ChunkListing(d)' = ChunkListing(d)
      BY <2>1 DEF ChunkListing, Ahead
    <3> QED
      BY <2>3, <3>1, CompleteIsWhole
  <2>5. Restorable(d)'
    BY <2>2, <2>4 DEF Restorable, Intact
  <2>6. Shapes' /\ Indexed' /\ IndexedApart'
    BY <2>1, <2>2 DEF Store, Shapes, Indexed, IndexedApart, ChunksOf
  <2>7. CommittedWhole'
    <3> SUFFICES ASSUME NEW e \in DataSets, commits'[e] # None
                 PROVE  /\ AllSent(e, commits[e].manifest)'
                        /\ (\A g \in writers'[e] : g = commits'[e].manifest) => Restorable(e)'
      BY DEF CommittedWhole
    <3>1. CASE e = d
      BY <1>1, <2>2, <2>5, <3>1, SentStays
    <3>2. CASE e # d
      BY <1>1, <2>1, <2>2, <3>2, SentStays, SameListing DEF Store, CommittedWhole
    <3> QED
      BY <3>1, <3>2
  <2> QED
    BY <1>1, <2>2, <2>5, <2>6, <2>7 DEF Store
<1> QED
  BY <1>2, <1>3

(* The data sets whose commit a step accepts can be restored after it.     *)
Whole == \A d \in DataSets : commits[d] = None /\ commits'[d] # None => Restorable(d)'

LEMMA ExecuteStores ==
  ASSUME Store, NEW q, Fits(q), Execute(q)
  PROVE  Store' /\ Grow /\ Whole /\ (q.chunk # None => Sent(q.of, q.header, q.chunk)')
<1>1. CASE q.chunk = None
  BY <1>1, FinalizeStores DEF Fits, Execute, Whole
<1>2. CASE q.chunk # None
  <2>1. q.of \in DataSets /\ q.chunk \in ChunksOf(q.of)
    BY <1>2 DEF Fits
  <2>2. /\ PutChunk(q.of, Bytes(q.header, q.chunk))
        /\ writers' = [writers EXCEPT ![q.of] = @ \cup {q.header}]
    BY <1>2 DEF Execute
  <2>3. Store' /\ Grow /\ Sent(q.of, q.header, q.chunk)'
    BY <2>1, <2>2, PutStores
  <2>4. commits' = commits
    BY <2>2 DEF PutChunk
  <2> QED
    BY <2>3, <2>4 DEF Whole
<1> QED
  BY <1>1, <1>2

-----------------------------------------------------------------------------
(* Runs and requests                                                       *)

LEMMA FitsStays ==
  ASSUME Grow, NEW q, Fits(q)
  PROVE  Fits(q)'
BY SentStays DEF Fits, ChunksOf

LEMMA RunStays ==
  ASSUME Grow, NEW r \in Runs, Uploading(r), pc'[r] = pc[r], data'[r] = data[r],
         header'[r] = header[r], next'[r] = next[r]
  PROVE  Uploading(r)'
BY SentStays DEF Uploading, ChunksOf

(* A step of run r.                                                        *)
LEMMA StepOfRun ==
  ASSUME VaultInv, NEW r \in Runs, Store', Grow, RunShapes', Uploading(r)',
         \A q \in late' : q \in late \/ Fits(q),
         \A s \in Runs \ {r} : /\ pc'[s] = pc[s] /\ data'[s] = data[s]
                               /\ header'[s] = header[s] /\ next'[s] = next[s]
  PROVE  VaultInv'
<1>1. \A s \in Runs : Uploading(s)'
  BY RunStays DEF VaultInv
<1>2. Requests'
  BY FitsStays DEF VaultInv, Requests
<1> QED
  BY <1>1, <1>2 DEF VaultInv

LEMMA RunEnds ==
  ASSUME RunShapes, NEW r \in Runs, EndRun(r)
  PROVE  /\ RunShapes' /\ Uploading(r)'
         /\ \A s \in Runs \ {r} : /\ pc'[s] = pc[s] /\ data'[s] = data[s]
                                 /\ header'[s] = header[s] /\ next'[s] = next[s]
<1>1. RunShapes' /\ pc'[r] = "idle" /\ next'[r] = 0
  BY DEF RunShapes, EndRun, Goto
<1>2. Uploading(r)'
  BY <1>1 DEF Uploading
<1> QED
  BY <1>1, <1>2 DEF RunShapes, EndRun, Goto

(* A request that is not executed now changes nothing in the canister.     *)
LEMMA NotExecuted ==
  ASSUME Store, NEW q, Fits(q), Unanswered(q) \/ Refused
  PROVE  Store' /\ Grow /\ Whole /\ \A other \in late' : other \in late \/ Fits(other)
<1>1. UNCHANGED <<canister, writers>>
  BY DEF Unanswered, Refused
<1>2. commits' = commits
  BY <1>1 DEF canister
<1>3. Store' /\ Grow
  BY <1>1, StoreSame
<1>4. Whole
  BY <1>2 DEF Whole
<1>5. \A other \in late' : other \in late \/ Fits(other)
  BY DEF Unanswered, Refused
<1> QED
  BY <1>3, <1>4, <1>5

LEMMA UploadKeeps ==
  ASSUME VaultInv, NEW r \in Runs, Upload(r)
  PROVE  VaultInv' /\ Whole
<1>0. PICK d, h, k, q : d = data[r] /\ h = header[r] /\ k = next[r] /\ q = Request(d, h, k)
  OBVIOUS
<1>1. /\ pc[r] = "upload" /\ Store /\ RunShapes
      /\ d \in DataSets /\ k \in ChunksOf(d) /\ k # None
      /\ \A j \in 0 .. k - 1 : Sent(d, h, j)
  BY <1>0, CanisterAssumption DEF VaultInv, Upload, Uploading, ChunksOf
<1>2. q.of = d /\ q.header = h /\ q.chunk = k
  BY <1>0 DEF Request
<1>3. Fits(q)
  BY <1>1, <1>2 DEF Fits
<1>4. \/ /\ Answered(q)
         /\ next' = [next EXCEPT ![r] = @ + 1]
         /\ pc' = [pc EXCEPT ![r] = IF k + 1 = ChunkCount[d] THEN "finalize" ELSE "upload"]
         /\ UNCHANGED <<data, header>>
      \/ (Unanswered(q) \/ Refused) /\ EndRun(r)
      \/ (Unanswered(q) \/ Refused) /\ UNCHANGED <<pc, data, header, next>>
  BY <1>0 DEF Upload, Goto
<1>5. CASE /\ Answered(q)
           /\ next' = [next EXCEPT ![r] = @ + 1]
           /\ pc' = [pc EXCEPT ![r] = IF k + 1 = ChunkCount[d] THEN "finalize" ELSE "upload"]
           /\ UNCHANGED <<data, header>>
  <2>1. Store' /\ Grow /\ Whole /\ Sent(d, h, k)'
    BY <1>1, <1>2, <1>3, <1>5, ExecuteStores DEF Answered
  <2>2. /\ RunShapes' /\ data'[r] = d /\ header'[r] = h /\ next'[r] = k + 1
        /\ pc'[r] = IF k + 1 = ChunkCount[d] THEN "finalize" ELSE "upload"
        /\ \A s \in Runs \ {r} : /\ pc'[s] = pc[s] /\ data'[s] = data[s]
                                /\ header'[s] = header[s] /\ next'[s] = next[s]
    BY <1>0, <1>1, <1>5 DEF RunShapes
  <2>3. \A j \in 0 .. k : Sent(d, h, j)'
    <3>1. \A j \in 0 .. k - 1 : Sent(d, h, j)'
      BY <1>1, <2>1, SentStays
    <3>2. \A j \in 0 .. k : j \in 0 .. k - 1 \/ j = k
      BY <1>1 DEF ChunksOf
    <3> QED
      BY <2>1, <3>1, <3>2
  <2>4. ChunkCount[d] \in Nat /\ k \in 0 .. ChunkCount[d] - 1
    BY <1>1, CanisterAssumption DEF ChunksOf
  <2>5. Uploading(r)'
    <3>1. CASE k + 1 = ChunkCount[d]
      <4>1. AllSent(d, h)'
        BY <2>3, <2>4, <3>1 DEF AllSent, ChunksOf
      <4> QED
        BY <1>1, <2>2, <3>1, <4>1, <1>5 DEF Uploading
    <3>2. CASE k + 1 # ChunkCount[d]
      <4>1. k + 1 \in ChunksOf(d)
        BY <2>4, <3>2 DEF ChunksOf
      <4>2. \A j \in 0 .. (k + 1) - 1 : Sent(d, h, j)'
        BY <2>3, <2>4
      <4> QED
        BY <1>1, <2>2, <3>2, <4>1, <4>2, <1>5 DEF Uploading, ChunksOf
    <3> QED
      BY <3>1, <3>2
  <2>6. late' = late
    BY <1>5 DEF Answered
  <2> QED
    BY <2>1, <2>2, <2>5, <2>6, StepOfRun
<1>6. CASE (Unanswered(q) \/ Refused) /\ EndRun(r)
  BY <1>1, <1>3, <1>6, NotExecuted, RunEnds, StepOfRun
<1>7. CASE (Unanswered(q) \/ Refused) /\ UNCHANGED <<pc, data, header, next>>
  <2>1. Store' /\ Grow /\ Whole /\ \A other \in late' : other \in late \/ Fits(other)
    BY <1>1, <1>3, <1>7, NotExecuted
  <2>2. Uploading(r)' /\ RunShapes'
    BY <1>1, <1>7, <2>1, RunStays DEF VaultInv, RunShapes
  <2> QED
    BY <1>7, <2>1, <2>2, StepOfRun
<1> QED
  BY <1>4, <1>5, <1>6, <1>7

LEMMA FinalizeRunKeeps ==
  ASSUME VaultInv, NEW r \in Runs, FinalizeRun(r)
  PROVE  VaultInv' /\ Whole
<1>0. PICK q : q = Request(data[r], header[r], None)
  OBVIOUS
<1>1. Store /\ RunShapes /\ data[r] \in DataSets /\ AllSent(data[r], header[r])
  BY DEF VaultInv, FinalizeRun, Uploading
<1>2. Fits(q)
  BY <1>0, <1>1 DEF Fits, Request
<1>3. (Answered(q) \/ Unanswered(q) \/ Refused) /\ EndRun(r)
  BY <1>0 DEF FinalizeRun
<1>4. Store' /\ Grow /\ Whole /\ \A other \in late' : other \in late \/ Fits(other)
  <2>1. CASE Answered(q)
    BY <1>1, <1>2, <2>1, ExecuteStores DEF Answered
  <2>2. CASE Unanswered(q) \/ Refused
    BY <1>1, <1>2, <2>2, NotExecuted
  <2> QED
    BY <1>3, <2>1, <2>2
<1> QED
  BY <1>1, <1>3, <1>4, RunEnds, StepOfRun

LEMMA StartRunKeeps ==
  ASSUME VaultInv, NEW r \in Runs, StartRun(r)
  PROVE  VaultInv' /\ Whole
<1>1. Store /\ RunShapes /\ next[r] = 0
  BY DEF VaultInv, StartRun, Uploading
<1>2. UNCHANGED <<canister, next, late, writers>>
  BY DEF StartRun
<1>3. PICK d, h :
        d \in DataSets /\ data' = [data EXCEPT ![r] = d] /\ header' = [header EXCEPT ![r] = h]
  BY DEF StartRun
<1>4. pc' = [pc EXCEPT ![r] = "upload"]
  BY DEF StartRun, Goto
<1>5. Store' /\ Grow /\ Whole
  BY <1>1, <1>2, StoreSame DEF Whole, canister
<1>6. RunShapes' /\ pc'[r] = "upload" /\ data'[r] = d /\ next'[r] = 0
  BY <1>1, <1>2, <1>3, <1>4 DEF RunShapes
<1>7. 0 \in ChunksOf(d)
  BY <1>3, CanisterAssumption DEF ChunksOf
<1>8. Uploading(r)'
  BY <1>3, <1>6, <1>7 DEF Uploading, ChunksOf
<1> QED
  BY <1>1, <1>2, <1>3, <1>4, <1>5, <1>6, <1>8, StepOfRun DEF RunShapes

(* A late request is executed, or refused.                                 *)
LEMMA ArriveKeeps ==
  ASSUME VaultInv, Arrive
  PROVE  VaultInv' /\ Whole
<1>1. PICK q \in late :
        /\ late' = late \ {q}
        /\ IF writer THEN Execute(q) ELSE UNCHANGED <<canister, clock, access, writers>>
  BY DEF Arrive
<1>2. Store /\ Fits(q)
  BY DEF VaultInv, Requests
<1>3. Store' /\ Grow /\ Whole
  <2>1. CASE Execute(q)
    BY <1>2, <2>1, ExecuteStores
  <2>2. CASE UNCHANGED <<canister, writers>>
    BY <1>2, <2>2, StoreSame DEF Whole, canister
  <2> QED
    BY <1>1, <2>1, <2>2
<1>4. RunShapes' /\ \A r \in Runs : Uploading(r)'
  BY <1>3, RunStays DEF VaultInv, RunShapes, Arrive
<1>5. Requests'
  BY <1>1, <1>3, FitsStays DEF VaultInv, Requests
<1> QED
  BY <1>3, <1>4, <1>5 DEF VaultInv

LEMMA OthersKeep ==
  ASSUME VaultInv, UNCHANGED <<canister, run>>
  PROVE  VaultInv' /\ Whole
<1>1. UNCHANGED <<canister, pc, data, header, next, late, writers>>
  BY DEF run
<1>2. Store' /\ Grow /\ Whole
  BY <1>1, StoreSame DEF VaultInv, Whole, canister
<1>3. RunShapes' /\ \A r \in Runs : Uploading(r)'
  BY <1>1, <1>2, RunStays DEF VaultInv, RunShapes
<1>4. Requests'
  BY <1>1, <1>2, FitsStays DEF VaultInv, Requests
<1> QED
  BY <1>2, <1>3, <1>4 DEF VaultInv

-----------------------------------------------------------------------------
(* The invariant                                                           *)

LEMMA InitVault == Init => VaultInv
<1> SUFFICES ASSUME Init
             PROVE  VaultInv
  OBVIOUS
<1>1. Shapes
  BY FS_EmptySet DEF Init, CanisterInit, Shapes
<1>2. Indexed /\ IndexedApart
  BY DEF Init, CanisterInit, Indexed, IndexedApart
<1>3. CommittedWhole
  BY DEF Init, CanisterInit, CommittedWhole
<1>4. RunShapes /\ \A r \in Runs : Uploading(r)
  BY DEF Init, RunShapes, Uploading
<1>5. Requests
  BY DEF Init, Requests
<1> QED
  BY <1>1, <1>2, <1>3, <1>4, <1>5 DEF VaultInv, Store

LEMMA NextVault ==
  ASSUME VaultInv, [Next]_vars
  PROVE  VaultInv' /\ Whole
<1>1. CASE \E r \in Runs : StartRun(r)
  BY <1>1, StartRunKeeps
<1>2. CASE \E r \in Runs : Upload(r)
  BY <1>2, UploadKeeps
<1>3. CASE \E r \in Runs : FinalizeRun(r)
  BY <1>3, FinalizeRunKeeps
<1>4. CASE Arrive
  BY <1>4, ArriveKeeps
<1>5. CASE (Tick \/ SetAllowlist) /\ UNCHANGED <<run, restore>>
  BY <1>5, OthersKeep DEF Tick, SetAllowlist
<1>6. CASE StartRestore \/ ListPage \/ FetchPage \/ EndRestore
  BY <1>6, OthersKeep DEF StartRestore, ListPage, FetchPage, EndRestore
<1>7. CASE UNCHANGED vars
  BY <1>7, OthersKeep DEF vars
<1> QED
  BY <1>1, <1>2, <1>3, <1>4, <1>5, <1>6, <1>7 DEF Next

THEOREM VaultCorrect == Spec => []VaultInv
<1>1. VaultInv /\ [Next]_vars => VaultInv'
  BY NextVault
<1> QED
  BY InitVault, <1>1, PTL DEF Spec

(* A commit is accepted only when all its chunks are stored and belong to  *)
(* one serialization, whatever runs and late requests compete.             *)
THEOREM AcceptedIsWholeCorrect == Spec => AcceptedIsWhole
<1>1. VaultInv /\ [Next]_vars =>
        [\A d \in DataSets : commits[d] = None /\ commits'[d] # None => Restorable(d)']_vars
  BY NextVault DEF Whole
<1> QED
  BY VaultCorrect, <1>1, PTL DEF Spec, AcceptedIsWhole

(* A commit stays restorable as long as its data was uploaded under one    *)
(* header only.                                                            *)
THEOREM WholeUnlessRerunCorrect == Spec => []WholeUnlessRerun
<1>1. VaultInv => WholeUnlessRerun
  <2> SUFFICES ASSUME VaultInv, NEW d \in DataSets,
                      commits[d] # None, Cardinality(writers[d]) = 1
               PROVE  Restorable(d)
    BY DEF WholeUnlessRerun
  <2>1. IsFiniteSet(writers[d]) /\ AllSent(d, commits[d].manifest)
    BY DEF VaultInv, Store, Shapes, CommittedWhole
  <2>2. PICK h : writers[d] = {h}
    BY <2>1, FS_Singleton
  <2>3. 0 \in ChunksOf(d)
    BY CanisterAssumption DEF ChunksOf
  <2>4. commits[d].manifest = h
    BY <2>1, <2>2, <2>3 DEF AllSent, Sent
  <2> QED
    BY <2>2, <2>4 DEF VaultInv, Store, CommittedWhole
<1> QED
  BY VaultCorrect, <1>1, PTL

-----------------------------------------------------------------------------
(* What a restore has seen                                                 *)

(* A commit is kept under its data set, and there are finitely many.       *)
Ledger ==
  /\ clock \in Nat
  /\ IsFiniteSet(Committed)
  /\ \A d \in DataSets :
       commits[d] # None => commits[d].id = d /\ commits[d].created \in Nat

(* The commits of base were there when the restore began.                  *)
BaseIsCommitted ==
  since \in Nat /\ \A d \in base : d \in DataSets /\ commits[d] \in Since(since)

OutTyped ==
  /\ out = [i \in ThoughtIds |-> out[i]]
  /\ \A i \in ThoughtIds : out[i] # None => out[i] \in Thoughts /\ out[i].id = i

InOrder(s) == \A m, n \in DOMAIN s : m < n => Before(s[m], s[n])

(* A commit of base is in the listed pages or behind the cursor.           *)
Reached(d) ==
  \/ Contains(listed, commits[d])
  \/ listed = <<>>
  \/ Before(listed[Len(listed)], commits[d])

(* What was restored is not older than the ThoughtForms of the data set.   *)
Covered(d) == \A t \in Content[d] : out[t.id] # None /\ ~Newer(t, out[t.id])

RestoreTyped ==
  /\ BaseIsCommitted
  /\ OutTyped
  /\ listed \in Seq(Since(since))
  /\ \E S : got \in Seq(S)
  /\ rpc = "fetch" => listed # <<>>

(* Unless the restore was refused: a commit of base is still to be listed, *)
(* listed and still to be fetched, or covered.                             *)
RestoreInv ==
  ~denied =>
    /\ RestoreTyped
    /\ rpc = "list" => InOrder(listed) /\ \A d \in base : Reached(d)
    /\ rpc = "fetch" => \A d \in base : Contains(listed, commits[d]) \/ Covered(d)
    /\ rpc = "done" => \A d \in base : Covered(d)

FullInv == VaultInv /\ Ledger /\ RestoreInv

-----------------------------------------------------------------------------
(* The commits                                                             *)

(* A commit is never changed or removed.                                   *)
Lasting == \A d \in DataSets : commits[d] # None => commits'[d] = commits[d]

LEMMA LedgerStays ==
  ASSUME Ledger, clock' \in Nat, commits' = commits
  PROVE  Ledger' /\ Lasting
<1>1. Committed' = Committed
  BY DEF Committed
<1> QED
  BY <1>1 DEF Ledger, Lasting

LEMMA FinalizeKeepsLedger ==
  ASSUME Ledger, Shapes, NEW d \in DataSets, NEW p, NEW h, Finalize(d, p, h)
  PROVE  Ledger' /\ Lasting
<1>1. clock' = clock /\ clock \in Nat
  BY DEF Finalize, Ledger
<1>2. CASE commits' = commits
  BY <1>1, <1>2, LedgerStays
<1>3. CASE commits' # commits
  <2> DEFINE new == [id |-> d, parent |-> p, created |-> clock, manifest |-> h]
  <2>1. commits[d] = None /\ commits' = [commits EXCEPT ![d] = new]
    BY <1>3 DEF Finalize, Verdict
  <2>2. commits'[d] = new /\ \A e \in DataSets \ {d} : commits'[e] = commits[e]
    BY <2>1 DEF Shapes
  <2>3. Committed' \subseteq Committed \cup {new}
    BY <2>2 DEF Committed
  <2>4. IsFiniteSet(Committed')
    <3>1. IsFiniteSet(Committed \cup {new})
      BY FS_AddElement DEF Ledger
    <3> QED
      BY <2>3, <3>1, FS_Subset
  <2> QED
    BY <1>1, <2>1, <2>2, <2>4 DEF Ledger, Lasting
<1> QED
  BY <1>2, <1>3

LEMMA ExecuteKeepsLedger ==
  ASSUME Ledger, Shapes, NEW q, Fits(q), Execute(q)
  PROVE  Ledger' /\ Lasting
<1>1. CASE q.chunk = None
  BY <1>1, FinalizeKeepsLedger DEF Execute, Fits
<1>2. CASE q.chunk # None
  <2>1. UNCHANGED <<commits, clock>>
    BY <1>2 DEF Execute, PutChunk
  <2> QED
    BY <2>1, LedgerStays DEF Ledger
<1> QED
  BY <1>1, <1>2

LEMMA NextLedger ==
  ASSUME VaultInv, Ledger, [Next]_vars
  PROVE  Ledger' /\ Lasting
<1>1. Shapes
  BY DEF VaultInv, Store
<1>2. CASE UNCHANGED <<canister, clock>>
  BY <1>2, LedgerStays DEF Ledger, canister
<1>3. CASE \E r \in Runs : Upload(r)
  <2>1. PICK r \in Runs : Upload(r)
    BY <1>3
  <2>2. PICK q : q = Request(data[r], header[r], next[r])
    OBVIOUS
  <2>3. Answered(q) \/ Unanswered(q) \/ Refused
    BY <2>1, <2>2 DEF Upload
  <2>4. Fits(q)
    BY <2>1, <2>2, CanisterAssumption DEF VaultInv, Upload, Uploading, Fits, Request, ChunksOf
  <2> QED
    BY <1>1, <1>2, <2>3, <2>4, ExecuteKeepsLedger DEF Answered, Unanswered, Refused
<1>4. CASE \E r \in Runs : FinalizeRun(r)
  <2>1. PICK r \in Runs : FinalizeRun(r)
    BY <1>4
  <2>2. PICK q : q = Request(data[r], header[r], None)
    OBVIOUS
  <2>3. Answered(q) \/ Unanswered(q) \/ Refused
    BY <2>1, <2>2 DEF FinalizeRun
  <2>4. Fits(q)
    BY <2>1, <2>2 DEF VaultInv, FinalizeRun, Uploading, Fits, Request
  <2> QED
    BY <1>1, <1>2, <2>3, <2>4, ExecuteKeepsLedger DEF Answered, Unanswered, Refused
<1>5. CASE Arrive
  <2>1. PICK q \in late : IF writer THEN Execute(q) ELSE UNCHANGED <<canister, clock>>
    BY <1>5 DEF Arrive
  <2>2. Fits(q)
    BY DEF VaultInv, Requests
  <2> QED
    BY <1>1, <1>2, <2>1, <2>2, ExecuteKeepsLedger
<1>6. CASE (Tick \/ SetAllowlist) /\ UNCHANGED <<run, restore>>
  <2>1. commits' = commits /\ clock' \in Nat
    BY <1>6 DEF Tick, SetAllowlist, canister, Ledger
  <2> QED
    BY <2>1, LedgerStays
<1>7. CASE (\E r \in Runs : StartRun(r)) \/ StartRestore \/ ListPage \/ FetchPage \/ EndRestore
  BY <1>2, <1>7 DEF StartRun, StartRestore, ListPage, FetchPage, EndRestore
<1>8. CASE UNCHANGED vars
  BY <1>2, <1>8 DEF vars
<1> QED
  BY <1>3, <1>4, <1>5, <1>6, <1>7, <1>8 DEF Next

-----------------------------------------------------------------------------
(* The order in which commits are listed                                   *)

(* How many of the elements of S come before x in the order R.             *)
Rank(S, R, x) == Cardinality({y \in S : <<y, x>> \in R})

(* In a total order of a finite set every rank is taken, and once.         *)
LEMMA Ranked ==
  ASSUME NEW S, IsFiniteSet(S), NEW R,
         \A x \in S : <<x, x>> \notin R,
         \A x, y \in S : x = y \/ <<x, y>> \in R \/ <<y, x>> \in R,
         \A x, y, z \in S : <<x, y>> \in R /\ <<y, z>> \in R => <<x, z>> \in R
  PROVE  /\ \A x \in S : Rank(S, R, x) \in 0 .. Cardinality(S) - 1
         /\ \A x, y \in S : Rank(S, R, x) = Rank(S, R, y) => x = y
         /\ \A n \in 1 .. Cardinality(S) : \E x \in S : Rank(S, R, x) = n - 1
         /\ \A x, y \in S : <<x, y>> \in R => Rank(S, R, x) < Rank(S, R, y)
<1> DEFINE first == [x \in S |-> {y \in S : <<y, x>> \in R}]
           rank == [x \in S |-> Cardinality(first[x])]
           N == Cardinality(S)
           places == 0 .. N - 1
<1>1. N \in Nat
  BY FS_CardinalityType
<1>2. ASSUME NEW x \in S
      PROVE  IsFiniteSet(first[x]) /\ rank[x] \in places
  <2>1. first[x] \in SUBSET S /\ first[x] # S
    OBVIOUS
  <2>2. IsFiniteSet(first[x]) /\ Cardinality(first[x]) <= N /\ Cardinality(first[x]) # N
    <3> HIDE DEF first
    <3> QED BY <2>1, FS_Subset
  <2>3. Cardinality(first[x]) \in Nat
    <3> HIDE DEF first
    <3> QED BY <2>2, FS_CardinalityType
  <2> HIDE DEF first, N
  <2> QED
    BY <1>1, <2>2, <2>3
<1>3. ASSUME NEW x \in S, NEW y \in S, <<x, y>> \in R
      PROVE  rank[x] < rank[y]
  <2>1. first[x] \in SUBSET first[y] /\ x \in first[y] /\ x \notin first[x]
    BY <1>3
  <2>2. IsFiniteSet(first[y])
    BY <1>2
  <2>3. Cardinality(first[x]) <= Cardinality(first[y]) /\ Cardinality(first[x]) # Cardinality(first[y])
    <3> HIDE DEF first
    <3> QED BY <2>1, <2>2, FS_Subset
  <2>4. rank[x] \in places /\ rank[y] \in places
    BY <1>2
  <2> HIDE DEF first, N
  <2>5. rank[x] \in Int /\ rank[y] \in Int
    BY <1>1, <2>4
  <2> QED
    BY <2>3, <2>5
<1>4. \A x, y \in S : rank[x] = rank[y] => x = y
  <2>1. \A x \in S : rank[x] \in Int
    <3> HIDE DEF N, first, rank
    <3> QED BY <1>1, <1>2
  <2> SUFFICES ASSUME NEW x \in S, NEW y \in S, rank[x] = rank[y] PROVE x = y
    OBVIOUS
  <2>2. rank[x] \in Int /\ ~(rank[x] < rank[y]) /\ ~(rank[y] < rank[x])
    <3> HIDE DEF rank
    <3> QED BY <2>1
  <2>3. <<x, y>> \notin R /\ <<y, x>> \notin R
    <3> HIDE DEF rank
    <3> QED BY <1>3, <2>2
  <2> QED
    BY <2>3
<1>5. rank \in [S -> places]
  BY <1>2
<1>6. rank \in Injection(S, places)
  <2> HIDE DEF rank
  <2> QED BY <1>4, <1>5 DEF Injection, IsInjective
<1>7. IsFiniteSet(places) /\ Cardinality(places) = N
  <2>1. /\ IsFiniteSet(0 .. N - 1)
        /\ Cardinality(0 .. N - 1) = IF 0 > N - 1 THEN 0 ELSE N - 1 - 0 + 1
    <3> HIDE DEF N
    <3> QED BY <1>1, FS_Interval
  <2> HIDE DEF N
  <2> QED
    BY <1>1, <2>1
<1>8. rank \in Surjection(S, places)
  <2> HIDE DEF rank, places
  <2> QED BY <1>6, <1>7, FS_Injection
<1>9. \A n \in 1 .. N : \E x \in S : rank[x] = n - 1
  <2>1. \A n \in 1 .. N : n - 1 \in places
    <3> HIDE DEF N
    <3> QED BY <1>1
  <2> HIDE DEF rank, places, N
  <2> QED BY <1>8, <2>1 DEF Surjection
<1>10. \A x \in S : Rank(S, R, x) = rank[x]
  BY DEF Rank
<1>11. \A x, y \in S : <<x, y>> \in R => rank[x] < rank[y]
  BY <1>3
<1>12. \A x \in S : rank[x] \in places
  BY <1>2
<1> HIDE DEF rank
<1> QED
  BY <1>4, <1>9, <1>10, <1>11, <1>12

(* One element comes before all others.                                    *)
LEMMA Topmost ==
  ASSUME NEW S, IsFiniteSet(S), S # {}, NEW R,
         \A x \in S : <<x, x>> \notin R,
         \A x, y \in S : x = y \/ <<x, y>> \in R \/ <<y, x>> \in R,
         \A x, y, z \in S : <<x, y>> \in R /\ <<y, z>> \in R => <<x, z>> \in R
  PROVE  \E x \in S : \A y \in S : x = y \/ <<x, y>> \in R
<1>1. /\ \A x \in S : Rank(S, R, x) \in 0 .. Cardinality(S) - 1
      /\ \A x, y \in S : Rank(S, R, x) = Rank(S, R, y) => x = y
      /\ \A n \in 1 .. Cardinality(S) : \E x \in S : Rank(S, R, x) = n - 1
      /\ \A x, y \in S : <<x, y>> \in R => Rank(S, R, x) < Rank(S, R, y)
  BY Ranked
<1>2. Cardinality(S) \in Nat /\ 1 \in 1 .. Cardinality(S) /\ 1 - 1 = 0
  BY FS_CardinalityType, FS_EmptySet
<1>3. PICK x \in S : Rank(S, R, x) = 0
  BY <1>1, <1>2
<1>4. \A y \in S : Rank(S, R, y) \in 0 .. Cardinality(S) - 1 => ~(Rank(S, R, y) < 0)
  BY <1>2
<1> QED
  BY <1>1, <1>3, <1>4

LEMMA BeforeOrders ==
  ASSUME Ledger, NEW x \in Committed, NEW y \in Committed, NEW z \in Committed
  PROVE  /\ ~Before(x, x)
         /\ x = y \/ Before(x, y) \/ Before(y, x)
         /\ Before(x, y) /\ Before(y, z) => Before(x, z)
<1>1. \A d \in DataSets : d \in Int
  BY CanisterAssumption
<1>2. \A r \in Committed : r = commits[r.id] /\ r.id \in DataSets /\ r.created \in Int
  BY DEF Committed, Ledger
<1>3. x.id = y.id => x = y
  BY <1>2
<1>4. /\ x.id \in Int /\ x.created \in Int
      /\ y.id \in Int /\ y.created \in Int
      /\ z.id \in Int /\ z.created \in Int
  BY <1>1, <1>2
<1> QED
  BY <1>3, <1>4 DEF Before

(* The canister lists exactly the commits after a time, in order.          *)
LEMMA ListingInOrder ==
  ASSUME Ledger
  PROVE  /\ Listing(since) \in Seq(Since(since))
         /\ InOrder(Listing(since))
         /\ \A r \in Since(since) : Contains(Listing(since), r)
<1> DEFINE S == Since(since)
           R == {q \in S \X S : Before(q[1], q[2])}
           N == Cardinality(S)
           nth(n) == CHOOSE r \in S : Earlier(since, r) = n - 1
<1>1. IsFiniteSet(S) /\ S \subseteq Committed
  <2>1. S \in SUBSET Committed
    BY DEF Since
  <2> HIDE DEF S
  <2> QED
    BY <2>1, FS_Subset DEF Ledger
<1>2. \A x, y \in S : <<x, y>> \in R <=> Before(x, y)
  OBVIOUS
<1>3. \A r \in S : Earlier(since, r) = Rank(S, R, r)
  BY <1>2 DEF Earlier, Rank
<1> HIDE DEF S, R
<1>4. \A x \in S : <<x, x>> \notin R
  BY <1>1, <1>2, BeforeOrders
<1>5. \A x, y \in S : x = y \/ <<x, y>> \in R \/ <<y, x>> \in R
  BY <1>1, <1>2, BeforeOrders
<1>6. \A x, y, z \in S : <<x, y>> \in R /\ <<y, z>> \in R => <<x, z>> \in R
  BY <1>1, <1>2, BeforeOrders
<1>7. /\ \A x \in S : Rank(S, R, x) \in 0 .. N - 1
      /\ \A x, y \in S : Rank(S, R, x) = Rank(S, R, y) => x = y
      /\ \A n \in 1 .. N : \E x \in S : Rank(S, R, x) = n - 1
      /\ \A x, y \in S : <<x, y>> \in R => Rank(S, R, x) < Rank(S, R, y)
  BY <1>1, <1>4, <1>5, <1>6, Ranked
<1>8. N \in Nat
  BY <1>1, FS_CardinalityType
<1>9. Listing(since) = [n \in 1 .. N |-> nth(n)]
  BY DEF Listing, S
<1> HIDE DEF N
<1>10. \A n \in 1 .. N : nth(n) \in S /\ Rank(S, R, nth(n)) = n - 1
  <2> SUFFICES ASSUME NEW n \in 1 .. N PROVE nth(n) \in S /\ Rank(S, R, nth(n)) = n - 1
    OBVIOUS
  <2>1. \E r \in S : Earlier(since, r) = n - 1
    BY <1>3, <1>7
  <2>2. nth(n) \in S /\ Earlier(since, nth(n)) = n - 1
    BY <2>1
  <2> QED
    BY <1>3, <2>2
<1> HIDE DEF nth
<1>11. Listing(since) \in Seq(S) /\ Len(Listing(since)) = N
  <2>1. Listing(since) \in [1 .. N -> S]
    BY <1>9, <1>10
  <2> QED
    BY <1>8, <2>1
<1>12. InOrder(Listing(since))
  <2> SUFFICES ASSUME NEW m \in 1 .. N, NEW n \in 1 .. N, m < n
               PROVE  Before(nth(m), nth(n))
    BY <1>9 DEF InOrder
  <2>1. nth(m) # nth(n)
    BY <1>8, <1>10
  <2>2. <<nth(n), nth(m)>> \notin R
    <3>1. ~(n - 1 < m - 1)
      BY <1>8
    <3> QED
      BY <1>7, <1>10, <3>1
  <2> QED
    BY <1>2, <1>5, <1>10, <2>1, <2>2
<1>13. \A r \in S : Contains(Listing(since), r)
  <2> SUFFICES ASSUME NEW r \in S
               PROVE  \E n \in 1 .. N : Listing(since)[n] = r
    BY <1>11 DEF Contains
  <2> DEFINE n == Rank(S, R, r) + 1
  <2>1. n \in 1 .. N /\ n - 1 = Rank(S, R, r)
    BY <1>7, <1>8
  <2>2. nth(n) = r
    BY <1>7, <1>10, <2>1
  <2> HIDE DEF n
  <2> QED
    BY <1>9, <2>1, <2>2
<1> QED
  BY <1>11, <1>12, <1>13 DEF S

(* What is in order is left as it is by sorting it once more.              *)
LEMMA SortedStays ==
  ASSUME Ledger, NEW s \in Seq(Committed), InOrder(s)
  PROVE  Sorted(s) = s
<1>1. Len(s) \in Nat /\ DOMAIN s = 1 .. Len(s) /\ s = [n \in 1 .. Len(s) |-> s[n]]
      /\ \A n \in 1 .. Len(s) : s[n] \in Committed
  OBVIOUS
<1>2. \A n \in 1 .. Len(s) : n \in Int
  OBVIOUS
<1>3. ASSUME NEW i \in 1 .. Len(s), NEW j \in 1 .. Len(s)
      PROVE  Before(s[j], s[i]) \/ (s[j] = s[i] /\ j < i) <=> j < i
  <2>1. j < i => Before(s[j], s[i])
    BY <1>1 DEF InOrder
  <2>2. i < j => Before(s[i], s[j])
    BY <1>1 DEF InOrder
  <2>3. ~(Before(s[i], s[j]) /\ Before(s[j], s[i])) /\ ~Before(s[i], s[i])
    BY <1>1, BeforeOrders
  <2>4. i = j \/ i < j \/ j < i
    BY <1>2
  <2>5. CASE i = j
    BY <1>2, <2>3, <2>5
  <2>6. CASE i < j
    <3>1. s[i] # s[j] /\ ~(j < i)
      BY <1>2, <2>2, <2>3, <2>6
    <3> QED
      BY <2>2, <2>3, <2>6, <3>1
  <2> QED
    BY <2>1, <2>4, <2>5, <2>6
<1>4. ASSUME NEW i \in 1 .. Len(s) PROVE Preceding(s, i) = i - 1
  <2>1. {j \in 1 .. Len(s) : j < i} = 1 .. i - 1
    BY <1>1
  <2>2. {j \in DOMAIN s : Before(s[j], s[i]) \/ (s[j] = s[i] /\ j < i)} = 1 .. i - 1
    BY <1>1, <1>3, <2>1
  <2>3. Cardinality(1 .. i - 1) = IF 1 > i - 1 THEN 0 ELSE (i - 1) - 1 + 1
    BY FS_Interval
  <2>4. Preceding(s, i) = Cardinality(1 .. i - 1)
    BY <2>2 DEF Preceding
  <2> QED
    BY <1>1, <2>3, <2>4
<1>5. \A n \in 1 .. Len(s) : (CHOOSE i \in 1 .. Len(s) : Preceding(s, i) = n - 1) = n
  <2> SUFFICES ASSUME NEW n \in 1 .. Len(s)
               PROVE  (CHOOSE i \in 1 .. Len(s) : Preceding(s, i) = n - 1) = n
    OBVIOUS
  <2>1. \A i \in 1 .. Len(s) : Preceding(s, i) = n - 1 <=> i = n
    BY <1>1, <1>4
  <2> QED
    BY <2>1
<1>6. Sorted(s) = [n \in 1 .. Len(s) |-> s[n]]
  BY <1>1, <1>5 DEF Sorted
<1> QED
  BY <1>1, <1>6

(* The cursor is the commit that was listed last.                          *)
LEMMA CursorIsLast ==
  ASSUME Ledger, listed \in Seq(Since(since)), listed # <<>>
  PROVE  \E i \in 1 .. Len(Listing(since)) :
           /\ Listing(since)[i] = listed[Len(listed)]
           /\ ListFrom(since, listed[Len(listed)].id) = i + 1
<1> DEFINE L == Listing(since)
           r == listed[Len(listed)]
           found == {i \in DOMAIN L : L[i].id = r.id}
<1>1. r \in Since(since)
  OBVIOUS
<1>2. L \in Seq(Since(since)) /\ DOMAIN L = 1 .. Len(L) /\ InOrder(L)
  BY ListingInOrder
<1>3. PICK i \in 1 .. Len(L) : L[i] = r
  BY <1>1, ListingInOrder DEF Contains
<1>4. \A q \in Since(since) : q \in Committed /\ q = commits[q.id]
  BY DEF Since, Committed, Ledger
<1> HIDE DEF L, r
<1>5. ASSUME NEW j \in 1 .. Len(L), L[j].id = r.id PROVE j = i
  <2>1. L[j] = L[i] /\ L[j] \in Committed
    BY <1>1, <1>2, <1>3, <1>4, <1>5
  <2>2. ~(i < j) /\ ~(j < i)
    BY <1>2, <2>1, BeforeOrders DEF InOrder
  <2> QED
    BY <2>2
<1>6. found = {i}
  BY <1>2, <1>3, <1>5
<1>7. ListFrom(since, r.id) = IF found = {} THEN 1 ELSE 1 + CHOOSE k \in found : TRUE
  BY DEF ListFrom, L
<1> HIDE DEF found
<1>8. ListFrom(since, r.id) = i + 1
  BY <1>6, <1>7
<1> QED
  BY <1>3, <1>8 DEF L, r

(* A page is put behind the pages before it.                               *)
LEMMA Joined ==
  ASSUME NEW A, NEW s \in Seq(A), NEW L \in Seq(A), NEW from \in 1 .. Len(L) + 1,
         NEW to \in from - 1 .. Len(L)
  PROVE  /\ s \o SubSeq(L, from, to) \in Seq(A)
         /\ Len(s \o SubSeq(L, from, to)) = Len(s) + (to - from + 1)
         /\ \A n \in 1 .. Len(s) : (s \o SubSeq(L, from, to))[n] = s[n]
         /\ \A n \in from .. to :
              (s \o SubSeq(L, from, to))[Len(s) + (n - from + 1)] = L[n]
<1>1. Len(s) \in Nat /\ Len(L) \in Nat /\ from \in Nat /\ to \in Nat /\ to - from + 1 \in Nat
  OBVIOUS
<1> DEFINE page == SubSeq(L, from, to)
<1>2. \A n \in from .. to : n \in 1 .. Len(L)
  BY <1>1
<1>3. page \in Seq(A)
  BY <1>1, <1>2
<1>4. Len(page) = to - from + 1
  BY <1>1, <1>2
<1>5. \A n \in from .. to : page[n - from + 1] = L[n]
  BY <1>1, <1>2
<1> HIDE DEF page
<1>6. s \o page \in Seq(A) /\ Len(s \o page) = Len(s) + (to - from + 1)
  BY <1>1, <1>3, <1>4
<1>7. \A n \in 1 .. Len(s) : (s \o page)[n] = s[n]
  BY <1>1, <1>3
<1>8. ASSUME NEW n \in from .. to
      PROVE  (s \o page)[Len(s) + (n - from + 1)] = L[n]
  <2>1. n - from + 1 \in 1 .. Len(page)
    BY <1>1, <1>4
  <2> DEFINE m == n - from + 1
  <2>2. (s \o page)[Len(s) + m] = page[m]
    <3> HIDE DEF m
    <3> QED BY <1>1, <1>3, <2>1 DEF m
  <2> QED
    BY <1>5, <2>2
<1> QED
  BY <1>6, <1>7, <1>8 DEF page

-----------------------------------------------------------------------------
(* The pages of commits                                                    *)

(* Where the next page begins, and the pages with it.                      *)
From == ListFrom(since, Cursor)
Pages == listed \o Page(Listing(since), From)

(* After a page, every commit of base is listed or behind the new cursor.  *)
LEMMA PageReaches ==
  ASSUME Ledger, RestoreTyped, InOrder(listed), \A d \in base : Reached(d)
  PROVE  /\ Pages \in Seq(Since(since)) /\ InOrder(Pages)
         /\ \A d \in base :
              \/ Contains(Pages, commits[d])
              \/ /\ More(Listing(since), From) /\ Pages # <<>>
                 /\ Before(Pages[Len(Pages)], commits[d])
<1> DEFINE L == Listing(since)
           N == Len(listed)
           to == IF From + PageSize > Len(L) THEN Len(L) ELSE From + PageSize - 1
<1>1. /\ L \in Seq(Since(since)) /\ InOrder(L) /\ DOMAIN L = 1 .. Len(L) /\ Len(L) \in Nat
      /\ \A r \in Since(since) : Contains(L, r)
  BY ListingInOrder
<1>2. listed \in Seq(Since(since)) /\ N \in Nat /\ DOMAIN listed = 1 .. N
  BY DEF RestoreTyped
<1>3. \A r \in Since(since) : r \in Committed /\ r.id \in DataSets /\ r.id # None
  BY CanisterAssumption DEF Since, Committed, Ledger
<1>4. /\ From \in 1 .. Len(L) + 1
      /\ listed # <<>> => From - 1 \in 1 .. Len(L) /\ L[From - 1] = listed[N]
  <2>1. CASE listed = <<>>
    <3>1. {i \in DOMAIN L : L[i].id = None} = {}
      BY <1>1, <1>3
    <3>2. From = 1
      BY <2>1, <3>1 DEF From, Cursor, ListFrom
    <3> QED
      BY <1>1, <2>1, <3>2
  <2>2. CASE listed # <<>>
    <3>1. PICK i \in 1 .. Len(L) :
            L[i] = listed[N] /\ ListFrom(since, listed[N].id) = i + 1
      BY <1>2, <2>2, CursorIsLast
    <3>2. From = i + 1
      BY <2>2, <3>1 DEF From, Cursor
    <3> QED
      BY <1>1, <3>1, <3>2
  <2> QED
    BY <2>1, <2>2
<1>5. PageSize \in Nat \ {0}
  BY CanisterAssumption
<1>6. to \in From - 1 .. Len(L) /\ (to # Len(L) => to = From + PageSize - 1)
  BY <1>1, <1>4, <1>5
<1>7. Pages = listed \o SubSeq(L, From, to) /\ (More(L, From) <=> to < Len(L))
  <2>1. More(L, From) <=> to < Len(L)
    BY <1>1, <1>4, <1>5 DEF More
  <2>2. Page(L, From) = SubSeq(L, From, to)
    BY DEF Page
  <2> QED
    BY <2>1, <2>2 DEF Pages
<1> HIDE DEF L, to
<1>8. /\ Pages \in Seq(Since(since)) /\ Len(Pages) = N + (to - From + 1)
      /\ \A n \in 1 .. N : Pages[n] = listed[n]
      /\ \A k \in From .. to : Pages[N + (k - From + 1)] = L[k]
  <2>1. L \in Seq(Since(since)) /\ listed \in Seq(Since(since)) /\ N = Len(listed)
    BY <1>1, <1>2
  <2>2. From \in 1 .. Len(L) + 1 /\ to \in From - 1 .. Len(L)
    BY <1>4, <1>6
  <2> HIDE DEF N
  <2> QED
    BY <1>7, <2>1, <2>2, Joined
<1>9. /\ Len(L) \in Nat /\ N \in Nat /\ From \in Nat \ {0} /\ to \in Nat
      /\ From - 1 <= to /\ to <= Len(L)
      /\ DOMAIN Pages = 1 .. Len(Pages) /\ Len(Pages) = N + (to - From + 1)
  <2>1. Len(L) \in Nat /\ N \in Nat
    BY <1>1, <1>2
  <2>2. From \in 1 .. Len(L) + 1 /\ to \in From - 1 .. Len(L)
    BY <1>4, <1>6
  <2>3. From \in Nat \ {0}
    BY <2>1, <2>2
  <2>4. to \in Nat /\ From - 1 <= to /\ to <= Len(L)
    BY <2>1, <2>2, <2>3
  <2> QED
    BY <1>8, <2>1, <2>3, <2>4
<1>10. ASSUME NEW n \in 1 .. N, NEW k \in From .. to
       PROVE  Before(listed[n], L[k])
  <2>1. listed # <<>> /\ From - 1 \in 1 .. Len(L) /\ L[From - 1] = listed[N]
    BY <1>2, <1>4
  <2>2. k \in 1 .. Len(L) /\ From - 1 < k
    BY <1>9
  <2>3. Before(listed[N], L[k])
    BY <1>1, <2>1, <2>2 DEF InOrder
  <2>4. listed[n] = listed[N] \/ Before(listed[n], listed[N])
    <3>1. n = N \/ n < N
      BY <1>9
    <3>2. N \in 1 .. N
      BY <1>9
    <3> QED
      BY <1>2, <3>1, <3>2 DEF InOrder
  <2>5. listed[n] \in Committed /\ listed[N] \in Committed /\ L[k] \in Committed
    BY <1>1, <1>2, <1>3, <2>1, <2>2
  <2> QED
    BY <2>3, <2>4, <2>5, BeforeOrders
<1>11. InOrder(Pages)
  <2> SUFFICES ASSUME NEW m \in 1 .. Len(Pages), NEW n \in 1 .. Len(Pages), m < n
               PROVE  Before(Pages[m], Pages[n])
    BY <1>9 DEF InOrder
  <2> DEFINE j == m - N + From - 1
             k == n - N + From - 1
  <2>1. CASE n <= N
    <3>1. m \in 1 .. N /\ n \in 1 .. N
      BY <1>2, <2>1
    <3> QED
      BY <1>2, <1>8, <3>1 DEF InOrder
  <2>2. CASE m <= N /\ N < n
    <3>1. m \in 1 .. N /\ k \in From .. to /\ n = N + (k - From + 1)
      BY <1>9, <2>2
    <3> HIDE DEF k
    <3>2. Pages[m] = listed[m] /\ Pages[n] = L[k]
      BY <1>8, <3>1
    <3> QED
      BY <1>10, <3>1, <3>2
  <2>3. CASE N < m
    <3>1. /\ j \in From .. to /\ m = N + (j - From + 1)
          /\ k \in From .. to /\ n = N + (k - From + 1) /\ j < k
      BY <1>9, <2>3
    <3> HIDE DEF j, k
    <3>2. Pages[m] = L[j] /\ Pages[n] = L[k]
      BY <1>8, <3>1
    <3>3. j \in 1 .. Len(L) /\ k \in 1 .. Len(L)
      BY <1>9, <3>1
    <3> QED
      BY <1>1, <3>1, <3>2, <3>3 DEF InOrder
  <2> QED
    BY <1>2, <2>1, <2>2, <2>3
<1>12. ASSUME NEW d \in base, ~Contains(Pages, commits[d])
       PROVE  More(L, From) /\ Pages # <<>> /\ Before(Pages[Len(Pages)], commits[d])
  <2>1. commits[d] \in Since(since)
    BY DEF RestoreTyped, BaseIsCommitted
  <2>2. PICK k \in 1 .. Len(L) : L[k] = commits[d]
    BY <1>1, <2>1 DEF Contains
  <2>3. ~Contains(listed, commits[d])
    <3> SUFFICES ASSUME Contains(listed, commits[d]) PROVE FALSE
      OBVIOUS
    <3>1. PICK n \in 1 .. N : listed[n] = commits[d]
      BY DEF Contains
    <3>2. n \in 1 .. Len(Pages) /\ Pages[n] = commits[d]
      BY <1>2, <1>6, <1>8, <1>9, <3>1
    <3> QED
      BY <1>12, <3>2 DEF Contains
  <2>4. From <= k
    <3>1. CASE listed = <<>>
      <4>1. {i \in DOMAIN L : L[i].id = None} = {}
        BY <1>1, <1>3
      <4>2. From = 1
        BY <3>1, <4>1 DEF From, Cursor, ListFrom, L
      <4> QED
        BY <4>2
    <3>2. CASE listed # <<>>
      <4>1. From - 1 \in 1 .. Len(L) /\ Before(L[From - 1], L[k])
        BY <1>4, <2>2, <2>3, <3>2 DEF Reached
      <4>2. L[From - 1] \in Committed /\ L[k] \in Committed
        BY <1>1, <1>3, <4>1
      <4>3. k # From - 1 /\ ~(k < From - 1)
        BY <1>1, <4>1, <4>2, BeforeOrders DEF InOrder
      <4> QED
        BY <1>9, <4>3
    <3> QED
      BY <3>1, <3>2
  <2>5. to < k
    <3> SUFFICES ASSUME ~(to < k) PROVE FALSE
      OBVIOUS
    <3>1. k \in From .. to
      BY <1>9, <2>4
    <3> DEFINE n == N + (k - From + 1)
    <3>2. n \in 1 .. Len(Pages)
      BY <1>2, <1>8, <1>9, <3>1
    <3>3. Pages[n] = commits[d]
      BY <1>8, <2>2, <3>1
    <3> HIDE DEF n
    <3> QED
      BY <1>12, <3>2, <3>3 DEF Contains
  <2>6. to < Len(L) /\ to \in From .. to /\ to \in 1 .. Len(L)
    BY <1>5, <1>6, <1>9, <2>5
  <2>7. Len(Pages) # 0 /\ Pages[Len(Pages)] = L[to]
    BY <1>8, <1>9, <2>6
  <2>8. Pages # <<>>
    BY <2>7
  <2> QED
    BY <1>1, <1>7, <2>2, <2>5, <2>6, <2>7, <2>8 DEF InOrder
<1> QED
  BY <1>8, <1>11, <1>12 DEF L

LEMMA ListKeeps ==
  ASSUME Ledger, RestoreInv, ListPage
  PROVE  RestoreInv'
<1> SUFFICES ASSUME ~denied'
             PROVE  /\ RestoreTyped'
                    /\ rpc' = "list" => InOrder(listed') /\ \A d \in base' : Reached(d)'
                    /\ rpc' = "fetch" =>
                         \A d \in base' : Contains(listed', commits'[d]) \/ Covered(d)'
                    /\ rpc' = "done" => \A d \in base' : Covered(d)'
  BY DEF RestoreInv
<1>1. /\ rpc = "list" /\ reader /\ ~denied
      /\ UNCHANGED <<canister, since, got, out, base>>
  BY DEF ListPage
<1>2. RestoreTyped /\ InOrder(listed) /\ \A d \in base : Reached(d)
  BY <1>1 DEF RestoreInv
<1>3. /\ Pages \in Seq(Since(since)) /\ InOrder(Pages)
      /\ \A d \in base :
           \/ Contains(Pages, commits[d])
           \/ /\ More(Listing(since), From) /\ Pages # <<>>
              /\ Before(Pages[Len(Pages)], commits[d])
  BY <1>2, PageReaches
<1>4. IF More(Listing(since), From)
      THEN listed' = Pages /\ rpc' = "list"
      ELSE listed' = Sorted(Pages) /\ rpc' = IF Pages = <<>> THEN "done" ELSE "fetch"
  BY <1>1 DEF ListPage, Readable, From, Pages
<1>5. Pages \in Seq(Committed)
  BY <1>3 DEF Since
<1>6. listed' = Pages
  BY <1>3, <1>4, <1>5, SortedStays
<1>7. commits' = commits /\ Since(since)' = Since(since)
  BY <1>1 DEF canister, Since, Committed
<1>8. RestoreTyped'
  <2>1. BaseIsCommitted' /\ OutTyped'
    BY <1>1, <1>2, <1>7 DEF RestoreTyped, BaseIsCommitted, OutTyped
  <2>2. \E S : got' \in Seq(S)
    BY <1>1, <1>2 DEF RestoreTyped
  <2>3. rpc' = "fetch" => listed' # <<>>
    BY <1>4, <1>6
  <2> QED
    BY <1>3, <1>6, <1>7, <2>1, <2>2, <2>3 DEF RestoreTyped
<1>9. \A d \in base : ~More(Listing(since), From) => Contains(Pages, commits[d])
  BY <1>3
<1>10. rpc' = "list" => \A d \in base : Reached(d)'
  BY <1>3, <1>6, <1>7 DEF Reached
<1>11. rpc' = "done" => base = {}
  <2> SUFFICES ASSUME rpc' = "done", NEW d \in base PROVE FALSE
    OBVIOUS
  <2>1. Contains(Pages, commits[d]) /\ Pages = <<>>
    BY <1>4, <1>9
  <2> QED
    BY <2>1 DEF Contains
<1>12. rpc' = "fetch" => ~More(Listing(since), From)
  BY <1>4
<1> QED
  BY <1>1, <1>3, <1>6, <1>7, <1>8, <1>9, <1>10, <1>11, <1>12

-----------------------------------------------------------------------------
(* De-duplication                                                          *)

LEMMA ThoughtTyped ==
  \A t \in Thoughts :
    /\ t # None /\ t.id \in ThoughtIds /\ t.at \in Int /\ t.hash \in Int
    /\ \A u \in Thoughts : t.id = u.id /\ t.at = u.at /\ t.hash = u.hash => t = u
<1> SUFFICES ASSUME NEW t \in Thoughts
             PROVE  /\ t # None /\ t.id \in ThoughtIds /\ t.at \in Int /\ t.hash \in Int
                    /\ t = [id |-> t.id, at |-> t.at, hash |-> t.hash]
  OBVIOUS
<1>1. PICK d \in DataSets : t \in Content[d]
  BY DEF Thoughts
<1> QED
  BY <1>1, VaultAssumption DEF ThoughtIds

(* Of finitely many ThoughtForms of one id one is the newest.              *)
LEMMA NewestExists ==
  ASSUME NEW S, IsFiniteSet(S), S # {}, S \subseteq Thoughts, NEW i, \A t \in S : t.id = i
  PROVE  \E t \in S : \A u \in S : t = u \/ Newer(t, u)
<1> DEFINE R == {q \in S \X S : Newer(q[1], q[2])}
<1>1. \A x, y \in S : <<x, y>> \in R <=> Newer(x, y)
  OBVIOUS
<1>2. \A t \in S : t.at \in Int /\ t.hash \in Int
  BY ThoughtTyped
<1> HIDE DEF R
<1>3. \A x \in S : <<x, x>> \notin R
  BY <1>1, <1>2 DEF Newer
<1>4. \A x, y \in S : x = y \/ <<x, y>> \in R \/ <<y, x>> \in R
  <2> SUFFICES ASSUME NEW x \in S, NEW y \in S, x # y PROVE Newer(x, y) \/ Newer(y, x)
    BY <1>1
  <2>1. x.at # y.at \/ x.hash # y.hash
    BY ThoughtTyped
  <2>2. x.at \in Int /\ y.at \in Int /\ x.hash \in Int /\ y.hash \in Int
    BY <1>2
  <2> QED
    BY <2>1, <2>2 DEF Newer
<1>5. \A x, y, z \in S : <<x, y>> \in R /\ <<y, z>> \in R => <<x, z>> \in R
  BY <1>1, <1>2 DEF Newer
<1>6. \E t \in S : \A u \in S : t = u \/ <<t, u>> \in R
  BY <1>3, <1>4, <1>5, Topmost, ZenonT(60)
<1> QED
  BY <1>1, <1>6

(* Of each id, the newest of what was extracted and the new ones is kept.  *)
LEMMA MergeKeepsNewest ==
  ASSUME OutTyped, NEW c \in DataSets, NEW i \in ThoughtIds
  PROVE  LET m == Merge(out, Content[c])[i] IN
           /\ m # None => m \in Thoughts /\ m.id = i
           /\ \A t \in Content[c] \cup {out[i]} :
                t # None /\ t.id = i => m # None /\ ~Newer(t, m)
<1> DEFINE V == {t \in Content[c] \cup {out[i]} : t # None /\ t.id = i}
           newest(t) == \A u \in V : t = u \/ Newer(t, u)
           m == Merge(out, Content[c])[i]
<1>1. m = IF V = {} THEN None ELSE CHOOSE t \in V : newest(t)
  BY DEF Merge
<1>2. IsFiniteSet(V)
  <2>1. IsFiniteSet(Content[c] \cup {out[i]})
    BY FS_AddElement, VaultAssumption
  <2>2. V \in SUBSET (Content[c] \cup {out[i]})
    OBVIOUS
  <2> HIDE DEF V
  <2> QED
    BY <2>1, <2>2, FS_Subset
<1>3. V \subseteq Thoughts /\ \A t \in V : t.id = i
  BY DEF OutTyped, Thoughts
<1>4. CASE V = {}
  BY <1>1, <1>4
<1>5. CASE V # {}
  <2>1. \E t \in V : newest(t)
    <3> HIDE DEF V
    <3> QED BY <1>2, <1>3, <1>5, NewestExists DEF newest
  <2>2. m \in V /\ newest(m)
    <3> HIDE DEF V, newest, m
    <3> QED BY <1>1, <1>5, <2>1
  <2>3. \A t \in V : m # None /\ ~Newer(t, m)
    <3> SUFFICES ASSUME NEW t \in V PROVE m # None /\ ~Newer(t, m)
      OBVIOUS
    <3>1. m = t \/ Newer(m, t)
      BY <2>2
    <3>2. m \in Thoughts /\ t \in Thoughts
      BY <1>3, <2>2
    <3> HIDE DEF V, newest, m
    <3>3. /\ m # None /\ m.at \in Int /\ m.hash \in Int
          /\ t.at \in Int /\ t.hash \in Int
      BY <3>2, ThoughtTyped
    <3> QED
      BY <3>1, <3>3 DEF Newer
  <2>4. m \in Thoughts /\ m.id = i
    <3> HIDE DEF V, newest, m
    <3> QED BY <1>3, <2>2
  <2> QED
    BY <2>3, <2>4
<1> HIDE DEF V
<1> QED
  BY <1>4, <1>5

(* What was covered stays covered, and the data set is now.                *)
LEMMA MergeCovers ==
  ASSUME OutTyped, NEW c \in DataSets, out' = Merge(out, Content[c])
  PROVE  OutTyped' /\ Covered(c)' /\ \A d \in DataSets : Covered(d) => Covered(d)'
<1>1. OutTyped'
  <2>1. out' = [i \in ThoughtIds |-> out'[i]]
    BY DEF Merge
  <2> QED
    BY <2>1, MergeKeepsNewest DEF OutTyped
<1>2. \A d \in DataSets : \A t \in Content[d] : t \in Thoughts
  BY DEF Thoughts
<1>3. Covered(c)'
  <2> SUFFICES ASSUME NEW t \in Content[c]
               PROVE  out'[t.id] # None /\ ~Newer(t, out'[t.id])
    BY DEF Covered
  <2>1. t # None /\ t.id \in ThoughtIds
    BY <1>2, ThoughtTyped
  <2> QED
    BY <2>1, MergeKeepsNewest
<1>4. ASSUME NEW d \in DataSets, Covered(d)
      PROVE  Covered(d)'
  <2> SUFFICES ASSUME NEW t \in Content[d]
               PROVE  out'[t.id] # None /\ ~Newer(t, out'[t.id])
    BY DEF Covered
  <2>1. t \in Thoughts /\ t.id \in ThoughtIds
    BY <1>2, ThoughtTyped
  <2> DEFINE u == out[t.id]
             v == out'[t.id]
  <2>2. u # None /\ ~Newer(t, u) /\ u \in Thoughts /\ u.id = t.id
    BY <1>4, <2>1 DEF Covered, OutTyped
  <2>3. v # None /\ ~Newer(u, v)
    BY <2>1, <2>2, MergeKeepsNewest
  <2>4. v \in Thoughts
    BY <1>1, <2>1, <2>3 DEF OutTyped
  <2>5. /\ t.at \in Int /\ t.hash \in Int /\ u.at \in Int /\ u.hash \in Int
        /\ v.at \in Int /\ v.hash \in Int
    BY <2>1, <2>2, <2>4, ThoughtTyped
  <2> HIDE DEF u, v
  <2>6. ~Newer(t, v)
    BY <2>2, <2>3, <2>5 DEF Newer
  <2> QED
    BY <2>3, <2>6 DEF v
<1> QED
  BY <1>1, <1>3, <1>4

-----------------------------------------------------------------------------
(* The pages of chunks                                                     *)

(* A commit has chunks: a commit passed over for want of them was denied.  *)
LEMMA CommittedHasChunks ==
  ASSUME Store, NEW c \in DataSets, commits[c] # None
  PROVE  (\E X : ChunkListing(c) \in Seq(X)) /\ Len(ChunkListing(c)) \in Nat \ {0}
<1> DEFINE L == ChunkListing(c)
           X == {L[n] : n \in DOMAIN L}
<1>1. index[c] \in Seq(ChunksOf(c)) /\ DOMAIN L = DOMAIN index[c]
  BY DEF Store, Shapes, ChunkListing
<1>2. \E i : i \in DOMAIN index[c]
  <2>1. 0 \in ChunksOf(c)
    BY CanisterAssumption DEF ChunksOf
  <2>2. Bytes(commits[c].manifest, 0) \in keys[c]
    BY <2>1 DEF Store, CommittedWhole, AllSent, Sent
  <2> QED
    BY <2>2 DEF Store, Indexed
<1>3. DOMAIN L = 1 .. Len(index[c]) /\ Len(index[c]) \in Nat \ {0}
  BY <1>1, <1>2
<1>4. L = [n \in 1 .. Len(index[c]) |-> L[n]]
  BY <1>1, <1>3 DEF ChunkListing
<1> HIDE DEF L
<1>5. L \in [1 .. Len(index[c]) -> X]
  BY <1>3, <1>4
<1> HIDE DEF X
<1>6. L \in Seq(X) /\ Len(L) = Len(index[c])
  BY <1>3, <1>5
<1> QED
  BY <1>3, <1>6 DEF L

(* A page of a sequence that is not empty adds to what was got before it.  *)
LEMMA PageOf ==
  ASSUME NEW A, NEW s \in Seq(A), NEW B, NEW L \in Seq(B), Len(L) # 0
  PROVE  /\ s \o Page(L, Len(s) + 1) \in Seq(A \cup B)
         /\ s \o Page(L, Len(s) + 1) # <<>>
<1> DEFINE from == Len(s) + 1
           to == IF from + PageSize > Len(L) THEN Len(L) ELSE from + PageSize - 1
           page == SubSeq(L, from, to)
<1>1. Len(s) \in Nat /\ Len(L) \in Nat \ {0} /\ PageSize \in Nat \ {0}
  BY CanisterAssumption
<1>2. from \in Nat \ {0} /\ to \in Nat /\ to <= Len(L) /\ (from <= Len(L) => from <= to)
  BY <1>1
<1>3. Page(L, Len(s) + 1) = page
  BY DEF Page
<1>4. s # <<>> \/ from = 1
  BY <1>1
<1> HIDE DEF from, to
<1>5. page \in Seq(B) /\ Len(page) = IF from <= to THEN to - from + 1 ELSE 0
  <2>1. \A n \in from .. to : n \in 1 .. Len(L)
    BY <1>1, <1>2
  <2> QED
    BY <1>1, <1>2, <2>1
<1>6. s # <<>> \/ Len(page) # 0
  BY <1>1, <1>2, <1>4, <1>5
<1> HIDE DEF page
<1>7. s \in Seq(A \cup B) /\ page \in Seq(A \cup B)
  BY <1>5
<1>8. s \o page \in Seq(A \cup B) /\ Len(s \o page) = Len(s) + Len(page)
  BY <1>7
<1>9. Len(s) + Len(page) # 0
  BY <1>1, <1>5, <1>6, <1>7
<1> QED
  BY <1>3, <1>8, <1>9

LEMMA FetchKeeps ==
  ASSUME Store, Ledger, RestoreInv, FetchPage
  PROVE  RestoreInv'
<1> SUFFICES ASSUME ~denied'
             PROVE  /\ RestoreTyped'
                    /\ rpc' = "fetch" =>
                         \A d \in base' : Contains(listed', commits'[d]) \/ Covered(d)'
                    /\ rpc' = "done" => \A d \in base' : Covered(d)'
                    /\ rpc' # "list"
  BY DEF RestoreInv
<1>0. PICK c : c = Head(listed).id
  OBVIOUS
<1> DEFINE all == ChunkListing(c)
           now == got \o Page(all, Len(got) + 1)
<1>1. /\ rpc = "fetch" /\ reader /\ ~denied
      /\ UNCHANGED <<canister, since, base>>
  BY DEF FetchPage
<1>2. /\ RestoreTyped /\ listed # <<>> /\ listed \in Seq(Since(since))
      /\ \A d \in base : Contains(listed, commits[d]) \/ Covered(d)
  BY <1>1 DEF RestoreInv, RestoreTyped
<1>3. commits' = commits /\ Since(since)' = Since(since) /\ BaseIsCommitted'
  BY <1>1, <1>2 DEF canister, Since, Committed, RestoreTyped, BaseIsCommitted
<1>4. /\ Head(listed) = listed[1] /\ Len(listed) \in Nat \ {0}
      /\ Tail(listed) \in Seq(Since(since)) /\ Len(Tail(listed)) = Len(listed) - 1
      /\ \A n \in 2 .. Len(listed) : Tail(listed)[n - 1] = listed[n]
  BY <1>2
<1>5. c \in DataSets /\ commits[c] = listed[1] /\ commits[c] # None
  <2>1. listed[1] \in Since(since)
    BY <1>2, <1>4
  <2> QED
    BY <1>0, <1>4, <2>1 DEF Since, Committed, Ledger
<1>6. (\E S : now \in Seq(S)) /\ now # <<>>
  <2>1. PICK A : got \in Seq(A)
    BY <1>2 DEF RestoreTyped
  <2>2. PICK B : all \in Seq(B) /\ Len(all) # 0
    BY <1>5, CommittedHasChunks
  <2> HIDE DEF all
  <2> QED
    BY <2>1, <2>2, PageOf
<1>7. \/ got' = now /\ UNCHANGED <<rpc, listed, out>>
      \/ /\ got' = <<>> /\ listed' = Tail(listed)
         /\ out' = Merge(out, Content[c])
         /\ rpc' = IF Len(listed) = 1 THEN "done" ELSE "fetch"
      \/ rpc' = "failed" /\ UNCHANGED <<got, listed, out>>
  BY <1>0, <1>1, <1>6 DEF FetchPage, Fetched, Readable
<1> HIDE DEF now
<1>8. CASE got' = now /\ UNCHANGED <<rpc, listed, out>>
  <2>1. OutTyped' /\ \A d \in base : Covered(d)' <=> Covered(d)
    BY <1>2, <1>8 DEF RestoreTyped, OutTyped, Covered
  <2>2. RestoreTyped'
    BY <1>2, <1>3, <1>6, <1>8, <2>1 DEF RestoreTyped
  <2> QED
    BY <1>1, <1>2, <1>3, <1>8, <2>1, <2>2
<1>9. CASE /\ got' = <<>> /\ listed' = Tail(listed)
           /\ out' = Merge(out, Content[c])
           /\ rpc' = IF Len(listed) = 1 THEN "done" ELSE "fetch"
  <2>1. OutTyped' /\ Covered(c)' /\ \A d \in DataSets : Covered(d) => Covered(d)'
    BY <1>2, <1>5, <1>9, MergeCovers DEF RestoreTyped
  <2>2. ASSUME NEW d \in base, ~Covered(d)'
        PROVE  Len(listed) # 1 /\ Contains(listed', commits[d])
    <3>1. d \in DataSets /\ commits[d] \in Since(since)
      BY <1>2 DEF RestoreTyped, BaseIsCommitted
    <3>2. PICK n \in 1 .. Len(listed) : listed[n] = commits[d]
      BY <1>2, <2>1, <2>2, <3>1 DEF Contains
    <3>3. n # 1
      <4> SUFFICES ASSUME n = 1 PROVE FALSE
        OBVIOUS
      <4>1. commits[c].id = c /\ commits[d].id = d
        BY <1>5, <3>1, <3>2 DEF Ledger
      <4>2. c = d
        BY <1>5, <3>2, <4>1
      <4> QED
        BY <2>1, <2>2, <4>2
    <3>4. n \in 2 .. Len(listed) /\ n - 1 \in 1 .. Len(listed')
      BY <1>4, <1>9, <3>2, <3>3
    <3>5. listed'[n - 1] = commits[d]
      BY <1>4, <1>9, <3>2, <3>4
    <3> QED
      BY <1>4, <3>4, <3>5 DEF Contains
  <2>3. RestoreTyped'
    <3>1. got' \in Seq({})
      BY <1>9
    <3>2. \E S : got' \in Seq(S)
      BY <3>1
    <3>3. rpc' = "fetch" => listed' # <<>>
      <4>1. rpc' = "fetch" => Len(listed') # 0
        BY <1>4, <1>9
      <4> QED
        BY <4>1
    <3> QED
      BY <1>3, <1>4, <1>9, <2>1, <3>2, <3>3 DEF RestoreTyped
  <2>4. rpc' = "done" => Len(listed) = 1
    BY <1>9
  <2>5. rpc' # "list"
    BY <1>9
  <2> QED
    BY <1>1, <1>3, <2>2, <2>3, <2>4, <2>5
<1>10. CASE rpc' = "failed" /\ UNCHANGED <<got, listed, out>>
  <2>1. OutTyped'
    BY <1>2, <1>10 DEF RestoreTyped, OutTyped
  <2>2. RestoreTyped'
    BY <1>2, <1>3, <1>10, <2>1 DEF RestoreTyped
  <2> QED
    BY <1>10, <2>2
<1> QED
  BY <1>7, <1>8, <1>9, <1>10

-----------------------------------------------------------------------------
(* The restore                                                             *)

LEMMA InitRestore == Init => Ledger /\ RestoreInv
<1> SUFFICES ASSUME Init PROVE Ledger /\ RestoreInv
  OBVIOUS
<1>1. commits = [d \in DataSets |-> None] /\ clock = 1
  BY DEF Init, CanisterInit
<1>2. Committed = {}
  BY <1>1 DEF Committed
<1>3. Ledger
  BY <1>1, <1>2, FS_EmptySet DEF Ledger
<1>4. BaseIsCommitted /\ OutTyped
  BY DEF Init, BaseIsCommitted, OutTyped
<1>5. got \in Seq({}) /\ listed \in Seq(Since(since)) /\ rpc = "idle"
  BY DEF Init
<1>6. RestoreTyped
  BY <1>4, <1>5 DEF RestoreTyped
<1> QED
  BY <1>3, <1>5, <1>6 DEF RestoreInv

(* Whatever is committed meanwhile, what was seen is still there.          *)
LEMMA OthersKeepRestore ==
  ASSUME Ledger, RestoreInv, Lasting, UNCHANGED restore
  PROVE  RestoreInv'
<1> SUFFICES ASSUME ~denied
             PROVE  /\ RestoreTyped'
                    /\ rpc = "list" => InOrder(listed') /\ \A d \in base : Reached(d)'
                    /\ rpc = "fetch" => \A d \in base : Contains(listed', commits'[d]) \/ Covered(d)'
                    /\ rpc = "done" => \A d \in base : Covered(d)'
  BY DEF RestoreInv, restore
<1>1. UNCHANGED <<rpc, since, listed, got, out, base>>
  BY DEF restore
<1>2. RestoreTyped
  BY DEF RestoreInv
<1>3. Since(since) \subseteq Since(since)'
  BY <1>1 DEF Since, Committed, Lasting
<1>4. \A d \in base : commits'[d] = commits[d]
  BY <1>2 DEF RestoreTyped, BaseIsCommitted, Since, Committed, Lasting, Ledger
<1>5. RestoreTyped'
  <2>1. BaseIsCommitted' /\ OutTyped'
    BY <1>1, <1>2, <1>3, <1>4 DEF RestoreTyped, BaseIsCommitted, OutTyped
  <2>2. listed' \in Seq(Since(since)')
    BY <1>1, <1>2, <1>3 DEF RestoreTyped
  <2>3. \E S : got' \in Seq(S)
    BY <1>1, <1>2 DEF RestoreTyped
  <2>4. rpc' = "fetch" => listed' # <<>>
    BY <1>1, <1>2 DEF RestoreTyped
  <2> QED
    BY <2>1, <2>2, <2>3, <2>4 DEF RestoreTyped
<1>6. \A d \in base : (Covered(d)' <=> Covered(d)) /\ (Reached(d)' <=> Reached(d))
  BY <1>1, <1>4 DEF Covered, Reached
<1> QED
  BY <1>1, <1>4, <1>5, <1>6 DEF RestoreInv

LEMMA StartKeepsRestore ==
  ASSUME Ledger, StartRestore \/ EndRestore
  PROVE  RestoreInv'
<1>1. /\ commits' = commits /\ listed' = <<>> /\ got' = <<>>
      /\ out' = [i \in ThoughtIds |-> None]
      /\ rpc' \in {"list", "idle"}
  BY DEF StartRestore, EndRestore, canister
<1>2. BaseIsCommitted'
  <2>1. CASE EndRestore
    BY <2>1 DEF EndRestore, BaseIsCommitted
  <2>2. CASE StartRestore
    <3>1. PICK s \in {0} \cup {r.created : r \in Committed} :
            since' = s /\ base' = {r.id : r \in {q \in Committed : q.created > s}}
      BY <2>2 DEF StartRestore
    <3>2. \A r \in Committed : r.id \in DataSets /\ commits[r.id] = r /\ r.created \in Nat
      BY DEF Committed, Ledger
    <3>3. since' \in Nat
      BY <3>1, <3>2
    <3>4. Since(since)' = {q \in Committed : q.created > s}
      BY <1>1, <3>1 DEF Since, Committed
    <3> QED
      BY <1>1, <3>1, <3>2, <3>3, <3>4 DEF BaseIsCommitted
  <2> QED
    BY <2>1, <2>2
<1>3. OutTyped'
  BY <1>1 DEF OutTyped
<1>4. got' \in Seq({}) /\ listed' \in Seq(Since(since)')
  BY <1>1
<1>5. RestoreTyped'
  BY <1>1, <1>2, <1>3, <1>4 DEF RestoreTyped
<1>6. InOrder(listed') /\ \A d \in base' : Reached(d)'
  BY <1>1 DEF InOrder, Reached
<1> QED
  BY <1>1, <1>5, <1>6 DEF RestoreInv

LEMMA NextRestore == FullInv /\ [Next]_vars => FullInv'
<1> SUFFICES ASSUME FullInv, [Next]_vars PROVE FullInv'
  OBVIOUS
<1> USE DEF FullInv
<1>1. VaultInv' /\ Ledger' /\ Lasting
  BY NextVault, NextLedger
<1>2. CASE UNCHANGED restore
  BY <1>1, <1>2, OthersKeepRestore
<1>3. CASE StartRestore \/ EndRestore
  BY <1>1, <1>3, StartKeepsRestore
<1>4. CASE ListPage
  BY <1>1, <1>4, ListKeeps
<1>5. CASE FetchPage
  BY <1>1, <1>5, FetchKeeps DEF VaultInv
<1>6. CASE Arrive \/ \E r \in Runs : StartRun(r) \/ Upload(r) \/ FinalizeRun(r)
  BY <1>2, <1>6 DEF Arrive, StartRun, Upload, FinalizeRun
<1> QED
  BY <1>2, <1>3, <1>4, <1>5, <1>6 DEF Next, vars

THEOREM RestoreCorrect == Spec => []FullInv
<1>1. Init => FullInv
  BY InitVault, InitRestore DEF FullInv
<1> QED
  BY <1>1, NextRestore, PTL DEF Spec

(* A restore (restore.ts runRestore, download.ts) that was not refused     *)
(* yields, of every commit there was when it began, every ThoughtForm or a *)
(* newer version of it, for any number of commits, chunks and pages, while *)
(* others commit and the clock stands still or not.                        *)
THEOREM RestoredIsNewestCorrect == Spec => []RestoredIsNewest
<1>1. FullInv => RestoredIsNewest
  BY DEF FullInv, RestoreInv, RestoredIsNewest, Covered
<1> QED
  BY RestoreCorrect, <1>1, PTL
=============================================================================
