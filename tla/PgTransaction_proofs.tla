------------------------ MODULE PgTransaction_proofs ------------------------
(***************************************************************************)
(* Proofs about PgTransaction: the locks that a transaction holds keep     *)
(* what its conditions were checked on, so that it applies its writes as   *)
(* if at once.                                                             *)
(***************************************************************************)
EXTENDS PgTransaction, TLAPS

-----------------------------------------------------------------------------
(* Helpers                                                                 *)

(* The fields of a write.                                                  *)
LEMMA WriteTyped ==
  ASSUME NEW w \in Write
  PROVE  /\ w.id \in Ids
         /\ w.kind \in {"insert", "update", "delete"}
         /\ w.vector \in Vectors \cup {None, Keep}
         /\ w.version \in Nat
         /\ w.kind # "delete" => w.ns \in Namespaces
         /\ w.kind # "update" => w.vector # Keep
         /\ HasVectorStatement(w) => w.vector \in Vectors \cup {None}
<1>1. CASE w \in Inserts
  BY <1>1, PgAssumption DEF Inserts, HasVectorStatement
<1>2. CASE w \in Updates
  BY <1>2, PgAssumption DEF Updates, HasVectorStatement
<1>3. CASE w \in Deletes
  BY <1>3, PgAssumption DEF Deletes, HasVectorStatement
<1> QED BY <1>1, <1>2, <1>3 DEF Write

(* What a write makes of a row that meets its condition is a row.          *)
LEMMA RowAfterTyped ==
  ASSUME NEW w \in Write, NEW row \in Row \cup {None}, Matches(w, row)
  PROVE  /\ RowAfter(w, row) \in Row \cup {None}
         /\ RowAfter(w, row) # Clean
         /\ RowAfter(w, row) = None <=> w.kind = "delete"
<1>1. CASE w.kind = "delete"
  BY <1>1, PgAssumption DEF RowAfter
<1>2. CASE w.kind # "delete"
  <2>1. w.vector = Keep => row \in Row
    BY <1>2, WriteTyped DEF Matches
  <2>2. RowAfter(w, row) \in Row
    BY <1>2, <2>1, WriteTyped DEF RowAfter, Row
  <2> QED BY <1>2, <2>2, PgAssumption
<1> QED BY <1>1, <1>2

(* The writes of a transaction, and the one whose statements come next.    *)
LEMMA WritesTyped ==
  ASSUME TypeOK, NEW t \in Transactions
  PROVE  /\ \A k \in DOMAIN writes[t] : writes[t][k] \in Write /\ writes[t][k].id \in Ids
         /\ DOMAIN writes[t] = 1 .. Len(writes[t])
         /\ Len(writes[t]) \in Nat
         /\ at[t] \in DOMAIN writes[t] => Current(t) \in Write /\ Current(t).id \in Ids
<1>1. writes[t] \in Seq(Write)
  BY DEF TypeOK
<1>2. \A k \in DOMAIN writes[t] : writes[t][k] \in Write
  BY <1>1
<1>3. \A k \in DOMAIN writes[t] : writes[t][k].id \in Ids
  BY <1>2, WriteTyped
<1> QED BY <1>1, <1>2, <1>3 DEF Current

(* A step that leaves alone what a transaction holds and knows keeps its   *)
(* part of the invariant; being refused is as good as waiting.             *)
LEMMA OthersKeep ==
  ASSUME NEW u \in Transactions, InLoop(u), Isolated(u), TypeOK,
         \/ pc'[u] = pc[u]
         \/ pc[u] = "blocked" /\ pc'[u] = "refused",
         batch'[u] = batch[u], writes'[u] = writes[u], at'[u] = at[u],
         rows'[u] = rows[u], embedded'[u] = embedded[u],
         \A i \in Ids : locks[i] = u => locks'[i] = u /\ concepts'[i] = concepts[i]
  PROVE  InLoop(u)' /\ Isolated(u)'
<1>1. InLoop(u)'
  BY DEF InLoop, Current
<1>2. \A k : RowDone(u, k)' <=> RowDone(u, k)
  BY DEF RowDone
<1>3. \A k : AllDone(u, k)' <=> AllDone(u, k)
  BY DEF AllDone
<1>4. \A k \in DOMAIN writes[u] : Prepared(u, k) => Prepared(u, k)'
  BY WritesTyped DEF Prepared
<1>5. Isolated(u)'
  BY <1>2, <1>3, <1>4 DEF Isolated
<1> QED BY <1>1, <1>5

-----------------------------------------------------------------------------
(* The inductive invariant                                                 *)

LEMMA InitInv == Init => PgInv
<1> SUFFICES ASSUME Init PROVE PgInv
  OBVIOUS
<1>1. TypeOK
  BY PgAssumption DEF Init, TypeOK, Unwritten
<1>2. VectorsInStep
  BY DEF Init, VectorsInStep
<1>3. ASSUME NEW t \in Transactions PROVE InLoop(t) /\ Isolated(t)
  BY DEF Init, InLoop, Isolated, Unwritten
<1> QED BY <1>1, <1>2, <1>3 DEF PgInv

(* A transaction that ends leaves nothing behind but, perhaps, new tables. *)
LEMMA ForgottenIsIdle ==
  ASSUME TypeOK, NEW t \in Transactions, Forget(t), pc'[t] = "idle"
  PROVE  InLoop(t)' /\ Isolated(t)'
<1>1. /\ writes'[t] = <<>> /\ at'[t] = 1
      /\ rows'[t] = Unwritten /\ embedded'[t] = Unwritten
  BY DEF Forget, TypeOK
<1>2. InLoop(t)'
  BY <1>1 DEF InLoop
<1>3. Isolated(t)'
  BY <1>1 DEF Isolated, Unwritten
<1> QED BY <1>2, <1>3

-----------------------------------------------------------------------------
(* Steps of the caller                                                     *)

LEMMA RequestBatchKeeps ==
  ASSUME PgInv, NEW t \in Transactions, RequestBatch(t)
  PROVE  PgInv'
<1> USE DEF PgInv
<1>1. TypeOK'
  BY PgAssumption DEF RequestBatch, TypeOK, tables, Goto
<1>2. VectorsInStep'
  BY DEF RequestBatch, VectorsInStep, tables
<1>3. InLoop(t)' /\ Isolated(t)'
  <2>1. writes'[t] = <<>> /\ at'[t] = 1 /\ rows'[t] = rows[t] /\ embedded'[t] = embedded[t]
    BY DEF RequestBatch, InLoop, tables
  <2>2. batch'[t] \in Batches /\ pc'[t] = "plan"
    BY DEF RequestBatch, TypeOK, Goto
  <2>3. Len(batch'[t]) > 0
    BY <2>2, PgAssumption
  <2>4. InLoop(t)'
    BY <2>1, <2>2, <2>3 DEF InLoop
  <2>5. Isolated(t)'
    BY <2>1 DEF InLoop, Isolated, RequestBatch
  <2> QED BY <2>4, <2>5
<1>4. ASSUME NEW u \in Transactions, u # t PROVE InLoop(u)' /\ Isolated(u)'
  BY <1>4, OthersKeep DEF RequestBatch, TypeOK, tables, Goto
<1> QED BY <1>1, <1>2, <1>3, <1>4

LEMMA RequestDeleteKeeps ==
  ASSUME PgInv, NEW t \in Transactions, RequestDelete(t)
  PROVE  PgInv'
<1> USE DEF PgInv
<1>1. PICK w \in Deletes : writes' = [writes EXCEPT ![t] = <<w>>]
  BY DEF RequestDelete
<1>2. w \in Write
  BY DEF Write
<1>3. writes'[t] = <<w>> /\ DOMAIN writes'[t] = {1} /\ Len(writes'[t]) = 1
  BY <1>1 DEF TypeOK
<1>4. TypeOK'
  <2>1. <<w>> \in Seq(Write)
    BY <1>2
  <2>2. writes' \in [Transactions -> Seq(Write)]
    BY <1>1, <2>1 DEF TypeOK
  <2>3. count' \in 0 .. MaxCount
    BY PgAssumption DEF RequestDelete, TypeOK
  <2> QED BY <2>2, <2>3 DEF RequestDelete, TypeOK, tables, Goto
<1>5. VectorsInStep'
  BY DEF RequestDelete, VectorsInStep, tables
<1>6. at'[t] = 1 /\ pc'[t] = "row" /\ pc[t] = "idle" /\ writes[t] = <<>>
  BY DEF RequestDelete, InLoop, TypeOK, Goto
<1>7. InLoop(t)'
  BY <1>3, <1>6 DEF InLoop
<1>8. Isolated(t)'
  BY <1>3, <1>6 DEF RequestDelete, InLoop, Isolated, RowDone, AllDone
<1>9. ASSUME NEW u \in Transactions, u # t PROVE InLoop(u)' /\ Isolated(u)'
  BY <1>9, <1>1, OthersKeep DEF RequestDelete, TypeOK, tables, Goto
<1> QED BY <1>4, <1>5, <1>7, <1>8, <1>9

(* A planned write is a write of the next id of the batch.                 *)
LEMMA PlanKeeps ==
  ASSUME PgInv, NEW t \in Transactions, Plan(t)
  PROVE  PgInv'
<1> USE DEF PgInv
<1> DEFINE n == Len(writes[t])
           i == batch[t][n + 1]
<1>1. /\ pc[t] = "plan" /\ at[t] = 1 /\ batch[t] \in Batches /\ n < Len(batch[t])
      /\ batch[t] \in Seq(Ids) /\ n \in Nat /\ writes[t] \in Seq(Write)
  BY PgAssumption DEF Plan, InLoop, TypeOK
<1>2. i \in Ids
  BY <1>1
<1>3. PICK w : /\ w \in Inserts \cup Updates /\ w.id = i /\ w.kind # "delete"
               /\ writes' = [writes EXCEPT ![t] = Append(@, w)]
  <2>1. PICK ns \in Namespaces, vector \in Vectors \cup {None, Keep} :
          LET w == IF concepts[i] = None
                   THEN [kind |-> "insert", id |-> i, ns |-> ns, version |-> 0, vector |-> vector]
                   ELSE [kind |-> "update", id |-> i, ns |-> ns,
                         version |-> concepts[i].version, vector |-> vector]
          IN  PlannedOn(w, concepts[i]) /\ writes' = [writes EXCEPT ![t] = Append(@, w)]
    BY DEF Plan
  <2>2. CASE concepts[i] = None
    <3> WITNESS [kind |-> "insert", id |-> i, ns |-> ns, version |-> 0, vector |-> vector]
    <3> QED BY <2>1, <2>2 DEF PlannedOn
  <2>3. CASE concepts[i] # None
    <3> WITNESS [kind |-> "update", id |-> i, ns |-> ns,
                 version |-> concepts[i].version, vector |-> vector]
    <3> QED BY <2>1, <2>3 DEF PlannedOn
  <2> QED BY <2>2, <2>3
<1>4. /\ writes'[t] = Append(writes[t], w) /\ Len(writes'[t]) = n + 1
      /\ \A k \in 1 .. n : writes'[t][k] = writes[t][k]
      /\ writes'[t][n + 1] = w
      /\ DOMAIN writes'[t] = 1 .. n + 1 /\ DOMAIN writes[t] = 1 .. n
  <2>1. writes'[t] = Append(writes[t], w)
    BY <1>3 DEF TypeOK
  <2> QED BY <2>1, <1>1
<1>5. TypeOK'
  <2>1. w \in Write /\ Append(writes[t], w) \in Seq(Write)
    BY <1>1, <1>3 DEF Write
  <2> QED BY <1>1, <1>3, <2>1, PgAssumption DEF Plan, TypeOK, tables, Goto
<1>6. VectorsInStep'
  BY DEF Plan, VectorsInStep, tables
<1>7. /\ at'[t] = 1 /\ batch'[t] = batch[t]
      /\ pc'[t] = IF n + 1 = Len(batch[t]) THEN "row" ELSE "plan"
  BY <1>1 DEF Plan, TypeOK, Goto
<1>8. InLoop(t)'
  <2>1. \A k \in 1 .. n + 1 : writes'[t][k].id = batch[t][k]
    BY <1>1, <1>3, <1>4 DEF InLoop
  <2>2. \A j, k \in 1 .. n + 1 : batch[t][j] = batch[t][k] => j = k
    BY <1>1, PgAssumption
  <2>3. \A k \in 1 .. n + 1 : writes'[t][k].kind # "delete"
    BY <1>1, <1>3, <1>4 DEF InLoop
  <2> QED BY <1>1, <1>4, <1>7, <2>1, <2>2, <2>3 DEF InLoop
<1>9. Isolated(t)'
  <2>1. \A k \in 1 .. n + 1 : ~RowDone(t, k)' /\ ~AllDone(t, k)'
    BY <1>1, <1>7 DEF RowDone, AllDone
  <2>2. \A k \in 1 .. n : ~RowDone(t, k) /\ ~AllDone(t, k)
    BY <1>1 DEF RowDone, AllDone
  <2>3. rows'[t] = rows[t] /\ embedded'[t] = embedded[t]
    BY DEF Plan
  <2>4. \A j \in Ids : rows[t][j] = Clean /\ embedded[t][j] = Clean
    BY <1>4, <2>2 DEF Isolated
  <2> QED BY <1>4, <2>1, <2>3, <2>4 DEF Isolated
<1>10. ASSUME NEW u \in Transactions, u # t PROVE InLoop(u)' /\ Isolated(u)'
  BY <1>10, <1>3, OthersKeep DEF Plan, TypeOK, tables, Goto
<1> QED BY <1>5, <1>6, <1>8, <1>9, <1>10

-----------------------------------------------------------------------------
(* Statements                                                              *)

(* Going on to the next write, or to COMMIT.                               *)
LEMMA NextWriteTyped ==
  ASSUME PgInv, NEW t \in Transactions, at[t] \in DOMAIN writes[t], NextWrite(t)
  PROVE  /\ at' \in [Transactions -> Nat \ {0}] /\ at'[t] = at[t] + 1
         /\ \A u \in Transactions : u # t => at'[u] = at[u] /\ pc'[u] = pc[u]
         /\ pc'[t] = IF at[t] = Len(writes[t]) THEN "commit" ELSE "row"
         /\ pc' \in [Transactions ->
               {"idle", "plan", "row", "vector", "blocked", "refused", "commit"}]
         /\ writes'[t] = writes[t] => InLoop(t)'
<1>1. /\ at' \in [Transactions -> Nat \ {0}] /\ at'[t] = at[t] + 1
      /\ \A u \in Transactions : u # t => at'[u] = at[u] /\ pc'[u] = pc[u]
      /\ pc'[t] = IF at[t] = Len(writes[t]) THEN "commit" ELSE "row"
      /\ pc' \in [Transactions ->
            {"idle", "plan", "row", "vector", "blocked", "refused", "commit"}]
  BY DEF PgInv, NextWrite, Goto, TypeOK
<1>2. ASSUME writes'[t] = writes[t] PROVE InLoop(t)'
  <2>1. DOMAIN writes[t] = 1 .. Len(writes[t]) /\ Len(writes[t]) \in Nat /\ at[t] \in Nat
    BY WritesTyped DEF PgInv, TypeOK
  <2> QED BY <1>1, <1>2, <2>1 DEF PgInv, InLoop
<1> QED BY <1>1, <1>2

(* The row is locked, and its condition holds: it is prepared.             *)
LEMMA RowStatementKeeps ==
  ASSUME PgInv, NEW t \in Transactions, RowStatement(t)
  PROVE  PgInv'
<1> USE DEF PgInv
<1> DEFINE n == at[t]
           w == Current(t)
<1>1. /\ pc[t] = "row" /\ n \in DOMAIN writes[t] /\ w = writes[t][n]
      /\ w \in Write /\ w.id \in Ids /\ n \in Nat
  BY WritesTyped DEF RowStatement, InLoop, Current, TypeOK
<1>2. /\ locks[w.id] = None /\ Matches(w, concepts[w.id])
      /\ locks' = [locks EXCEPT ![w.id] = t]
      /\ rows' = [rows EXCEPT ![t][w.id] = RowAfter(w, concepts[w.id])]
      /\ embedded' = [embedded EXCEPT ![t][w.id] = IF w.kind = "delete" THEN None ELSE @]
      /\ UNCHANGED <<concepts, vectors, batch, writes, count>>
  BY DEF RowStatement, Free, tables
<1>3. concepts[w.id] \in Row \cup {None}
  BY <1>1 DEF TypeOK
<1>4. /\ RowAfter(w, concepts[w.id]) \in Row \cup {None}
      /\ RowAfter(w, concepts[w.id]) # Clean
  BY <1>1, <1>2, <1>3, RowAfterTyped
<1>5. \/ /\ HasVectorStatement(w) /\ pc' = [pc EXCEPT ![t] = "vector"] /\ at' = at
      \/ ~HasVectorStatement(w) /\ NextWrite(t)
  BY DEF RowStatement, Goto
<1>6. /\ at' \in [Transactions -> Nat \ {0}]
      /\ \A u \in Transactions : u # t => at'[u] = at[u] /\ pc'[u] = pc[u]
      /\ pc'[t] \in {"row", "vector", "commit"}
      /\ pc' \in [Transactions ->
            {"idle", "plan", "row", "vector", "blocked", "refused", "commit"}]
      /\ \/ HasVectorStatement(w) /\ pc'[t] = "vector" /\ at'[t] = n
         \/ ~HasVectorStatement(w) /\ pc'[t] # "vector" /\ at'[t] = n + 1
  BY <1>1, <1>5, NextWriteTyped DEF TypeOK
<1>7. TypeOK'
  <2>1. locks' \in [Ids -> Transactions \cup {None}]
    BY <1>2 DEF TypeOK
  <2>2. rows' \in [Transactions -> [Ids -> Row \cup {None, Clean}]]
    BY <1>2, <1>4 DEF TypeOK
  <2>3. embedded' \in [Transactions -> [Ids -> Vectors \cup {None, Clean}]]
    BY <1>1, <1>2 DEF TypeOK
  <2>4. ASSUME NEW i \in Ids, locks'[i] # None PROVE pc'[locks'[i]] \notin {"idle", "plan"}
    <3>1. CASE i = w.id
      <4>1. locks'[i] = t
        BY <1>2, <3>1 DEF TypeOK
      <4> QED BY <1>6, <4>1
    <3>2. CASE i # w.id
      <4>1. locks'[i] = locks[i] /\ locks[i] \in Transactions
        BY <1>2, <2>4, <3>2 DEF TypeOK
      <4>2. pc[locks[i]] \notin {"idle", "plan"}
        BY <2>4, <4>1 DEF TypeOK
      <4>3. locks[i] = t \/ pc'[locks[i]] = pc[locks[i]]
        BY <1>6, <4>1
      <4> QED BY <1>6, <4>1, <4>2, <4>3
    <3> QED BY <3>1, <3>2
  <2> QED BY <1>2, <1>6, <2>1, <2>2, <2>3, <2>4 DEF TypeOK
<1>8. VectorsInStep'
  BY <1>2 DEF VectorsInStep
<1>9. InLoop(t)'
  <2>1. CASE HasVectorStatement(w)
    BY <1>1, <1>2, <1>6, <2>1 DEF InLoop, Current
  <2>2. CASE ~HasVectorStatement(w)
    BY <1>1, <1>2, <1>5, <2>2, NextWriteTyped
  <2> QED BY <2>1, <2>2
<1>10. Isolated(t)'
  <2>1. /\ \A i \in Ids : i # w.id => rows'[t][i] = rows[t][i] /\ embedded'[t][i] = embedded[t][i]
        /\ rows'[t][w.id] = RowAfter(w, concepts[w.id])
        /\ embedded'[t][w.id] = IF w.kind = "delete" THEN None ELSE embedded[t][w.id]
    BY <1>1, <1>2 DEF TypeOK
  <2>2. /\ \A k \in DOMAIN writes[t] : writes[t][k].id \in Ids
        /\ \A k \in DOMAIN writes[t] : writes[t][k].id = w.id => k = n
        /\ \A k \in DOMAIN writes[t] : k \in Nat
    BY <1>1, WritesTyped DEF InLoop
  <2>3. \A k \in DOMAIN writes[t] : RowDone(t, k)' <=> RowDone(t, k) \/ k = n
    BY <1>1, <1>6, <2>2 DEF RowDone
  <2>4. \A k \in DOMAIN writes[t] :
          AllDone(t, k)' <=> AllDone(t, k) \/ (k = n /\ ~HasVectorStatement(w))
    BY <1>1, <1>6, <2>2 DEF AllDone
  <2>5. ~AllDone(t, n)
    BY <1>1 DEF AllDone
  <2>6. embedded[t][w.id] = Clean
    BY <1>1, <2>2, <2>5 DEF Isolated
  <2>7. \A k \in DOMAIN writes[t] : k = n => Prepared(t, k)'
    BY <1>1, <1>2, <2>1 DEF Prepared, TypeOK
  <2>8. \A k \in DOMAIN writes[t] : k # n /\ Prepared(t, k) => Prepared(t, k)'
    BY <1>1, <1>2, <2>1, <2>2 DEF Prepared, TypeOK
  <2>9. \A k \in DOMAIN writes[t] : RowDone(t, k)' => Prepared(t, k)'
    BY <2>3, <2>7, <2>8 DEF Isolated
  <2>10. \A k \in DOMAIN writes[t] :
           AllDone(t, k)' => embedded'[t][writes[t][k].id] = EmbeddedBy(writes[t][k])
    BY <1>1, <2>1, <2>2, <2>4, <2>5, <2>6 DEF Isolated, EmbeddedBy
  <2>11. ASSUME NEW i \in Ids, \A k \in DOMAIN writes[t] : RowDone(t, k)' => writes[t][k].id # i
         PROVE  rows'[t][i] = Clean
    BY <1>1, <2>1, <2>3, <2>11 DEF Isolated
  <2>12. ASSUME NEW i \in Ids, \A k \in DOMAIN writes[t] : AllDone(t, k)' => writes[t][k].id # i
         PROVE  embedded'[t][i] = Clean
    <3>1. i = w.id => w.kind # "delete"
      BY <1>1, <2>4, <2>12 DEF HasVectorStatement
    <3> QED BY <2>1, <2>4, <2>6, <2>12, <3>1 DEF Isolated
  <2> QED BY <1>2, <2>9, <2>10, <2>11, <2>12 DEF Isolated
<1>11. ASSUME NEW u \in Transactions, u # t PROVE InLoop(u)' /\ Isolated(u)'
  <2>1. \A i \in Ids : locks[i] = u => locks'[i] = u
    BY <1>1, <1>2, PgAssumption DEF TypeOK
  <2> QED BY <1>2, <1>6, <1>11, <2>1, OthersKeep DEF TypeOK
<1> QED BY <1>7, <1>8, <1>9, <1>10, <1>11

LEMMA VectorStatementKeeps ==
  ASSUME PgInv, NEW t \in Transactions, VectorStatement(t)
  PROVE  PgInv'
<1> USE DEF PgInv
<1> DEFINE n == at[t]
           w == Current(t)
<1>1. /\ pc[t] = "vector" /\ n \in DOMAIN writes[t] /\ w = writes[t][n]
      /\ w \in Write /\ w.id \in Ids /\ n \in Nat
      /\ HasVectorStatement(w) /\ w.kind # "delete" /\ w.vector \in Vectors \cup {None}
  <2>1. /\ pc[t] = "vector" /\ n \in DOMAIN writes[t] /\ HasVectorStatement(w) /\ n \in Nat
    BY DEF VectorStatement, InLoop, TypeOK
  <2> QED BY <2>1, WritesTyped, WriteTyped DEF Current, HasVectorStatement
<1>2. /\ embedded' = [embedded EXCEPT ![t][w.id] = w.vector] /\ NextWrite(t)
      /\ UNCHANGED <<concepts, vectors, locks, batch, writes, rows, count>>
  BY DEF VectorStatement, tables
<1>3. /\ at' \in [Transactions -> Nat \ {0}] /\ at'[t] = n + 1
      /\ \A u \in Transactions : u # t => at'[u] = at[u] /\ pc'[u] = pc[u]
      /\ pc'[t] \in {"row", "commit"}
      /\ pc' \in [Transactions ->
            {"idle", "plan", "row", "vector", "blocked", "refused", "commit"}]
      /\ InLoop(t)'
  BY <1>1, <1>2, NextWriteTyped
<1>4. TypeOK'
  <2>1. embedded' \in [Transactions -> [Ids -> Vectors \cup {None, Clean}]]
    BY <1>1, <1>2 DEF TypeOK
  <2>2. \A i \in Ids : locks'[i] # None => pc'[locks'[i]] \notin {"idle", "plan"}
    BY <1>2, <1>3 DEF TypeOK
  <2> QED BY <1>2, <1>3, <2>1, <2>2 DEF TypeOK
<1>5. VectorsInStep'
  BY <1>2 DEF VectorsInStep
<1>6. Isolated(t)'
  <2>1. /\ \A i \in Ids : i # w.id => embedded'[t][i] = embedded[t][i]
        /\ embedded'[t][w.id] = w.vector
    BY <1>1, <1>2 DEF TypeOK
  <2>2. /\ \A k \in DOMAIN writes[t] : writes[t][k].id \in Ids
        /\ \A k \in DOMAIN writes[t] : writes[t][k].id = w.id => k = n
        /\ \A k \in DOMAIN writes[t] : k \in Nat
    BY <1>1, WritesTyped DEF InLoop
  <2>3. \A k \in DOMAIN writes[t] : RowDone(t, k)' <=> RowDone(t, k)
    BY <1>1, <1>3, <2>2 DEF RowDone
  <2>4. \A k \in DOMAIN writes[t] : AllDone(t, k)' <=> AllDone(t, k) \/ k = n
    BY <1>1, <1>3, <2>2 DEF AllDone
  <2>5. \A k \in DOMAIN writes[t] : Prepared(t, k)' <=> Prepared(t, k)
    BY <1>2 DEF Prepared
  <2>6. EmbeddedBy(w) = w.vector
    BY <1>1 DEF EmbeddedBy
  <2>7. \A k \in DOMAIN writes[t] :
           AllDone(t, k)' => embedded'[t][writes[t][k].id] = EmbeddedBy(writes[t][k])
    BY <1>1, <2>1, <2>2, <2>4, <2>6 DEF Isolated
  <2>8. ASSUME NEW i \in Ids, \A k \in DOMAIN writes[t] : AllDone(t, k)' => writes[t][k].id # i
        PROVE  embedded'[t][i] = Clean
    BY <1>1, <2>1, <2>4, <2>8 DEF Isolated
  <2> QED BY <1>2, <2>3, <2>5, <2>7, <2>8 DEF Isolated
<1>7. ASSUME NEW u \in Transactions, u # t PROVE InLoop(u)' /\ Isolated(u)'
  BY <1>2, <1>3, <1>7, OthersKeep DEF TypeOK
<1> QED BY <1>3, <1>4, <1>5, <1>6, <1>7

(* Waiting, being woken and being refused change nothing but pc.           *)
LEMMA WaitingKeeps ==
  ASSUME PgInv, NEW t \in Transactions, Block(t) \/ Wake(t) \/ Refuse(t)
  PROVE  PgInv'
<1> USE DEF PgInv
<1>1. /\ pc[t] \in {"row", "blocked"}
      /\ \E where \in {"row", "blocked", "refused"} : pc' = [pc EXCEPT ![t] = where]
      /\ UNCHANGED <<concepts, vectors, locks, batch, writes, at, rows, embedded, count>>
  BY DEF Block, Wake, Refuse, Goto, tables
<1>2. /\ pc'[t] \in {"row", "blocked", "refused"}
      /\ \A u \in Transactions : u # t => pc'[u] = pc[u]
  BY <1>1 DEF TypeOK
<1>3. TypeOK'
  BY <1>1, <1>2 DEF TypeOK
<1>4. VectorsInStep'
  BY <1>1 DEF VectorsInStep
<1>5. InLoop(t)'
  BY <1>1, <1>2 DEF InLoop
<1>6. Isolated(t)'
  <2>1. /\ \A k : RowDone(t, k)' <=> RowDone(t, k)
        /\ \A k : AllDone(t, k)' <=> AllDone(t, k)
        /\ \A k : Prepared(t, k)' <=> Prepared(t, k)
    BY <1>1, <1>2 DEF RowDone, AllDone, Prepared
  <2> QED BY <1>1, <2>1 DEF Isolated
<1>7. ASSUME NEW u \in Transactions, u # t PROVE InLoop(u)' /\ Isolated(u)'
  BY <1>1, <1>2, <1>7, OthersKeep
<1> QED BY <1>3, <1>4, <1>5, <1>6, <1>7

-----------------------------------------------------------------------------
(* The end of a transaction                                                *)

(* It lets go of its own locks and of no others.                           *)
LEMMA ForgetTyped ==
  ASSUME PgInv, NEW t \in Transactions, Forget(t), Unlock(t)
  PROVE  /\ batch' \in [Transactions -> Batches \cup {<<>>}]
         /\ writes' \in [Transactions -> Seq(Write)]
         /\ at' \in [Transactions -> Nat \ {0}]
         /\ rows' \in [Transactions -> [Ids -> Row \cup {None, Clean}]]
         /\ embedded' \in [Transactions -> [Ids -> Vectors \cup {None, Clean}]]
         /\ locks' \in [Ids -> Transactions \cup {None}]
         /\ \A i \in Ids : locks'[i] = IF locks[i] = t THEN None ELSE locks[i]
         /\ \A u \in Transactions : u # t =>
              /\ batch'[u] = batch[u] /\ writes'[u] = writes[u] /\ at'[u] = at[u]
              /\ rows'[u] = rows[u] /\ embedded'[u] = embedded[u]
<1>1. <<>> \in Seq(Write)
  OBVIOUS
<1>2. Unwritten \in [Ids -> Row \cup {None, Clean}] /\ Unwritten \in [Ids -> Vectors \cup {None, Clean}]
  BY DEF Unwritten
<1> QED BY <1>1, <1>2 DEF Forget, Unlock, PgInv, TypeOK

LEMMA AbortKeeps ==
  ASSUME PgInv, NEW t \in Transactions, Rollback(t) \/ Fail(t) \/ Victim(t)
  PROVE  PgInv'
<1>1. /\ pc' = [pc EXCEPT ![t] = "idle"] /\ Forget(t) /\ Unlock(t)
      /\ UNCHANGED <<concepts, vectors, count>>
  BY DEF Rollback, Fail, Victim, Abort, Goto, tables
<1>2. pc'[t] = "idle" /\ \A u \in Transactions : u # t => pc'[u] = pc[u]
  BY <1>1 DEF PgInv, TypeOK
<1>3. TypeOK'
  <2>1. ASSUME NEW i \in Ids, locks'[i] # None PROVE pc'[locks'[i]] \notin {"idle", "plan"}
    <3>1. locks'[i] = locks[i] /\ locks[i] \in Transactions \ {t}
      BY <1>1, <2>1, ForgetTyped DEF PgInv, TypeOK
    <3> QED BY <1>2, <2>1, <3>1 DEF PgInv, TypeOK
  <2> QED BY <1>1, <2>1, ForgetTyped DEF PgInv, TypeOK
<1>4. VectorsInStep'
  BY <1>1 DEF PgInv, VectorsInStep
<1>5. InLoop(t)' /\ Isolated(t)'
  BY <1>1, <1>2, ForgottenIsIdle DEF PgInv
<1>6. ASSUME NEW u \in Transactions, u # t PROVE InLoop(u)' /\ Isolated(u)'
  <2>1. \A i \in Ids : locks[i] = u => locks'[i] = u
    BY <1>1, <1>6, ForgetTyped
  <2> QED BY <1>1, <1>2, <1>6, <2>1, ForgetTyped, OthersKeep DEF PgInv
<1> QED BY <1>3, <1>4, <1>5, <1>6 DEF PgInv

(* A write without a statement on concept_vectors leaves its row as it is  *)
(* to be.                                                                  *)
LEMMA VectorAfterWrite ==
  ASSUME NEW w \in Write, NEW row, NEW vector, Matches(w, row),
         vector = IF row = None THEN None ELSE row.vector
  PROVE  VectorAfter(w, vector) = IF EmbeddedBy(w) = Clean THEN vector ELSE EmbeddedBy(w)
<1>1. CASE w.kind = "delete"
  BY <1>1, PgAssumption DEF VectorAfter, EmbeddedBy
<1>2. CASE w.kind = "insert"
  BY <1>2, WriteTyped, PgAssumption DEF VectorAfter, EmbeddedBy, HasVectorStatement, Matches
<1>3. CASE w.kind = "update"
  BY <1>3, WriteTyped, PgAssumption DEF VectorAfter, EmbeddedBy, HasVectorStatement
<1> QED BY <1>1, <1>2, <1>3, WriteTyped

(* What a transaction that commits has prepared is what its writes, all at *)
(* once, make of the tables.                                               *)
LEMMA CommitApplies ==
  ASSUME PgInv, NEW t \in Transactions, Commit(t)
  PROVE  AppliedAtOnce(t)
<1> USE DEF PgInv
<1>1. \A k \in DOMAIN writes[t] : RowDone(t, k) /\ AllDone(t, k)
  BY WritesTyped DEF Commit, InLoop, RowDone, AllDone
<1>2. ASSUME NEW i \in Ids, Written(t, i)
      PROVE  /\ Matches(WriteOf(t, i), concepts[i]) /\ locks[i] = t
             /\ rows[t][i] = RowAfter(WriteOf(t, i), concepts[i])
             /\ rows[t][i] # Clean
             /\ embedded[t][i] = EmbeddedBy(WriteOf(t, i))
             /\ WriteOf(t, i) \in Write
  <2> DEFINE k == CHOOSE j \in DOMAIN writes[t] : writes[t][j].id = i
  <2>1. k \in DOMAIN writes[t] /\ writes[t][k].id = i
    BY <1>2 DEF Written
  <2>2. WriteOf(t, i) = writes[t][k]
    BY DEF WriteOf
  <2>3. writes[t][k] \in Write /\ concepts[i] \in Row \cup {None}
    BY <2>1, WritesTyped DEF TypeOK
  <2> HIDE DEF k
  <2>4. Prepared(t, k) /\ embedded[t][i] = EmbeddedBy(writes[t][k])
    BY <1>1, <2>1 DEF Isolated
  <2> QED BY <2>1, <2>2, <2>3, <2>4, RowAfterTyped DEF Prepared
<1>3. ASSUME NEW i \in Ids, ~Written(t, i)
      PROVE  rows[t][i] = Clean /\ embedded[t][i] = Clean
  BY <1>3 DEF Isolated, Written
<1>4. concepts' = [i \in Ids |-> IF Written(t, i) THEN RowAfter(WriteOf(t, i), concepts[i])
                                 ELSE concepts[i]]
  BY <1>2, <1>3 DEF Commit
<1>5. ASSUME NEW i \in Ids, Written(t, i)
      PROVE  VectorAfter(WriteOf(t, i), vectors[i]) =
               IF embedded[t][i] = Clean THEN vectors[i] ELSE embedded[t][i]
  BY <1>2, <1>5, VectorAfterWrite DEF VectorsInStep
<1>6. vectors' = [i \in Ids |-> IF Written(t, i) THEN VectorAfter(WriteOf(t, i), vectors[i])
                                ELSE vectors[i]]
  BY <1>3, <1>5 DEF Commit
<1> QED BY <1>2, <1>4, <1>6 DEF AppliedAtOnce

(* Nothing that another transaction has locked changes.                    *)
LEMMA CommitKeeps ==
  ASSUME PgInv, NEW t \in Transactions, Commit(t)
  PROVE  PgInv'
<1> USE DEF PgInv
<1>1. Forget(t) /\ Unlock(t) /\ count' = count /\ AppliedAtOnce(t)
  BY CommitApplies DEF Commit
<1>2. /\ pc'[t] = "idle"
      /\ pc' \in [Transactions ->
            {"idle", "plan", "row", "vector", "blocked", "refused", "commit"}]
      /\ \A u \in Transactions : u # t =>
           pc'[u] = pc[u] \/ (pc[u] = "blocked" /\ pc'[u] = "refused")
  <2>1. \A u \in Transactions : FindsDeleted(u, t) => pc[u] = "blocked"
    BY DEF FindsDeleted
  <2>2. pc' = [u \in Transactions |-> IF u = t THEN "idle"
                                     ELSE IF FindsDeleted(u, t) THEN "refused" ELSE pc[u]]
    BY DEF Commit
  <2>3. \A u \in Transactions : u # t =>
          pc'[u] = pc[u] \/ (pc[u] = "blocked" /\ pc'[u] = "refused")
    BY <2>1, <2>2
  <2> QED BY <2>2, <2>3 DEF TypeOK
<1>3. \A i \in Ids : Written(t, i) => WriteOf(t, i) \in Write /\ Matches(WriteOf(t, i), concepts[i])
  <2>1. ASSUME NEW i \in Ids, Written(t, i) PROVE WriteOf(t, i) \in Write
    BY <2>1, WritesTyped DEF Written, WriteOf
  <2> QED BY <1>1, <2>1 DEF AppliedAtOnce
<1>4. concepts' \in [Ids -> Row \cup {None}]
  <2>1. \A i \in Ids : concepts[i] \in Row \cup {None}
    BY DEF TypeOK
  <2>2. \A i \in Ids : concepts'[i] \in Row \cup {None}
    BY <1>1, <1>3, <2>1, RowAfterTyped DEF AppliedAtOnce
  <2> QED BY <1>1, <2>2 DEF AppliedAtOnce
<1>5. vectors' \in [Ids -> Vectors \cup {None}]
  BY DEF Commit, TypeOK
<1>6. TypeOK'
  <2>1. ASSUME NEW i \in Ids, locks'[i] # None PROVE pc'[locks'[i]] \notin {"idle", "plan"}
    <3>1. locks'[i] = locks[i] /\ locks[i] \in Transactions \ {t}
      BY <1>1, <2>1, ForgetTyped DEF TypeOK
    <3> QED BY <1>2, <2>1, <3>1 DEF TypeOK
  <2> QED BY <1>1, <1>2, <1>4, <1>5, <2>1, ForgetTyped DEF TypeOK
<1>7. VectorsInStep'
  <2> SUFFICES ASSUME NEW i \in Ids
               PROVE  vectors'[i] = IF concepts'[i] = None THEN None ELSE concepts'[i].vector
    BY DEF VectorsInStep
  <2>1. vectors[i] = IF concepts[i] = None THEN None ELSE concepts[i].vector
    BY DEF VectorsInStep
  <2>2. CASE ~Written(t, i)
    BY <1>1, <2>1, <2>2 DEF AppliedAtOnce
  <2>3. CASE Written(t, i)
    <3> DEFINE w == WriteOf(t, i)
    <3>1. /\ w \in Write /\ Matches(w, concepts[i])
          /\ concepts'[i] = RowAfter(w, concepts[i]) /\ vectors'[i] = VectorAfter(w, vectors[i])
          /\ concepts[i] \in Row \cup {None}
      BY <1>1, <1>3, <2>3 DEF AppliedAtOnce, TypeOK
    <3> HIDE DEF w
    <3>2. concepts'[i] = None <=> w.kind = "delete"
      BY <3>1, RowAfterTyped
    <3>3. w.vector = Keep => concepts[i] # None
      BY <3>1, WriteTyped DEF Matches
    <3> QED BY <2>1, <3>1, <3>2, <3>3 DEF RowAfter, VectorAfter
  <2> QED BY <2>2, <2>3
<1>8. InLoop(t)' /\ Isolated(t)'
  BY <1>1, <1>2, ForgottenIsIdle
<1>9. ASSUME NEW u \in Transactions, u # t PROVE InLoop(u)' /\ Isolated(u)'
  <2>1. \A i \in Ids : locks[i] = u => locks'[i] = u
    BY <1>1, <1>9, ForgetTyped
  <2>2. ASSUME NEW i \in Ids, locks[i] = u PROVE concepts'[i] = concepts[i]
    <3>1. rows[t][i] = Clean
      <4>1. \A k \in DOMAIN writes[t] : RowDone(t, k) => writes[t][k].id # i
        BY <1>9, <2>2 DEF Isolated, Prepared
      <4> QED BY <4>1 DEF Isolated
    <3> QED BY <3>1 DEF Commit
  <2>3. /\ batch'[u] = batch[u] /\ writes'[u] = writes[u] /\ at'[u] = at[u]
        /\ rows'[u] = rows[u] /\ embedded'[u] = embedded[u]
    BY <1>1, <1>9, ForgetTyped
  <2>4. InLoop(u) /\ Isolated(u)
    OBVIOUS
  <2> QED BY <1>2, <1>9, <2>1, <2>2, <2>3, <2>4, OthersKeep
<1> QED BY <1>6, <1>7, <1>8, <1>9

-----------------------------------------------------------------------------
(* The theorems                                                            *)

LEMMA InvPreserved ==
  ASSUME PgInv, [Next]_vars
  PROVE  PgInv'
<1>1. CASE Next
  <2>1. PICK t \in Transactions : RequestBatch(t) \/ RequestDelete(t) \/ Step(t) \/ Fail(t)
    BY <1>1 DEF Next
  <2>2. CASE RequestBatch(t)
    BY <2>2, RequestBatchKeeps
  <2>3. CASE RequestDelete(t)
    BY <2>3, RequestDeleteKeeps
  <2>4. CASE Plan(t)
    BY <2>4, PlanKeeps
  <2>5. CASE RowStatement(t)
    BY <2>5, RowStatementKeeps
  <2>6. CASE VectorStatement(t)
    BY <2>6, VectorStatementKeeps
  <2>7. CASE Block(t) \/ Wake(t) \/ Refuse(t)
    BY <2>7, WaitingKeeps
  <2>8. CASE Rollback(t) \/ Fail(t) \/ Victim(t)
    BY <2>8, AbortKeeps
  <2>9. CASE Commit(t)
    BY <2>9, CommitKeeps
  <2> QED BY <2>1, <2>2, <2>3, <2>4, <2>5, <2>6, <2>7, <2>8, <2>9 DEF Step
<1>2. CASE UNCHANGED vars
  BY <1>2 DEF vars, tables, PgInv, TypeOK, VectorsInStep, InLoop, Current, Isolated,
     RowDone, AllDone, Prepared
<1> QED BY <1>1, <1>2

(* However the statements of overlapping transactions interleave, wait and *)
(* are undone: the rows that a transaction has written are locked, still   *)
(* meet its conditions as they are committed, and what it is going to      *)
(* commit is what its plan says; concept_vectors stays in step.            *)
THEOREM Invariance == Spec => []PgInv
<1> QED BY InitInv, InvPreserved, PTL DEF Spec

(* Every variable keeps its type, and only transactions that are under way *)
(* hold locks.                                                             *)
THEOREM TypeCorrect == Spec => []TypeOK
<1>1. PgInv => TypeOK
  BY DEF PgInv
<1> QED BY <1>1, Invariance, PTL

(* The tables change only when a transaction commits.                      *)
LEMMA OnlyCommits ==
  ASSUME [Next]_vars
  PROVE  (\E t \in Transactions : Commit(t)) \/ UNCHANGED tables
<1>1. CASE Next
  <2>1. PICK t \in Transactions : RequestBatch(t) \/ RequestDelete(t) \/ Step(t) \/ Fail(t)
    BY <1>1 DEF Next
  <2>2. CASE ~Commit(t)
    BY <2>1, <2>2 DEF RequestBatch, RequestDelete, Step, Plan, RowStatement, VectorStatement,
       Block, Wake, Refuse, Rollback, Victim, Fail, Abort
  <2> QED BY <2>2
<1>2. CASE UNCHANGED vars
  BY <1>2 DEF vars
<1> QED BY <1>1, <1>2

(* applyWrites is atomic: the tables change only by a whole transaction,   *)
(* whose conditions all hold of the rows that it replaces.                 *)
THEOREM Atomicity == Spec => AppliesAtOnce
<1>1. PgInv /\ [Next]_vars =>
        [(\E t \in Transactions : AppliedAtOnce(t)) \/ UNCHANGED tables]_vars
  BY OnlyCommits, CommitApplies
<1> QED BY <1>1, Invariance, PTL DEF Spec, AppliesAtOnce

-----------------------------------------------------------------------------
(* The refinement                                                          *)

LEMMA AsStoredTyped ==
  ASSUME NEW row \in Row \cup {None}
  PROVE  /\ AsStored(row) = None <=> row = None
         /\ row # None => /\ AsStored(row) \in StoredRow
                          /\ AsStored(row).ns = row.ns
                          /\ AsStored(row).version = row.version
                          /\ AsStored(row).rep["vector"] = row.vector
<1>1. CASE row = None
  BY <1>1 DEF AsStored
<1>2. CASE row # None
  <2>1. row \in Row
    BY <1>2
  <2>2. [r \in {"vector"} |-> row.vector] \in [{"vector"} -> Vectors \cup {None}]
    BY <2>1 DEF Row
  <2>3. AsStored(row) \in StoredRow
    BY <1>2, <2>1, <2>2 DEF AsStored, Row, StoredRow
  <2> QED BY <1>2, <2>3, PgAssumption DEF AsStored
<1> QED BY <1>1, <1>2

(* What a search ranks are the vectors of the concepts.                    *)
LEMMA FoundIsStored ==
  ASSUME TypeOK, VectorsInStep
  PROVE  found = Contract!VectorsOf(table)
<1>1. ASSUME NEW i \in Ids
      PROVE  /\ table[i] = AsStored(concepts[i])
             /\ (vectors[i] # None /\ concepts[i] # None)
                  <=> (table[i] # None /\ table[i].rep["vector"] # None)
             /\ concepts[i] # None => /\ concepts[i].ns = table[i].ns
                                      /\ vectors[i] = table[i].rep["vector"]
  <2>1. table[i] = AsStored(concepts[i]) /\ concepts[i] \in Row \cup {None}
    BY DEF table, TypeOK
  <2>2. vectors[i] = IF concepts[i] = None THEN None ELSE concepts[i].vector
    BY DEF VectorsInStep
  <2> QED BY <2>1, <2>2, AsStoredTyped
<1> QED BY <1>1 DEF found, Contract!VectorsOf

(* A transaction of writes makes each row it names out of what was there.  *)
LEMMA WrittenRow ==
  ASSUME NEW w \in Write, NEW row \in Row \cup {None}, Matches(w, row), w.kind # "delete"
  PROVE  LET old == AsStored(row)
             new == AsStored(RowAfter(w, row))
         IN  /\ new \in StoredRow
             /\ old # None => new.ns = old.ns /\ new.version = old.version + 1
<1>1. RowAfter(w, row) \in Row \cup {None} /\ RowAfter(w, row) # None
  BY RowAfterTyped
<1>2. row # None => RowAfter(w, row).ns = row.ns /\ RowAfter(w, row).version = row.version + 1
  BY WriteTyped DEF Matches, RowAfter
<1> QED BY <1>1, <1>2, AsStoredTyped

(* Servers that share one PostgreSQL database implement AtomicStore: only  *)
(* a commit is a step of it, a deletion or a write of several concepts;    *)
(* every other statement, wait and rollback is stuttering.                 *)
THEOREM ImplementsAtomicStore == Spec => StoreContract
<1>1. Init => Contract!Init
  <2> SUFFICES ASSUME Init PROVE Contract!Init
    OBVIOUS
  <2>1. \A i \in Ids : concepts[i] = None /\ vectors[i] = None
    BY DEF Init
  <2>2. table = [i \in Ids |-> None]
    BY <2>1 DEF table, AsStored
  <2>3. found = {}
    BY <2>1 DEF found
  <2> QED BY <2>2, <2>3 DEF Contract!Init
<1>2. PgInv /\ [Next]_vars => [Contract!Next]_<<table, found>>
  <2> SUFFICES ASSUME PgInv, [Next]_vars PROVE [Contract!Next]_<<table, found>>
    OBVIOUS
  <2>1. CASE UNCHANGED tables
    <3>1. table' = table /\ found' = found
      BY <2>1 DEF tables, table, found
    <3> QED BY <3>1
  <2>2. CASE \E t \in Transactions : Commit(t)
    <3>1. PICK t \in Transactions : Commit(t)
      BY <2>2
    <3>2. AppliedAtOnce(t) /\ PgInv'
      BY <3>1, CommitApplies, CommitKeeps
    <3>3. found' = Contract!VectorsOf(table')
      <4>1. (TypeOK /\ VectorsInStep => found = Contract!VectorsOf(table))'
        BY FoundIsStored, PTL
      <4> QED BY <3>2, <4>1 DEF PgInv, Contract!VectorsOf
    <3>4. ASSUME NEW i \in Ids
          PROVE  /\ concepts[i] \in Row \cup {None}
                 /\ table[i] = AsStored(concepts[i])
                 /\ ~Written(t, i) => table'[i] = table[i]
                 /\ Written(t, i) =>
                      /\ WriteOf(t, i) \in Write
                      /\ Matches(WriteOf(t, i), concepts[i])
                      /\ table'[i] = AsStored(RowAfter(WriteOf(t, i), concepts[i]))
      <4>1. concepts[i] \in Row \cup {None} /\ table[i] = AsStored(concepts[i])
            /\ table'[i] = AsStored(concepts'[i])
        BY DEF PgInv, TypeOK, table
      <4>2. Written(t, i) => WriteOf(t, i) \in Write
        BY WritesTyped DEF PgInv, Written, WriteOf
      <4> QED BY <3>2, <4>1, <4>2 DEF AppliedAtOnce
    <3>5. CASE \E k \in DOMAIN writes[t] : writes[t][k].kind = "delete"
      <4>1. DOMAIN writes[t] = {1} /\ writes[t][1].kind = "delete" /\ writes[t][1].id \in Ids
        BY <3>5, WritesTyped DEF PgInv, InLoop
      <4> DEFINE i == writes[t][1].id
      <4>2. \A j \in Ids : Written(t, j) <=> j = i
        BY <4>1 DEF Written
      <4>3. WriteOf(t, i) = writes[t][1]
        BY <4>1 DEF WriteOf
      <4>4. table'[i] = None /\ table[i] # None
        <5>1. /\ Matches(writes[t][1], concepts[i])
              /\ table[i] = AsStored(concepts[i]) /\ concepts[i] \in Row \cup {None}
              /\ table'[i] = AsStored(RowAfter(writes[t][1], concepts[i]))
          BY <3>4, <4>1, <4>2, <4>3
        <5>2. concepts[i] # None
          BY <4>1, <5>1 DEF Matches
        <5>3. RowAfter(writes[t][1], concepts[i]) = None
          BY <4>1 DEF RowAfter
        <5> QED BY <5>1, <5>2, <5>3, AsStoredTyped
      <4>5. table' = [table EXCEPT ![i] = None]
        BY <3>4, <4>1, <4>2, <4>4 DEF table
      <4>6. Contract!Delete(i)
        BY <3>3, <4>4, <4>5 DEF Contract!Delete
      <4> QED BY <4>1, <4>6 DEF Contract!Next
    <3>6. CASE ~\E k \in DOMAIN writes[t] : writes[t][k].kind = "delete"
      <4>1. \A i \in Ids : Written(t, i) => WriteOf(t, i).kind # "delete"
        BY <3>6 DEF Written, WriteOf
      <4>2. \A i \in Ids :
              \/ table'[i] = table[i]
              \/ table[i] = None /\ table'[i] \in StoredRow
              \/ /\ table[i] # None /\ table'[i] \in StoredRow
                 /\ table'[i].ns = table[i].ns
                 /\ table'[i].version = table[i].version + 1
        BY <3>4, <4>1, WrittenRow
      <4>3. Contract!Write
        BY <3>3, <4>2 DEF Contract!Write
      <4> QED BY <4>3 DEF Contract!Next
    <3> QED BY <3>5, <3>6
  <2> QED BY <2>1, <2>2, OnlyCommits
<1> QED BY <1>1, <1>2, Invariance, PTL DEF Spec, StoreContract, Contract!Spec
=============================================================================
