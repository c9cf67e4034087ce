--------------------------- MODULE PgTransaction ---------------------------
(***************************************************************************)
(* applyWrites of PostgresAdapter, statement by statement, in servers that *)
(* share one PostgreSQL database: each conditional write is a statement on *)
(* concepts and, if it touches the vector, one on concept_vectors; a write *)
(* whose condition fails rolls everything back.  PostgreSQL (READ          *)
(* COMMITTED) is external: row locks are held to the end of a transaction, *)
(* a statement that waited for one checks its condition again, and of      *)
(* transactions that wait for each other in a circle one is aborted.       *)
(***************************************************************************)
EXTENDS Integers, Sequences, FiniteSets

CONSTANTS
  Ids,           \* concept ids
  Namespaces,    \* namespaces of concepts
  Vectors,       \* embeddings
  Transactions,  \* connections of the pools: transactions that may overlap
  Batches,       \* what callers write: sequences of distinct ids
  MaxCount,      \* bound on the number of transactions
  Keep,          \* an embedding that is not given
  Clean,         \* a row that a transaction has not written
  None           \* no row, no embedding, no namespace, no transaction

Row == [ns : Namespaces, version : Nat \ {0}, vector : Vectors \cup {None}]

(* The same row in the form that AtomicStore gives it.                     *)
StoredRow == [ns : Namespaces, version : Nat \ {0}, rep : [{"vector"} -> Vectors \cup {None}]]

ASSUME PgAssumption ==
  /\ Namespaces # {}
  /\ \A b \in Batches : /\ b \in Seq(Ids) /\ b # <<>>
                        /\ \A j, k \in DOMAIN b : b[j] = b[k] => j = k
  /\ MaxCount \in Nat
  /\ None \notin Vectors \cup Namespaces \cup Transactions \cup Row \cup StoredRow
  /\ Keep \notin Vectors \cup {None}
  /\ Clean \notin Row \cup Vectors \cup {None}

(* A conditional write: what it was planned on decides its kind.           *)
Inserts == [kind : {"insert"}, id : Ids, ns : Namespaces, version : {0},
            vector : Vectors \cup {None}]
Updates == [kind : {"update"}, id : Ids, ns : Namespaces, version : Nat \ {0},
            vector : Vectors \cup {None, Keep}]
Deletes == [kind : {"delete"}, id : Ids, ns : Namespaces \cup {None}, version : {0},
            vector : {None}]
Write == Inserts \cup Updates \cup Deletes

VARIABLES
  concepts,   \* the committed rows of concepts
  vectors,    \* the committed rows of concept_vectors
  locks,      \* which transaction has locked the row, or the key, of an id
  pc,         \* where each transaction is
  batch,      \* the ids its caller is to write
  writes,     \* the writes planned for them
  at,         \* the write whose statements are next
  rows,       \* the rows of concepts it has written
  embedded,   \* the rows of concept_vectors it has written
  count       \* number of transactions so far

tables == <<concepts, vectors>>
vars == <<tables, locks, pc, batch, writes, at, rows, embedded, count>>

Unwritten == [i \in Ids |-> Clean]

Init ==
  /\ concepts = [i \in Ids |-> None]
  /\ vectors = [i \in Ids |-> None]
  /\ locks = [i \in Ids |-> None]
  /\ pc = [t \in Transactions |-> "idle"]
  /\ batch = [t \in Transactions |-> <<>>]
  /\ writes = [t \in Transactions |-> <<>>]
  /\ at = [t \in Transactions |-> 1]
  /\ rows = [t \in Transactions |-> Unwritten]
  /\ embedded = [t \in Transactions |-> Unwritten]
  /\ count = 0

Goto(t, where) == pc' = [pc EXCEPT ![t] = where]

(* The write of a transaction whose statements are next.                   *)
Current(t) == writes[t][at[t]]

(* The condition of a write.  The ids of a transaction are distinct: it    *)
(* never reads back a row that it has written.                             *)
Matches(w, row) ==
  \/ w.kind = "insert" /\ row = None
  \/ w.kind = "update" /\ row # None /\ row.version = w.version /\ row.ns = w.ns
  \/ w.kind = "delete" /\ row # None /\ w.ns \in {None, row.ns}

RowAfter(w, row) ==
  IF w.kind = "delete" THEN None
  ELSE [ns      |-> w.ns,
        version |-> w.version + 1,
        vector  |-> IF w.vector = Keep THEN row.vector ELSE w.vector]

(* Mistake: only a vector that is given gets a statement.                  *)
HasVectorStatementIfGiven(w) == w.kind # "delete" /\ w.vector \notin {None, Keep}

(* A deletion removes the vector by ON DELETE CASCADE, with its row.       *)
HasVectorStatement(w) ==
  w.kind # "delete" /\ w.vector # IF w.kind = "insert" THEN None ELSE Keep

-----------------------------------------------------------------------------
(* The caller: plans a batch row by row on what is committed, or deletes.  *)

PlannedOn(w, row) ==
  IF row = None THEN w \in Inserts
  ELSE w \in Updates /\ w.ns = row.ns /\ w.version = row.version

RequestBatch(t) ==
  /\ pc[t] = "idle" /\ count < MaxCount
  /\ \E b \in Batches : batch' = [batch EXCEPT ![t] = b]
  /\ Goto(t, "plan")
  /\ count' = count + 1
  /\ UNCHANGED <<tables, locks, writes, at, rows, embedded>>

Plan(t) ==
  /\ pc[t] = "plan"
  /\ LET i == batch[t][Len(writes[t]) + 1] IN
       \E ns \in Namespaces, vector \in Vectors \cup {None, Keep} :
         LET w == IF concepts[i] = None
                  THEN [kind |-> "insert", id |-> i, ns |-> ns, version |-> 0, vector |-> vector]
                  ELSE [kind |-> "update", id |-> i, ns |-> ns,
                        version |-> concepts[i].version, vector |-> vector]
         IN  PlannedOn(w, concepts[i]) /\ writes' = [writes EXCEPT ![t] = Append(@, w)]
  /\ Goto(t, IF Len(writes[t]) + 1 = Len(batch[t]) THEN "row" ELSE "plan")
  /\ UNCHANGED <<tables, locks, batch, at, rows, embedded, count>>

RequestDelete(t) ==
  /\ pc[t] = "idle" /\ count < MaxCount
  /\ \E w \in Deletes : writes' = [writes EXCEPT ![t] = <<w>>]
  /\ Goto(t, "row")
  /\ count' = count + 1
  /\ UNCHANGED <<tables, locks, batch, at, rows, embedded>>

-----------------------------------------------------------------------------
(* applyWrite                                                              *)

Free(i) == locks[i] = None

(* After the last write comes COMMIT.                                      *)
NextWrite(t) ==
  /\ at' = [at EXCEPT ![t] = @ + 1]
  /\ Goto(t, IF at[t] = Len(writes[t]) THEN "commit" ELSE "row")

(* Mistake: nothing deletes the vector of a deleted concept.               *)
RowStatementNoCascade(t) ==
  LET w == Current(t) IN
  /\ pc[t] = "row"
  /\ Free(w.id) /\ Matches(w, concepts[w.id])
  /\ locks' = [locks EXCEPT ![w.id] = t]
  /\ rows' = [rows EXCEPT ![t][w.id] = RowAfter(w, concepts[w.id])]
  /\ IF HasVectorStatement(w) THEN Goto(t, "vector") /\ UNCHANGED at ELSE NextWrite(t)
  /\ UNCHANGED <<tables, batch, writes, embedded, count>>

(* INSERT, UPDATE or DELETE on concepts: its condition holds of the row,   *)
(* which stays locked.                                                     *)
RowStatement(t) ==
  LET w == Current(t) IN
  /\ pc[t] = "row"
  /\ Free(w.id) /\ Matches(w, concepts[w.id])
  /\ locks' = [locks EXCEPT ![w.id] = t]
  /\ rows' = [rows EXCEPT ![t][w.id] = RowAfter(w, concepts[w.id])]
  /\ embedded' = [embedded EXCEPT ![t][w.id] = IF w.kind = "delete" THEN None ELSE @]
  /\ IF HasVectorStatement(w) THEN Goto(t, "vector") /\ UNCHANGED at ELSE NextWrite(t)
  /\ UNCHANGED <<tables, batch, writes, count>>

(* The upsert, or the DELETE, on concept_vectors.                          *)
VectorStatement(t) ==
  LET w == Current(t) IN
  /\ pc[t] = "vector"
  /\ embedded' = [embedded EXCEPT ![t][w.id] = w.vector]
  /\ NextWrite(t)
  /\ UNCHANGED <<tables, locks, batch, writes, rows, count>>

(* The statement finds its row, or a key that is taken, locked: it waits.  *)
Block(t) ==
  LET w == Current(t) IN
  /\ pc[t] = "row"
  /\ ~Free(w.id) /\ (w.kind = "insert" \/ Matches(w, concepts[w.id]))
  /\ Goto(t, "blocked")
  /\ UNCHANGED <<tables, locks, batch, writes, at, rows, embedded, count>>

Wake(t) ==
  /\ pc[t] = "blocked"
  /\ Free(Current(t).id)
  /\ Goto(t, "row")
  /\ UNCHANGED <<tables, locks, batch, writes, at, rows, embedded, count>>

(* Mistake: the loop ends at a write that fails, and COMMIT follows.       *)
RefuseCommits(t) ==
  LET w == Current(t) IN
  /\ pc[t] = "row"
  /\ ~Matches(w, concepts[w.id]) /\ (w.kind = "insert" => Free(w.id))
  /\ Goto(t, "commit")
  /\ UNCHANGED <<tables, locks, batch, writes, at, rows, embedded, count>>

(* The condition fails: at once for a row that is read, even if another    *)
(* transaction has locked it; for a key only when nobody has.              *)
Refuse(t) ==
  LET w == Current(t) IN
  /\ pc[t] = "row"
  /\ ~Matches(w, concepts[w.id]) /\ (w.kind = "insert" => Free(w.id))
  /\ Goto(t, "refused")
  /\ UNCHANGED <<tables, locks, batch, writes, at, rows, embedded, count>>

-----------------------------------------------------------------------------
(* applyWrites: the end of a transaction                                   *)

(* Its caller has returned: what the transaction wrote and locked is gone. *)
Forget(t) ==
  /\ batch' = [batch EXCEPT ![t] = <<>>]
  /\ writes' = [writes EXCEPT ![t] = <<>>]
  /\ at' = [at EXCEPT ![t] = 1]
  /\ rows' = [rows EXCEPT ![t] = Unwritten]
  /\ embedded' = [embedded EXCEPT ![t] = Unwritten]
Unlock(t) == locks' = [i \in Ids |-> IF locks[i] = t THEN None ELSE locks[i]]

(* What is waiting for a row that t deletes finds it gone, also if the     *)
(* concept is created again before it looks.                               *)
FindsDeleted(u, t) ==
  /\ pc[u] = "blocked"
  /\ Current(u).kind # "insert"
  /\ rows[t][Current(u).id] = None

Commit(t) ==
  /\ pc[t] = "commit"
  /\ concepts' = [i \in Ids |-> IF rows[t][i] = Clean THEN concepts[i] ELSE rows[t][i]]
  /\ vectors' = [i \in Ids |-> IF embedded[t][i] = Clean THEN vectors[i] ELSE embedded[t][i]]
  /\ pc' = [u \in Transactions |-> IF u = t THEN "idle"
                                   ELSE IF FindsDeleted(u, t) THEN "refused" ELSE pc[u]]
  /\ Forget(t) /\ Unlock(t)
  /\ UNCHANGED count

(* Mistake: the connection returns to the pool with its transaction open.  *)
RollbackForgotten(t) ==
  /\ pc[t] = "refused"
  /\ Goto(t, "idle") /\ Forget(t)
  /\ UNCHANGED <<tables, locks, count>>

Rollback(t) ==
  /\ pc[t] = "refused"
  /\ Goto(t, "idle") /\ Forget(t) /\ Unlock(t)
  /\ UNCHANGED <<tables, count>>

Abort(t) ==
  /\ Goto(t, "idle") /\ Forget(t) /\ Unlock(t)
  /\ UNCHANGED <<tables, count>>

(* A statement throws or the process dies: ROLLBACK, by it or for it.      *)
Fail(t) == pc[t] # "idle" /\ Abort(t)

(* The holder of the lock that a transaction waits for.                    *)
Holder(t) == locks[Current(t).id]

(* Transactions that wait for each other: each for one of the set, and for *)
(* each one of the set.                                                    *)
Circle(S) ==
  /\ \A t \in S : pc[t] = "blocked" /\ Holder(t) \in S
  /\ \A t \in S : \E u \in S : Holder(u) = t

(* PostgreSQL aborts one transaction of a deadlock; applyWrites throws.    *)
Victim(t) == (\E S \in SUBSET Transactions : t \in S /\ Circle(S)) /\ Abort(t)

Step(t) ==
  \/ Plan(t) \/ RowStatement(t) \/ VectorStatement(t) \/ Block(t) \/ Wake(t)
  \/ Refuse(t) \/ Rollback(t) \/ Commit(t) \/ Victim(t)

Next == \E t \in Transactions : RequestBatch(t) \/ RequestDelete(t) \/ Step(t) \/ Fail(t)

(* Statements return: nothing but a lock makes one wait.                   *)
Spec == Init /\ [][Next]_vars /\ \A t \in Transactions : WF_vars(Step(t))

-----------------------------------------------------------------------------
(* Every variable has its type; only transactions that are under way hold  *)
(* locks.                                                                  *)
TypeOK ==
  /\ concepts \in [Ids -> Row \cup {None}]
  /\ vectors \in [Ids -> Vectors \cup {None}]
  /\ locks \in [Ids -> Transactions \cup {None}]
  /\ pc \in [Transactions ->
               {"idle", "plan", "row", "vector", "blocked", "refused", "commit"}]
  /\ batch \in [Transactions -> Batches \cup {<<>>}]
  /\ writes \in [Transactions -> Seq(Write)]
  /\ at \in [Transactions -> Nat \ {0}]
  /\ rows \in [Transactions -> [Ids -> Row \cup {None, Clean}]]
  /\ embedded \in [Transactions -> [Ids -> Vectors \cup {None, Clean}]]
  /\ count \in 0 .. MaxCount
  /\ \A i \in Ids : locks[i] # None => pc[locks[i]] \notin {"idle", "plan"}

(* What the writes of a transaction do to the tables, all at once: the     *)
(* meaning of applyWrites that ConceptStore takes for granted.             *)
Written(t, i) == \E k \in DOMAIN writes[t] : writes[t][k].id = i
WriteOf(t, i) == writes[t][CHOOSE k \in DOMAIN writes[t] : writes[t][k].id = i]
VectorAfter(w, vector) ==
  IF w.kind = "delete" THEN None ELSE IF w.vector = Keep THEN vector ELSE w.vector

AppliedAtOnce(t) ==
  /\ \A i \in Ids : Written(t, i) => Matches(WriteOf(t, i), concepts[i])
  /\ concepts' = [i \in Ids |-> IF Written(t, i) THEN RowAfter(WriteOf(t, i), concepts[i])
                                ELSE concepts[i]]
  /\ vectors' = [i \in Ids |-> IF Written(t, i) THEN VectorAfter(WriteOf(t, i), vectors[i])
                               ELSE vectors[i]]

(* Whether the statement on concepts, or both statements, of a write are   *)
(* done.                                                                   *)
RowDone(t, k) == k < at[t] \/ (k = at[t] /\ pc[t] = "vector")
AllDone(t, k) == k < at[t]

(* What the writes that are done have left: a locked row whose committed   *)
(* version still meets the condition, and what is to replace it.           *)
Prepared(t, k) ==
  LET w == writes[t][k] IN
  /\ locks[w.id] = t
  /\ Matches(w, concepts[w.id])
  /\ rows[t][w.id] = RowAfter(w, concepts[w.id])

EmbeddedBy(w) ==
  IF w.kind = "delete" THEN None ELSE IF HasVectorStatement(w) THEN w.vector ELSE Clean

(* The plan names each id once and a deletion is alone; the loop over it   *)
(* is where pc says.                                                       *)
InLoop(t) ==
  /\ \A j, k \in DOMAIN writes[t] : writes[t][j].id = writes[t][k].id => j = k
  /\ \A k \in DOMAIN writes[t] :
       writes[t][k].kind = "delete" => Len(writes[t]) = 1 /\ pc[t] # "plan"
  /\ pc[t] = "idle" => writes[t] = <<>> /\ at[t] = 1
  /\ pc[t] = "plan" =>
       /\ at[t] = 1
       /\ batch[t] \in Batches
       /\ Len(writes[t]) < Len(batch[t])
       /\ \A k \in DOMAIN writes[t] : writes[t][k].id = batch[t][k]
  /\ pc[t] \in {"row", "vector", "blocked", "refused"} => at[t] \in DOMAIN writes[t]
  /\ pc[t] = "vector" => HasVectorStatement(Current(t))
  /\ pc[t] = "commit" => at[t] = Len(writes[t]) + 1

Isolated(t) ==
  /\ \A k \in DOMAIN writes[t] : RowDone(t, k) => Prepared(t, k)
  /\ \A k \in DOMAIN writes[t] :
       AllDone(t, k) => embedded[t][writes[t][k].id] = EmbeddedBy(writes[t][k])
  /\ \A i \in Ids :
       /\ (\A k \in DOMAIN writes[t] : RowDone(t, k) => writes[t][k].id # i) =>
            rows[t][i] = Clean
       /\ (\A k \in DOMAIN writes[t] : AllDone(t, k) => writes[t][k].id # i) =>
            embedded[t][i] = Clean

(* concept_vectors holds exactly the embeddings of concepts.               *)
VectorsInStep ==
  \A i \in Ids : vectors[i] = IF concepts[i] = None THEN None ELSE concepts[i].vector

(* The inductive invariant: a transaction's locks keep what its conditions *)
(* were checked on, until it commits.                                      *)
PgInv ==
  /\ TypeOK /\ VectorsInStep
  /\ \A t \in Transactions : InLoop(t) /\ Isolated(t)

(* Statements of overlapping transactions interleave, some wait and check  *)
(* again, some are undone; yet the tables only ever change by one          *)
(* transaction, as if its conditions were checked and its writes applied   *)
(* at once when it commits.  So of writers that expect one version only    *)
(* one succeeds, and a batch is never applied in part.                     *)
AppliesAtOnce == [][(\E t \in Transactions : AppliedAtOnce(t)) \/ UNCHANGED tables]_vars

(* No transaction waits for ever: batches lock their rows in the order     *)
(* their callers list them, and deadlocks are broken.                      *)
TransactionsEnd == \A t \in Transactions : pc[t] # "idle" ~> pc[t] = "idle"

-----------------------------------------------------------------------------
(* What the store promises to its readers: AtomicStore, with the vectors   *)
(* of a search joined to their concepts.                                   *)
AsStored(row) ==
  IF row = None THEN None
  ELSE [ns |-> row.ns, version |-> row.version, rep |-> [r \in {"vector"} |-> row.vector]]

table == [i \in Ids |-> AsStored(concepts[i])]
found == {[id |-> i, ns |-> concepts[i].ns, vector |-> vectors[i]] :
            i \in {j \in Ids : vectors[j] # None /\ concepts[j] # None}}

Contract == INSTANCE AtomicStore WITH
  Row <- StoredRow, concepts <- table, searchable <- found

(* Servers that share one database show their readers one store.           *)
StoreContract == Contract!Spec
=============================================================================
