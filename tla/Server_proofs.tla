--------------------------- MODULE Server_proofs ---------------------------
(***************************************************************************)
(* Proofs about servers that share a database.  Startup: what the lock and *)
(* the record of done migrations keep, and what follows from it for        *)
(* servers that serve.  AutoBackup: that every save is counted, taken by   *)
(* the flush, announced or owed until a backup holds it, and that pruning  *)
(* by name keeps a file that covers the others.                            *)
(***************************************************************************)
EXTENDS Startup, AutoBackup, FiniteSetTheorems, SequenceTheorems, TLAPS


-----------------------------------------------------------------------------
(* Startup: the inductive invariant                                        *)

(* Migrations are done in their order, and before a server goes on.        *)
DoneInOrder ==
  /\ "labels" \in done => "schema" \in done
  /\ "tags" \in done => "labels" \in done
  /\ \A s \in Servers :
       /\ pc[s] = "labels" => "schema" \in done
       /\ pc[s] = "tags" => "labels" \in done
       /\ pc[s] \in {"token", "create", "write", "serve"} => done = Migrations

(* What a migration looked up still is so: it holds the lock.              *)
LookIsFresh ==
  \A s \in Servers : read[s] # None =>
    /\ backend = "postgres" /\ lock = s /\ pc[s] \in Migrations
    /\ read[s].done <=> pc[s] \in done
    /\ ~read[s].done => read[s].rows = rows

(* Saves come after the last migration.                                    *)
SavedAfter == \A i \in Ids : rows[i] # None /\ rows[i].save > 0 => done = Migrations

Indexed(row) ==
  InIndex(row) \/ (backend = "postgres" /\ row.save = 0 /\ row.index = Outdated)

(* What each migration leaves of a row, for good.                          *)
RowMigrated(row) ==
  /\ "schema" \notin done => row \in Legacy
  /\ "schema" \in done =>
       row.vec # "broken" /\ Indexed(row) /\ (row.model # None => row.vec = "usable")
  /\ "labels" \in done => (row.vec = "usable" => row.model # None)
  /\ "tags" \in done => row.tags \notin NotNormal

RowsMigrated == \A i \in Ids : rows[i] # None => RowMigrated(rows[i])

(* One server at most writes the token file, which then is never changed.  *)
TokenInv ==
  /\ \A s \in Servers : pc[s] = "write" => file = "empty"
  /\ \A s, o \in Servers : pc[s] = "write" /\ pc[o] = "write" => s = o
  /\ \A s \in Servers : pc[s] = "serve" => file \in Servers /\ token[s] = file

StoreInv == DoneInOrder /\ LookIsFresh /\ SavedAfter /\ RowsMigrated

StartupInv == TypeOK /\ StoreInv /\ TokenInv

-----------------------------------------------------------------------------
(* Startup: migrations                                                     *)

(* Rows 2.x left have no save, and no entry in the index for no vector.    *)
LEMMA LegacyRows ==
  ASSUME NEW row \in Legacy
  PROVE  /\ row \in Row /\ row.save = 0 /\ row.model = None /\ row.tags # "repaired"
         /\ row.index \in {None, Outdated, 0} /\ (row.vec = "none" => row.index # 0)
         /\ 0 # None /\ Outdated # None
<1>1. 0 # None /\ Outdated # None /\ Outdated # 0
  BY StartupAssumption DEF Outdated
<1> QED BY <1>1 DEF Legacy, Row

(* What a migration makes of the rows it looked up.                        *)
LEMMA MigratedRows ==
  ASSUME StartupInv, NEW s \in Servers, pc[s] \in Migrations, pc[s] \notin done,
         done' = done \cup {pc[s]}, rows' = Migrated(s, rows), backend' = backend
  PROVE  /\ rows' \in [Ids -> Row \cup {None}]
         /\ RowsMigrated'
         /\ \A i \in Ids : rows'[i] # None => rows[i] # None /\ rows'[i].save = rows[i].save
<1> DEFINE Stays(i) == /\ rows'[i] \in Row \cup {None}
                       /\ rows'[i] # None => /\ rows[i] # None
                                             /\ rows'[i].save = rows[i].save
                                             /\ RowMigrated(rows[i])'
<1>1. rows \in [Ids -> Row \cup {None}] /\ None \notin Row /\ ModelOf[s] \in Models
      /\ None \notin Models /\ 0 \in 0..MaxSaves
  BY StartupAssumption DEF StartupInv, TypeOK
<1>2. CASE pc[s] = "schema"
  <2>1. "labels" \notin done /\ "tags" \notin done /\ "schema" \notin done
    BY <1>2 DEF StartupInv, StoreInv, DoneInOrder
  <2>2. "labels" \notin done' /\ "tags" \notin done' /\ "schema" \in done'
    BY <1>2, <2>1
  <2>3. \A i \in Ids : rows[i] # None => rows[i] \in Legacy
    BY <2>1 DEF StartupInv, StoreInv, RowsMigrated, RowMigrated
  <2>4. rows' = IF backend = "sqlite" THEN Rebuilt ELSE ToV3(rows)
    BY <1>2 DEF Migrated
  <2>5. ASSUME NEW i \in Ids PROVE Stays(i)
    <3>1. CASE rows[i] = None
      BY <3>1, <2>4, <2>5 DEF Rebuilt, ToV3
    <3>2. CASE rows[i] # None
      <4> DEFINE row == rows[i]
                 cleared == [row EXCEPT !.vec = "none", !.model = None, !.index = None]
                 indexed == [row EXCEPT !.index = row.save]
      <4>1. row \in Legacy
        BY <3>2, <2>3
      <4>2. \/ rows'[i] = row /\ backend = "postgres" /\ (row.vec = "usable" => row.index # None)
               /\ row.vec # "broken"
            \/ rows'[i] = cleared
            \/ rows'[i] = indexed /\ row.vec = "usable"
        <5>1. row.vec \in {"none", "broken", "usable"} /\ backend \in {"sqlite", "postgres"}
          BY <4>1, LegacyRows, StartupAssumption DEF Row, StartupInv, TypeOK
        <5>2. CASE backend = "sqlite"
          BY <5>2, <5>1, <3>2, <2>4 DEF Rebuilt
        <5>3. CASE backend = "postgres"
          BY <5>3, <5>1, <3>2, <2>4 DEF ToV3
        <5> QED BY <5>1, <5>2, <5>3
      <4>3. /\ rows'[i] \in Row /\ rows'[i].save = row.save
            /\ rows'[i].vec # "broken" /\ Indexed(rows[i])'
            /\ rows'[i].model = None
        <5>1. /\ row \in Row /\ row.model = None /\ row.save = 0
              /\ row.index \in {None, Outdated, 0} /\ (row.vec = "none" => row.index # 0)
              /\ backend' = backend
          BY <4>1, LegacyRows
        <5>2. CASE rows'[i] = row /\ backend = "postgres" /\ row.vec # "broken"
                   /\ (row.vec = "usable" => row.index # None)
          BY <5>1, <5>2 DEF Row, Indexed, InIndex
        <5>3. CASE rows'[i] = cleared
          BY <1>1, <5>1, <5>3 DEF Row, Indexed, InIndex
        <5>4. CASE rows'[i] = indexed /\ row.vec = "usable"
          BY <1>1, <5>1, <5>4 DEF Row, Indexed, InIndex
        <5> QED BY <4>2, <5>2, <5>3, <5>4
      <4> QED BY <4>3, <3>2, <2>2 DEF RowMigrated
    <3> QED BY <3>1, <3>2
  <2>6. rows' = [i \in Ids |-> rows'[i]]
    BY <2>4 DEF Rebuilt, ToV3
  <2> QED BY <2>5, <2>6 DEF RowsMigrated
<1>3. CASE pc[s] = "labels"
  <2>1. "schema" \in done /\ "schema" \in done' /\ "tags" \notin done /\ "tags" \notin done'
    BY <1>3 DEF StartupInv, StoreInv, DoneInOrder
  <2>2. rows' = Labelled(s)
    BY <1>3 DEF Migrated
  <2>3. ASSUME NEW i \in Ids PROVE Stays(i)
    <3>1. CASE rows[i] = None
      BY <3>1, <2>2 DEF Labelled
    <3>2. CASE rows[i] # None
      <4>1. rows[i] \in Row /\ RowMigrated(rows[i])
        BY <3>2, <1>1 DEF StartupInv, StoreInv, RowsMigrated
      <4>2. rows'[i] = IF rows[i].vec # "none" /\ rows[i].model = None
                       THEN [rows[i] EXCEPT !.model = ModelOf[s]] ELSE rows[i]
        BY <3>2, <2>2 DEF Labelled
      <4>3. /\ rows'[i] \in Row /\ rows'[i].save = rows[i].save /\ rows'[i].vec = rows[i].vec
            /\ rows'[i].index = rows[i].index
            /\ rows'[i].model # None <=> rows[i].vec = "usable"
        BY <4>1, <4>2, <2>1, <1>1 DEF RowMigrated, Row
      <4> QED BY <4>1, <4>3, <3>2, <2>1 DEF RowMigrated, Indexed, InIndex, NotNormal
    <3> QED BY <3>1, <3>2
  <2>4. rows' = [i \in Ids |-> rows'[i]]
    BY <2>2 DEF Labelled
  <2> QED BY <2>3, <2>4 DEF RowsMigrated
<1>4. CASE pc[s] = "tags"
  <2>1. "schema" \in done /\ "labels" \in done /\ "schema" \in done' /\ "labels" \in done'
    BY <1>4 DEF StartupInv, StoreInv, DoneInOrder
  <2>2. rows' = Normalized(rows)
    BY <1>4 DEF Migrated
  <2>3. ASSUME NEW i \in Ids PROVE Stays(i)
    <3>1. CASE rows[i] = None
      BY <3>1, <2>2 DEF Normalized
    <3>2. CASE rows[i] # None
      <4>1. rows[i] \in Row /\ RowMigrated(rows[i])
        BY <3>2, <1>1 DEF StartupInv, StoreInv, RowsMigrated
      <4>2. rows'[i] = IF rows[i].tags \in NotNormal
                       THEN [rows[i] EXCEPT !.tags = "repaired"] ELSE rows[i]
        BY <3>2, <2>2 DEF Normalized
      <4>3. /\ rows'[i] \in Row /\ rows'[i].save = rows[i].save /\ rows'[i].vec = rows[i].vec
            /\ rows'[i].index = rows[i].index /\ rows'[i].model = rows[i].model
            /\ rows'[i].tags \notin NotNormal
        BY <4>1, <4>2 DEF Row, NotNormal
      <4> QED BY <4>1, <4>3, <3>2, <2>1 DEF RowMigrated, Indexed, InIndex, NotNormal
    <3> QED BY <3>1, <3>2
  <2>4. rows' = [i \in Ids |-> rows'[i]]
    BY <2>2 DEF Normalized
  <2> QED BY <2>3, <2>4 DEF RowsMigrated
<1> QED BY <1>2, <1>3, <1>4 DEF Migrations

-----------------------------------------------------------------------------
(* Startup: steps                                                          *)

(* A server that ends gives back the lock, and its token.                  *)
LEMMA ExitKeeps ==
  ASSUME StartupInv, NEW s \in Servers, Exit(s),
         UNCHANGED <<backend, rows, done, file, saves>>, crashes' \in 0..MaxCrashes
  PROVE  StartupInv'
<1> USE DEF StartupInv, Exit
<1>1. TypeOK'
  BY DEF TypeOK
<1>2. DoneInOrder' /\ SavedAfter' /\ RowsMigrated'
  BY DEF TypeOK, StoreInv, DoneInOrder, SavedAfter, RowsMigrated, RowMigrated,
         Indexed, InIndex, NotNormal
<1>3. LookIsFresh'
  BY StartupAssumption DEF TypeOK, StoreInv, LookIsFresh
<1>4. TokenInv'
  BY DEF TypeOK, TokenInv
<1> QED BY <1>1, <1>2, <1>3, <1>4 DEF StoreInv

LEMMA BootKeeps ==
  ASSUME StartupInv, NEW s \in Servers, Boot(s)
  PROVE  StartupInv'
<1> USE DEF StartupInv, Boot
<1>1. TypeOK'
  BY DEF TypeOK, Migrations
<1>2. DoneInOrder' /\ SavedAfter' /\ RowsMigrated'
  BY DEF TypeOK, StoreInv, DoneInOrder, SavedAfter, RowsMigrated, RowMigrated,
         Indexed, InIndex, NotNormal
<1>3. LookIsFresh'
  BY DEF TypeOK, StoreInv, LookIsFresh, Migrations
<1>4. TokenInv'
  BY DEF TypeOK, TokenInv
<1> QED BY <1>1, <1>2, <1>3, <1>4 DEF StoreInv

LEMMA LockKeeps ==
  ASSUME StartupInv, NEW s \in Servers, Lock(s)
  PROVE  StartupInv'
<1> USE DEF StartupInv, Lock
<1>1. TypeOK'
  BY DEF TypeOK
<1>2. DoneInOrder' /\ SavedAfter' /\ RowsMigrated'
  BY DEF StoreInv, DoneInOrder, SavedAfter, RowsMigrated, RowMigrated, Indexed, InIndex, NotNormal
<1>3. LookIsFresh'
  BY StartupAssumption DEF TypeOK, StoreInv, LookIsFresh
<1>4. TokenInv'
  BY DEF TokenInv
<1> QED BY <1>1, <1>2, <1>3, <1>4 DEF StoreInv

(* Under the lock nothing but the holder's own commit changes what it      *)
(* looked up, as long as the migration is not done.                        *)
LEMMA ReadKeeps ==
  ASSUME StartupInv, NEW s \in Servers, Read(s)
  PROVE  StartupInv'
<1> USE DEF StartupInv, Read
<1>1. TypeOK'
  BY DEF TypeOK, Look
<1>2. DoneInOrder' /\ SavedAfter' /\ RowsMigrated'
  BY DEF StoreInv, DoneInOrder, SavedAfter, RowsMigrated, RowMigrated, Indexed, InIndex, NotNormal
<1>3. LookIsFresh'
  BY DEF TypeOK, StoreInv, LookIsFresh
<1>4. TokenInv'
  BY DEF TokenInv
<1> QED BY <1>1, <1>2, <1>3, <1>4 DEF StoreInv

(* A migration that is recorded, with what it made of the rows.            *)
LEMMA RecordKeeps ==
  ASSUME StartupInv, NEW s \in Servers, pc[s] \in Migrations,
         rows' = IF pc[s] \in done THEN rows ELSE Migrated(s, rows),
         done' = done \cup {pc[s]}, pc' = [pc EXCEPT ![s] = After(pc[s])],
         UNCHANGED <<backend, file, token, saves, crashes>>
  PROVE  /\ rows' \in [Ids -> Row \cup {None}] /\ done' \subseteq Migrations
         /\ pc' \in [Servers -> Migrations \cup {"down", "token", "create", "write", "serve"}]
         /\ \A o \in Servers : pc'[o] \in {"down", "schema"} => pc[o] = pc'[o]
         /\ DoneInOrder' /\ SavedAfter' /\ RowsMigrated' /\ TokenInv'
<1> USE DEF StartupInv
<1>1. /\ pc[s] \in {"schema", "labels", "tags"}
      /\ pc'[s] = After(pc[s]) /\ After(pc[s]) \in {"labels", "tags", "token"}
      /\ \A o \in Servers \ {s} : pc'[o] = pc[o]
  BY DEF TypeOK, Migrations, After
<1>2. /\ rows' \in [Ids -> Row \cup {None}] /\ RowsMigrated'
      /\ \A i \in Ids : rows'[i] # None => rows[i] # None /\ rows'[i].save = rows[i].save
  <2>1. CASE pc[s] \in done
    <3>1. rows' = rows /\ done' = done
      BY <2>1
    <3> QED BY <3>1 DEF TypeOK, StoreInv, RowsMigrated, RowMigrated, Indexed, InIndex, NotNormal
  <2>2. CASE pc[s] \notin done
    BY <2>2, MigratedRows
  <2> QED BY <2>1, <2>2
<1>3. DoneInOrder'
  BY <1>1 DEF StoreInv, DoneInOrder, After, Migrations, TypeOK
<1>4. SavedAfter'
  <2>1. done = Migrations => done' = Migrations
    BY <1>1 DEF Migrations
  <2> QED BY <1>2, <2>1 DEF StoreInv, SavedAfter
<1>5. TokenInv'
  BY <1>1 DEF TokenInv
<1> QED BY <1>1, <1>2, <1>3, <1>4, <1>5 DEF TypeOK, Migrations

LEMMA CommitKeeps ==
  ASSUME StartupInv, NEW s \in Servers, Commit(s)
  PROVE  StartupInv'
<1> USE DEF StartupInv
<1>1. /\ pc[s] \in Migrations /\ lock = s
      /\ rows' = IF pc[s] \in done THEN rows ELSE Migrated(s, rows)
  BY DEF Commit, StoreInv, LookIsFresh
<1>2. /\ rows' \in [Ids -> Row \cup {None}] /\ done' \subseteq Migrations
      /\ pc' \in [Servers -> Migrations \cup {"down", "token", "create", "write", "serve"}]
      /\ \A o \in Servers : pc'[o] \in {"down", "schema"} => pc[o] = pc'[o]
      /\ DoneInOrder' /\ SavedAfter' /\ RowsMigrated' /\ TokenInv'
  BY <1>1, RecordKeeps DEF Commit
<1>3. TypeOK'
  BY <1>2 DEF Commit, TypeOK
<1>4. LookIsFresh'
  BY <1>1 DEF Commit, StoreInv, LookIsFresh, TypeOK
<1> QED BY <1>2, <1>3, <1>4 DEF StoreInv

LEMMA SqliteMigrateKeeps ==
  ASSUME StartupInv, NEW s \in Servers, SqliteMigrate(s)
  PROVE  StartupInv'
<1> USE DEF StartupInv
<1>1. /\ rows' \in [Ids -> Row \cup {None}] /\ done' \subseteq Migrations
      /\ pc' \in [Servers -> Migrations \cup {"down", "token", "create", "write", "serve"}]
      /\ \A o \in Servers : pc'[o] \in {"down", "schema"} => pc[o] = pc'[o]
      /\ DoneInOrder' /\ SavedAfter' /\ RowsMigrated' /\ TokenInv'
  BY RecordKeeps DEF SqliteMigrate
<1>2. TypeOK'
  BY <1>1 DEF SqliteMigrate, TypeOK
<1>3. LookIsFresh'
  BY DEF SqliteMigrate, StoreInv, LookIsFresh
<1> QED BY <1>1, <1>2, <1>3 DEF StoreInv

LEMMA FindTokenKeeps ==
  ASSUME StartupInv, NEW s \in Servers, FindToken(s)
  PROVE  StartupInv'
<1> USE DEF StartupInv
<1>1. CASE file = "empty"
  BY <1>1, ExitKeeps DEF FindToken, TypeOK
<1>2. CASE file # "empty"
  <2>1. /\ pc[s] = "token" /\ UNCHANGED <<backend, rows, done, lock, read, file, saves, crashes>>
        /\ pc' = [pc EXCEPT ![s] = IF file = None THEN "create" ELSE "serve"]
        /\ token' = [token EXCEPT ![s] = file]
    BY <1>2 DEF FindToken
  <2>2. file \in Servers \cup {None}
    BY <1>2 DEF TypeOK
  <2>3. TypeOK'
    BY <2>1, <2>2 DEF TypeOK
  <2>4. DoneInOrder' /\ SavedAfter' /\ RowsMigrated'
    BY <2>1 DEF TypeOK, StoreInv, DoneInOrder, SavedAfter, RowsMigrated, RowMigrated,
                Indexed, InIndex, NotNormal
  <2>5. LookIsFresh'
    BY <2>1 DEF TypeOK, StoreInv, LookIsFresh, Migrations
  <2>6. TokenInv'
    BY <2>1, <2>2 DEF TypeOK, TokenInv
  <2> QED BY <2>3, <2>4, <2>5, <2>6 DEF StoreInv
<1> QED BY <1>1, <1>2

LEMMA CreateTokenKeeps ==
  ASSUME StartupInv, NEW s \in Servers, CreateToken(s)
  PROVE  StartupInv'
<1> USE DEF StartupInv
<1>1. CASE file # None
  BY <1>1, ExitKeeps DEF CreateToken, TypeOK
<1>2. CASE file = None
  <2>1. /\ pc[s] = "create" /\ pc' = [pc EXCEPT ![s] = "write"] /\ file' = "empty"
        /\ UNCHANGED <<backend, rows, done, lock, read, token, saves, crashes>>
    BY <1>2 DEF CreateToken
  <2>2. None # "empty" /\ None \notin Servers
    BY StartupAssumption
  <2>3. TypeOK'
    BY <2>1 DEF TypeOK
  <2>4. DoneInOrder' /\ SavedAfter' /\ RowsMigrated'
    BY <2>1 DEF TypeOK, StoreInv, DoneInOrder, SavedAfter, RowsMigrated, RowMigrated,
                Indexed, InIndex, NotNormal
  <2>5. LookIsFresh'
    BY <2>1 DEF TypeOK, StoreInv, LookIsFresh, Migrations
  <2>6. TokenInv'
    BY <1>2, <2>1, <2>2 DEF TypeOK, TokenInv
  <2> QED BY <2>3, <2>4, <2>5, <2>6 DEF StoreInv
<1> QED BY <1>1, <1>2

LEMMA WriteTokenKeeps ==
  ASSUME StartupInv, NEW s \in Servers, WriteToken(s)
  PROVE  StartupInv'
<1> USE DEF StartupInv, WriteToken
<1>1. TypeOK'
  BY DEF TypeOK
<1>2. DoneInOrder' /\ SavedAfter' /\ RowsMigrated'
  BY DEF TypeOK, StoreInv, DoneInOrder, SavedAfter, RowsMigrated, RowMigrated,
         Indexed, InIndex, NotNormal
<1>3. LookIsFresh'
  BY DEF TypeOK, StoreInv, LookIsFresh, Migrations
<1>4. TokenInv'
  BY StartupAssumption DEF TypeOK, TokenInv
<1> QED BY <1>1, <1>2, <1>3, <1>4 DEF StoreInv

(* Requests come when every migration is done.                             *)
LEMMA PutKeeps ==
  ASSUME StartupInv, NEW s \in Servers, NEW i \in Ids, NEW row \in Row \cup {None}, Put(s, i, row),
         row # None => /\ row.vec # "broken" /\ row.tags \notin NotNormal /\ Indexed(row)
                       /\ row.model # None <=> row.vec = "usable"
  PROVE  StartupInv'
<1> USE DEF StartupInv, Put
<1>1. done = Migrations
  BY DEF StoreInv, DoneInOrder
<1>2. TypeOK'
  BY StartupAssumption DEF TypeOK
<1>3. DoneInOrder' /\ SavedAfter'
  BY <1>1 DEF TypeOK, StoreInv, DoneInOrder, SavedAfter
<1>4. RowsMigrated'
  BY <1>1 DEF TypeOK, StoreInv, RowsMigrated, RowMigrated, Indexed, InIndex, NotNormal, Migrations
<1>5. LookIsFresh'
  BY <1>1 DEF TypeOK, StoreInv, LookIsFresh
<1>6. TokenInv'
  BY DEF TokenInv
<1> QED BY <1>2, <1>3, <1>4, <1>5, <1>6 DEF StoreInv

LEMMA SaveKeeps ==
  ASSUME StartupInv, NEW s \in Servers, NEW i \in Ids, Save(s, i)
  PROVE  StartupInv'
<1>1. PICK v \in {"none", "usable"} :
        Put(s, i, [vec |-> v, model |-> IF v = "usable" THEN ModelOf[s] ELSE None,
                   tags |-> "array", index |-> IF v = "usable" THEN saves + 1 ELSE None,
                   save |-> saves + 1])
  BY DEF Save
<1> DEFINE row == [vec |-> v, model |-> IF v = "usable" THEN ModelOf[s] ELSE None,
                   tags |-> "array", index |-> IF v = "usable" THEN saves + 1 ELSE None,
                   save |-> saves + 1]
<1>2. saves + 1 \in 0..MaxSaves
  BY <1>1, StartupAssumption DEF Put, StartupInv, TypeOK
<1>3. row \in Row /\ ModelOf[s] # None
  BY <1>2, StartupAssumption DEF Row
<1>4. /\ row.vec # "broken" /\ row.tags \notin NotNormal /\ Indexed(row)
      /\ row.model # None <=> row.vec = "usable"
  BY <1>3 DEF Indexed, InIndex, NotNormal
<1> QED BY <1>1, <1>3, <1>4, PutKeeps

LEMMA Initially == Init => StartupInv
<1> SUFFICES ASSUME Init PROVE StartupInv
  OBVIOUS
<1> USE DEF Init
<1>1. \A i \in Ids : rows[i] # None => rows[i] \in Legacy
  OBVIOUS
<1>2. TypeOK
  BY StartupAssumption DEF TypeOK, Legacy
<1>3. DoneInOrder /\ LookIsFresh /\ TokenInv
  BY DEF DoneInOrder, LookIsFresh, TokenInv
<1>4. SavedAfter /\ RowsMigrated
  BY <1>1, LegacyRows DEF SavedAfter, RowsMigrated, RowMigrated
<1> QED BY <1>2, <1>3, <1>4 DEF StartupInv, StoreInv

LEMMA Inductive == StartupInv /\ [Next]_vars => StartupInv'
<1> SUFFICES ASSUME StartupInv, [Next]_vars PROVE StartupInv'
  OBVIOUS
<1>1. CASE UNCHANGED vars
  BY <1>1 DEF vars, StartupInv, StoreInv, TypeOK, DoneInOrder, LookIsFresh, SavedAfter,
              RowsMigrated, RowMigrated, Indexed, InIndex, NotNormal, TokenInv
<1>2. ASSUME NEW s \in Servers, Advance(s) PROVE StartupInv'
  BY <1>2, LockKeeps, ReadKeeps, CommitKeeps, SqliteMigrateKeeps, FindTokenKeeps,
     CreateTokenKeeps, WriteTokenKeeps DEF Advance
<1>3. ASSUME NEW s \in Servers, Stop(s) PROVE StartupInv'
  <2>1. crashes' \in 0..MaxCrashes
    BY <1>3 DEF Stop, StartupInv, TypeOK
  <2> QED BY <1>3, <2>1, ExitKeeps DEF Stop
<1>4. ASSUME NEW s \in Servers, Crash(s) PROVE StartupInv'
  <2>1. crashes' \in 0..MaxCrashes
    BY <1>4, StartupAssumption DEF Crash, StartupInv, TypeOK
  <2> QED BY <1>4, <2>1, ExitKeeps DEF Crash
<1>5. ASSUME NEW s \in Servers, NEW i \in Ids, Delete(s, i) PROVE StartupInv'
  BY <1>5, PutKeeps DEF Delete
<1> QED BY <1>1, <1>2, <1>3, <1>4, <1>5, BootKeeps, SaveKeeps DEF Next

-----------------------------------------------------------------------------
(* Startup: theorems                                                       *)

LEMMA Invariance == Spec => []StartupInv
<1> QED BY Initially, Inductive, PTL DEF Spec

(* Every variable keeps its type, and no server accepts a token before it  *)
(* looked for the token file.                                              *)
THEOREM TypeCorrect == Spec => []TypeOK
<1>1. StartupInv => TypeOK
  BY DEF StartupInv
<1> QED BY <1>1, Invariance, PTL

(* However many servers migrate one store, crash and start again: when one *)
(* serves, every concept is as 3.0 keeps it, but for the outdated entries  *)
(* that the index of a Postgres store has of 2.x concepts.                 *)
THEOREM ServedIsMigratedCorrect == Spec => []ServedIsMigrated
<1>1. StartupInv => ServedIsMigrated
  BY DEF StartupInv, StoreInv, DoneInOrder, RowsMigrated, RowMigrated, Indexed, Serving, Migrations,
         ServedIsMigrated
<1> QED BY <1>1, Invariance, PTL

(* All servers that serve accept the token in the file they share.         *)
THEOREM TokenSharedCorrect == Spec => []TokenShared
<1>1. StartupInv => TokenShared
  BY DEF StartupInv, TokenInv, TokenShared
<1> QED BY <1>1, Invariance, PTL

(* No migration changes what a server has saved.                           *)
THEOREM MigrationKeepsSavesCorrect == Spec => MigrationKeepsSaves
<1> DEFINE Step == \A i \in Ids :
                     (/\ rows[i] # None /\ rows[i].save > 0 /\ rows'[i] # rows[i])
                       => saves' = saves + 1
<1>1. StartupInv /\ [Next]_vars => [Step]_vars
  <2> SUFFICES ASSUME StartupInv, Next, NEW i \in Ids,
                      rows[i] # None, rows[i].save > 0, rows'[i] # rows[i]
               PROVE  saves' = saves + 1
    OBVIOUS
  <2>1. done = Migrations
    BY DEF StartupInv, StoreInv, SavedAfter
  <2>2. ASSUME NEW s \in Servers, Commit(s) PROVE FALSE
    BY <2>1, <2>2 DEF Commit, StartupInv, StoreInv, LookIsFresh
  <2>3. ASSUME NEW s \in Servers, SqliteMigrate(s) PROVE FALSE
    BY <2>1, <2>3 DEF SqliteMigrate
  <2>4. ASSUME NEW s \in Servers, NEW j \in Ids, Save(s, j) \/ Delete(s, j)
        PROVE  saves' = saves + 1
    BY <2>4 DEF Save, Delete, Put
  <2> QED BY <2>2, <2>3, <2>4
          DEF Next, Advance, Boot, Lock, Read, FindToken, CreateToken, WriteToken, Stop, Crash
<1> QED BY <1>1, Invariance, PTL DEF Spec, MigrationKeepsSaves

-----------------------------------------------------------------------------
(* AutoBackup: types                                                       *)

(* The saves that s has still to announce.                                 *)
Owed(s) == UNION unannounced[s]

OwedSaves ==
  \A s \in Processes :
    /\ IsFiniteSet(Owed(s))
    /\ \A i \in Concepts, n \in Nat : <<i, n>> \in Owed(s) => n <= stored[i]

(* Every save that is announced and not taken has its flush, and the flush *)
(* that runs is another.                                                   *)
Chained ==
  \A s \in Processes : /\ pending[s] <= queue[s]
                       /\ flush[s] # "idle" => pending[s] < queue[s]

BackupTyped == BackupTypeOK /\ OwedSaves /\ Chained

LEMMA MaxOfTwo ==
  ASSUME NEW a \in Int, NEW b \in Int
  PROVE  Max({a, b}) = IF a >= b THEN a ELSE b
<1> DEFINE m == IF a >= b THEN a ELSE b
<1>1. m \in {a, b} /\ (\A y \in {a, b} : m >= y)
  OBVIOUS
<1>2. \A x \in {a, b} : (\A y \in {a, b} : x >= y) => x = m
  OBVIOUS
<1> HIDE DEF m
<1>3. Max({a, b}) = m
  BY <1>1, <1>2 DEF Max
<1> QED BY <1>3 DEF m

(* The saves of a batch are new, one for each of its concepts.             *)
LEMMA SavesOfBatch ==
  ASSUME BackupTyped, NEW batch \in SUBSET Concepts, IsFiniteSet(batch)
  PROVE  /\ SavesOf(batch) \in SUBSET (Concepts \X Nat) /\ IsFiniteSet(SavesOf(batch))
         /\ \A i \in Concepts, n \in Nat : <<i, n>> \in SavesOf(batch) <=> i \in batch /\ n = stored[i] + 1
         /\ \A s \in Processes : Owed(s) \cap SavesOf(batch) = {}
<1> DEFINE conceptOf == [x \in SavesOf(batch) |-> x[1]]
<1>1. \A i \in Concepts : stored[i] \in Nat /\ stored[i] + 1 \in Nat
  BY DEF BackupTyped, BackupTypeOK, Content
<1>2. SavesOf(batch) \in SUBSET (Concepts \X Nat)
      /\ \A i \in Concepts, n \in Nat : <<i, n>> \in SavesOf(batch) <=> i \in batch /\ n = stored[i] + 1
  BY <1>1 DEF SavesOf
<1>3. conceptOf \in Injection(SavesOf(batch), batch)
  BY DEF SavesOf, Injection, IsInjective
<1>4. IsFiniteSet(SavesOf(batch))
  <2> HIDE DEF conceptOf
  <2> QED BY <1>3, FS_Injection
<1>5. ASSUME NEW s \in Processes, NEW x \in Owed(s) PROVE x \notin SavesOf(batch)
  <2>1. \A i \in batch : ~(stored[i] + 1 <= stored[i])
    BY <1>1
  <2> QED BY <1>1, <1>5, <2>1 DEF BackupTyped, OwedSaves, SavesOf
<1> QED BY <1>2, <1>4, <1>5

(* A batch that is announced has a size.                                   *)
LEMMA OwedBatch ==
  ASSUME BackupTyped, NEW s \in Processes, NEW batch \in unannounced[s]
  PROVE  IsFiniteSet(batch) /\ Cardinality(batch) \in Nat
<1>1. batch \in SUBSET Owed(s) /\ IsFiniteSet(Owed(s))
  BY DEF BackupTyped, OwedSaves, Owed
<1> QED BY <1>1, FS_Subset, FS_CardinalityType

LEMMA OwedKept ==
  ASSUME BackupTyped, \A s \in Processes : unannounced'[s] \subseteq unannounced[s], stored' = stored
  PROVE  OwedSaves'
<1>1. \A s \in Processes : Owed(s)' \in SUBSET Owed(s)
  BY DEF Owed
<1>2. \A s \in Processes : IsFiniteSet(Owed(s))
  BY DEF BackupTyped, OwedSaves
<1>3. \A s \in Processes : IsFiniteSet(Owed(s)')
  BY <1>1, <1>2, FS_Subset
<1> QED BY <1>1, <1>3 DEF BackupTyped, OwedSaves

LEMMA StoreContent ==
  ASSUME BackupTyped
  PROVE  \A i \in Concepts : stored[i] \in Nat /\ born[i] \in Nat
BY DEF BackupTyped, BackupTypeOK, Content

LEMMA SaveBatchTyped ==
  ASSUME BackupTyped, NEW s \in Processes, SaveBatch(s)
  PROVE  BackupTyped'
<1> USE DEF BackupTyped
<1>1. PICK batch \in (SUBSET Concepts) \ {{}} :
        /\ IsFiniteSet(batch)
        /\ stored' = [i \in Concepts |-> IF i \in batch THEN stored[i] + 1 ELSE stored[i]]
        /\ born' = [i \in Concepts |-> IF i \in batch \ alive THEN stored[i] ELSE born[i]]
        /\ alive' = alive \cup batch
        /\ unannounced' = [unannounced EXCEPT ![s] = unannounced[s] \cup {SavesOf(batch)}]
  BY DEF SaveBatch
<1>2. /\ SavesOf(batch) \in SUBSET (Concepts \X Nat) /\ IsFiniteSet(SavesOf(batch))
      /\ \A i \in Concepts, n \in Nat : <<i, n>> \in SavesOf(batch) <=> i \in batch /\ n = stored[i] + 1
  BY <1>1, SavesOfBatch
<1>3. /\ UNCHANGED <<counter, flushing, files, excused, backed, failures>>
      /\ changes < MaxChanges /\ changes' = changes + 1
  BY DEF SaveBatch
<1>4. BackupTypeOK'
  <2>1. stored' \in Content /\ born' \in Content /\ alive' \subseteq Concepts
    <3> HIDE DEF BackupTyped
    <3>1. \A i \in Concepts : stored[i] \in Nat /\ born[i] \in Nat
      BY StoreContent
    <3>2. \A i \in Concepts : stored[i] + 1 \in Nat
      BY <3>1
    <3>3. stored' \in Content
      BY <1>1, <3>1, <3>2 DEF Content
    <3>4. born' \in Content
      BY <1>1, <3>1 DEF Content
    <3>5. alive \subseteq Concepts
      BY DEF BackupTyped, BackupTypeOK
    <3>6. alive' \subseteq Concepts
      BY <1>1, <3>5
    <3> QED BY <3>3, <3>4, <3>6
  <2>2. unannounced' \in [Processes -> SUBSET SUBSET (Concepts \X Nat)]
    BY <1>1, <1>2 DEF BackupTypeOK
  <2>3. changes' \in 0 .. MaxChanges
    BY <1>3, AutoBackupAssumption DEF BackupTypeOK
  <2> QED BY <1>3, <2>1, <2>2, <2>3 DEF BackupTypeOK, flushing
<1>5. \A i \in Concepts : stored[i] \in Nat /\ stored[i] <= stored'[i] /\ (i \in batch => stored'[i] = stored[i] + 1)
  <2> HIDE DEF BackupTyped
  <2>1. \A i \in Concepts : stored[i] \in Nat
    BY StoreContent
  <2>2. \A i \in Concepts : stored'[i] = IF i \in batch THEN stored[i] + 1 ELSE stored[i]
    BY <1>1
  <2> QED BY <2>1, <2>2
<1>6. ASSUME NEW t \in Processes
      PROVE  /\ IsFiniteSet(Owed(t)')
             /\ \A i \in Concepts, n \in Nat : <<i, n>> \in Owed(t)' => n <= stored'[i]
  <2>1. IsFiniteSet(Owed(t)) /\ \A i \in Concepts, n \in Nat : <<i, n>> \in Owed(t) => n <= stored[i]
    BY DEF OwedSaves
  <2>2. Owed(t)' \in {Owed(t), Owed(t) \cup SavesOf(batch)}
    BY <1>1 DEF Owed, BackupTypeOK
  <2>3. IsFiniteSet(Owed(t) \cup SavesOf(batch))
    BY <1>2, <2>1, FS_Union
  <2>4. IsFiniteSet(Owed(t)')
    BY <2>1, <2>2, <2>3
  <2>5. ASSUME NEW i \in Concepts, NEW n \in Nat, <<i, n>> \in Owed(t)' PROVE n <= stored'[i]
    <3>1. <<i, n>> \in Owed(t) \/ <<i, n>> \in SavesOf(batch)
      BY <2>2, <2>5
    <3>2. n <= stored[i] \/ n = stored'[i]
      BY <1>2, <1>5, <2>1, <3>1
    <3>3. stored[i] \in Nat /\ stored'[i] \in Nat /\ stored[i] <= stored'[i]
      BY <1>4, <1>5 DEF BackupTypeOK, Content
    <3> QED BY <3>2, <3>3
  <2> QED BY <2>4, <2>5
<1>7. Chained'
  BY <1>3 DEF Chained, flushing
<1> QED BY <1>4, <1>6, <1>7 DEF OwedSaves

LEMMA AnnounceTyped ==
  ASSUME BackupTyped, NEW s \in Processes, Announce(s)
  PROVE  BackupTyped'
<1> USE DEF BackupTyped
<1>1. PICK batch \in unannounced[s] :
        /\ pending' = [pending EXCEPT ![s] = pending[s] + Cardinality(batch)]
        /\ queue' = [queue EXCEPT ![s] = queue[s] + Cardinality(batch)]
        /\ unannounced' = [unannounced EXCEPT ![s] = unannounced[s] \ {batch}]
  BY DEF Announce
<1>2. Cardinality(batch) \in Nat
  BY OwedBatch
<1>3. UNCHANGED <<store, counter, flush, seen, todo, records, files, excused, backed, changes, failures>>
  BY DEF Announce
<1>4. unannounced' \in [Processes -> SUBSET SUBSET (Concepts \X Nat)]
  BY <1>1 DEF BackupTypeOK
<1>5. /\ pending' \in [Processes -> Nat] /\ queue' \in [Processes -> Nat]
      /\ \A t \in Processes \ {s} : queue'[t] = queue[t] /\ pending'[t] = pending[t]
      /\ queue'[s] = queue[s] + Cardinality(batch) /\ pending'[s] = pending[s] + Cardinality(batch)
  BY <1>1, <1>2 DEF BackupTypeOK
<1>6. Chained'
  <2>1. \A t \in Processes : /\ pending[t] <= queue[t] /\ (flush[t] # "idle" => pending[t] < queue[t])
                             /\ flush'[t] = flush[t]
    BY <1>3 DEF Chained
  <2>2. queue[s] \in Nat /\ pending[s] \in Nat
    BY DEF BackupTypeOK
  <2>3. pending'[s] <= queue'[s] /\ (flush'[s] # "idle" => pending'[s] < queue'[s])
    BY <1>2, <1>5, <2>1, <2>2
  <2> QED BY <1>5, <2>1, <2>3 DEF Chained
<1>7. BackupTypeOK'
  <2>1. \A t \in Processes : (flush'[t] # "idle" => queue'[t] > 0) /\ (pending'[t] > 0 => queue'[t] > 0)
    <3>1. \A t \in Processes : queue'[t] \in Nat /\ pending'[t] \in Nat
      BY <1>5
    <3> QED BY <1>6, <3>1 DEF Chained
  <2> QED BY <1>3, <1>4, <1>5, <2>1 DEF BackupTypeOK, store
<1>8. OwedSaves'
  BY <1>1, <1>3, OwedKept DEF BackupTypeOK, store
<1> QED BY <1>6, <1>7, <1>8

LEMMA DeleteTyped ==
  ASSUME BackupTyped, NEW i \in Concepts, DeleteConcept(i)
  PROVE  BackupTyped'
<1> USE DEF BackupTyped, DeleteConcept
<1>1. changes' \in 0 .. MaxChanges
  BY AutoBackupAssumption DEF BackupTypeOK
<1>2. BackupTypeOK'
  BY <1>1 DEF BackupTypeOK, flushing
<1>3. Chained'
  BY DEF Chained, flushing
<1> QED BY <1>2, <1>3, OwedKept

(* A flush that settles was one of those chained.                          *)
LEMMA SettleTyped ==
  ASSUME BackupTyped, NEW s \in Processes, Settle(s), queue[s] > 0
  PROVE  /\ flush' \in [Processes -> {"idle", "count", "write", "list", "read", "prune", "failed"}]
         /\ queue' \in [Processes -> Nat] /\ seen' \in [Processes -> Nat]
         /\ todo' \in [Processes -> SUBSET Concepts] /\ records' \in [Processes -> Content]
         /\ flush'[s] = "idle"
         /\ \A t \in Processes \ {s} : flush'[t] = flush[t] /\ queue'[t] = queue[t]
BY DEF BackupTyped, BackupTypeOK, Settle, Content, Nothing

(* A step that changes only the flush of s.                                *)
FlushStep(s) ==
  /\ UNCHANGED <<store, unannounced, changes>>
  /\ flush' \in [Processes -> {"idle", "count", "write", "list", "read", "prune", "failed"}]
  /\ queue' \in [Processes -> Nat] /\ pending' \in [Processes -> Nat] /\ seen' \in [Processes -> Nat]
  /\ todo' \in [Processes -> SUBSET Concepts] /\ records' \in [Processes -> Content]
  /\ files' \in [Processes -> Seq(Content)]
  /\ counter' \in 0 .. Threshold - 1 /\ excused' \in Content /\ backed' \in Content
  /\ failures' \in 0 .. MaxFailures
  /\ pending'[s] <= queue'[s] /\ (flush'[s] # "idle" => pending'[s] < queue'[s])
  /\ \A t \in Processes \ {s} : flush'[t] = flush[t] /\ queue'[t] = queue[t] /\ pending'[t] = pending[t]

LEMMA FlushTyped ==
  ASSUME BackupTyped, NEW s \in Processes, FlushStep(s)
  PROVE  BackupTyped'
<1>1. Chained'
  BY DEF BackupTyped, Chained, FlushStep
<1>2. \A t \in Processes : (flush'[t] # "idle" => queue'[t] > 0) /\ (pending'[t] > 0 => queue'[t] > 0)
  <2>1. \A t \in Processes : queue'[t] \in Nat /\ pending'[t] \in Nat
    BY DEF FlushStep
  <2> QED BY <1>1, <2>1 DEF Chained
<1>3. BackupTypeOK'
  BY <1>2 DEF BackupTyped, BackupTypeOK, FlushStep, store
<1>4. OwedSaves'
  BY OwedKept DEF FlushStep, store
<1> QED BY <1>1, <1>3, <1>4 DEF BackupTyped

(* What a step of a flush leaves alone keeps its type.                     *)
LEMMA FlushKept ==
  ASSUME BackupTyped, NEW s \in Processes
  PROVE  /\ flush \in [Processes -> {"idle", "count", "write", "list", "read", "prune", "failed"}]
         /\ queue \in [Processes -> Nat] /\ pending \in [Processes -> Nat] /\ seen \in [Processes -> Nat]
         /\ todo \in [Processes -> SUBSET Concepts] /\ records \in [Processes -> Content]
         /\ files \in [Processes -> Seq(Content)]
         /\ counter \in 0 .. Threshold - 1 /\ excused \in Content /\ backed \in Content
         /\ failures \in 0 .. MaxFailures
         /\ pending[s] <= queue[s] /\ (flush[s] # "idle" => pending[s] < queue[s])
         /\ pending[s] \in Nat /\ queue[s] \in Nat /\ seen[s] \in Nat
BY DEF BackupTyped, BackupTypeOK, Chained

LEMMA TakeTyped ==
  ASSUME BackupTyped, NEW s \in Processes, Take(s)
  PROVE  BackupTyped'
<1>1. /\ queue[s] \in Nat /\ queue[s] > 0 /\ pending' \in [Processes -> Nat] /\ pending'[s] = 0
      /\ \A t \in Processes \ {s} : pending'[t] = pending[t]
  BY DEF BackupTyped, BackupTypeOK, Take
<1>2. /\ UNCHANGED <<store, unannounced, changes, files, counter, excused, backed, failures>>
      /\ files' \in [Processes -> Seq(Content)]
      /\ counter' \in 0 .. Threshold - 1 /\ excused' \in Content /\ backed' \in Content
      /\ failures' \in 0 .. MaxFailures
  BY FlushKept DEF Take
<1>3. CASE pending[s] = 0
  <2>1. Settle(s) /\ queue'[s] = queue[s] - 1
    BY <1>3 DEF Settle, BackupTyped, BackupTypeOK, Take
  <2>2. pending'[s] <= queue'[s]
    BY <1>1, <2>1
  <2>3. FlushStep(s)
    BY <1>1, <1>2, <2>1, <2>2, SettleTyped DEF FlushStep
  <2> QED BY <2>3, FlushTyped
<1>4. CASE pending[s] # 0
  <2>1. /\ flush' = [flush EXCEPT ![s] = "count"] /\ seen' = [seen EXCEPT ![s] = pending[s]]
        /\ UNCHANGED <<queue, todo, records>>
    BY <1>4 DEF Take
  <2>2. FlushStep(s)
    BY <1>1, <1>2, <2>1, FlushKept DEF FlushStep
  <2> QED BY <2>2, FlushTyped
<1> QED BY <1>3, <1>4

LEMMA ReadCounterTyped ==
  ASSUME BackupTyped, NEW s \in Processes, ReadCounter(s)
  PROVE  BackupTyped'
<1>1. /\ UNCHANGED <<store, unannounced, changes, files, counter, excused, backed, failures,
                     pending, queue, todo, records>>
      /\ flush[s] # "idle" /\ flush' = [flush EXCEPT ![s] = "write"]
      /\ seen' = [seen EXCEPT ![s] = counter + seen[s]]
  BY DEF ReadCounter
<1>2. seen' \in [Processes -> Nat]
  BY <1>1, FlushKept, AutoBackupAssumption
<1>3. FlushStep(s)
  BY <1>1, <1>2, FlushKept DEF FlushStep
<1> QED BY <1>3, FlushTyped

LEMMA WriteCounterTyped ==
  ASSUME BackupTyped, NEW s \in Processes, WriteCounter(s)
  PROVE  BackupTyped'
<1>1. queue[s] \in Nat /\ pending[s] \in Nat /\ pending[s] < queue[s] /\ queue[s] > 0
  BY FlushKept DEF WriteCounter
<1>2. /\ UNCHANGED <<store, unannounced, changes, files, excused, backed, failures, pending>>
      /\ files' \in [Processes -> Seq(Content)] /\ pending' \in [Processes -> Nat]
      /\ excused' \in Content /\ backed' \in Content /\ failures' \in 0 .. MaxFailures
  BY FlushKept DEF WriteCounter
<1>3. CASE seen[s] < Threshold
  <2>1. counter' = seen[s] /\ seen[s] \in Nat
    BY <1>3, FlushKept DEF WriteCounter
  <2>2. counter' \in 0 .. Threshold - 1
    BY <1>3, <2>1, AutoBackupAssumption
  <2>3. queue'[s] = queue[s] - 1 /\ Settle(s)
    BY <1>3 DEF Settle, BackupTyped, BackupTypeOK, WriteCounter
  <2>4. pending'[s] <= queue'[s]
    BY <1>1, <1>2, <2>3
  <2>5. FlushStep(s)
    BY <1>1, <1>2, <2>2, <2>3, <2>4, SettleTyped DEF FlushStep
  <2> QED BY <2>5, FlushTyped
<1>4. CASE ~(seen[s] < Threshold)
  <2>1. counter' = 0 /\ flush' = [flush EXCEPT ![s] = "list"] /\ UNCHANGED <<queue, seen, todo, records>>
    BY <1>4 DEF WriteCounter
  <2>2. counter' \in 0 .. Threshold - 1
    BY <2>1, AutoBackupAssumption
  <2>3. FlushStep(s)
    BY <1>1, <1>2, <2>1, <2>2, FlushKept DEF FlushStep
  <2> QED BY <2>3, FlushTyped
<1> QED BY <1>3, <1>4

LEMMA ListIdsTyped ==
  ASSUME BackupTyped, NEW s \in Processes, ListIds(s)
  PROVE  BackupTyped'
<1>1. todo' \in [Processes -> SUBSET Concepts]
  BY DEF ListIds, BackupTyped, BackupTypeOK
<1>2. FlushStep(s)
  BY <1>1, FlushKept DEF FlushStep, ListIds
<1> QED BY <1>2, FlushTyped

LEMMA ReadRowTyped ==
  ASSUME BackupTyped, NEW s \in Processes, ReadRow(s)
  PROVE  BackupTyped'
<1>1. PICK i \in todo[s] :
        /\ todo' = [todo EXCEPT ![s] = todo[s] \ {i}]
        /\ records' = [records EXCEPT ![s][i] = IF i \in alive THEN stored[i] ELSE 0]
  BY DEF ReadRow
<1>2. i \in Concepts /\ stored[i] \in Nat
  BY <1>1 DEF BackupTyped, BackupTypeOK, Content
<1>3. todo' \in [Processes -> SUBSET Concepts]
  BY <1>1, FlushKept
<1>4. records' \in [Processes -> Content]
  BY <1>1, <1>2, FlushKept DEF Content
<1>5. FlushStep(s)
  BY <1>3, <1>4, FlushKept DEF FlushStep, ReadRow
<1> QED BY <1>5, FlushTyped

(* What InsertAt makes of a sequence.                                      *)
LEMMA Inserted ==
  ASSUME NEW S, NEW named \in Seq(S), NEW p \in 1 .. Len(named) + 1, NEW new \in S
  PROVE  /\ InsertAt(named, p, new) \in Seq(S) /\ Len(InsertAt(named, p, new)) = Len(named) + 1
         /\ InsertAt(named, p, new)[p] = new
         /\ Range(InsertAt(named, p, new)) = Range(named) \cup {new}
<1> DEFINE n == Len(named)
           front == SubSeq(named, 1, p - 1)
           end == SubSeq(named, p, n)
           begun == front \o <<new>>
           whole == begun \o end
<1>1. n \in Nat /\ p \in Nat /\ p >= 1 /\ p <= n + 1 /\ DOMAIN named = 1 .. n
  OBVIOUS
<1>2. InsertAt(named, p, new) = whole
  BY DEF InsertAt
<1>3. front \in Seq(S) /\ Len(front) = p - 1 /\ \A k \in 1 .. p - 1 : front[k] = named[k]
  BY <1>1
<1>4. end \in Seq(S) /\ Len(end) = n - p + 1 /\ \A k \in 1 .. n - p + 1 : end[k] = named[p + k - 1]
  BY <1>1
<1> HIDE DEF front, end
<1>5. begun \in Seq(S) /\ Len(begun) = p - 1 + 1 /\ (\A k \in 1 .. p - 1 : begun[k] = front[k])
      /\ begun[p - 1 + 1] = new
  BY <1>3
<1>6. Len(begun) = p /\ begun[p] = new
  BY <1>1, <1>5
<1> HIDE DEF begun
<1>7. whole \in Seq(S) /\ Len(whole) = Len(begun) + Len(end)
      /\ \A k \in 1 .. Len(begun) + Len(end) :
           whole[k] = IF k <= Len(begun) THEN begun[k] ELSE end[k - Len(begun)]
  BY <1>4, <1>5, ConcatProperties
<1> HIDE DEF whole, n
<1>8. Len(whole) = n + 1 /\ DOMAIN whole = 1 .. n + 1
  BY <1>1, <1>4, <1>6, <1>7
<1>9. \A k \in 1 .. n + 1 : whole[k] = IF k <= p THEN begun[k] ELSE end[k - p]
  BY <1>1, <1>4, <1>6, <1>7
<1>10. whole[p] = new
  BY <1>1, <1>6, <1>9
<1>11. \A k \in 1 .. p - 1 : whole[k] = named[k]
  BY <1>1, <1>3, <1>5, <1>9
<1>12. \A k \in p .. n : whole[k + 1] = named[k]
  <2> SUFFICES ASSUME NEW k \in p .. n PROVE whole[k + 1] = named[k]
    OBVIOUS
  <2>1. k + 1 \in 1 .. n + 1 /\ ~(k + 1 <= p) /\ k + 1 - p \in 1 .. n - p + 1 /\ p + (k + 1 - p) - 1 = k
    BY <1>1
  <2> QED BY <1>4, <1>9, <2>1
<1>13. Range(whole) \subseteq Range(named) \cup {new}
  <2> SUFFICES ASSUME NEW k \in 1 .. n + 1 PROVE whole[k] \in Range(named) \cup {new}
    BY <1>8 DEF Range
  <2>1. CASE k = p
    BY <1>10, <2>1
  <2>2. CASE k < p
    <3>1. k \in 1 .. n /\ k \in 1 .. p - 1
      BY <1>1, <2>2
    <3> QED BY <1>1, <1>11, <3>1 DEF Range
  <2>3. CASE k > p
    <3>1. k - 1 \in p .. n /\ k - 1 \in 1 .. n /\ k - 1 + 1 = k
      BY <1>1, <2>3
    <3>2. whole[k] = named[k - 1]
      BY <1>12, <3>1
    <3> QED BY <1>1, <3>1, <3>2 DEF Range
  <2> QED BY <1>1, <2>1, <2>2, <2>3
<1>14. ASSUME NEW k \in 1 .. n PROVE named[k] \in Range(whole)
  <2>1. CASE k < p
    <3>1. k \in 1 .. p - 1 /\ k \in 1 .. n + 1
      BY <1>1, <2>1
    <3> QED BY <1>8, <1>11, <3>1 DEF Range
  <2>2. CASE ~(k < p)
    <3>1. k \in p .. n /\ k + 1 \in 1 .. n + 1
      BY <1>1, <2>2
    <3> QED BY <1>8, <1>12, <3>1 DEF Range
  <2> QED BY <2>1, <2>2
<1>15. new \in Range(whole)
  <2>1. p \in 1 .. n + 1
    BY <1>1
  <2> QED BY <1>8, <1>10, <2>1 DEF Range
<1>16. Range(whole) = Range(named) \cup {new}
  BY <1>1, <1>13, <1>14, <1>15 DEF Range
<1> QED BY <1>2, <1>7, <1>8, <1>10, <1>16 DEF n

(* A file is written among those that are there.                           *)
LEMMA WriteFileFiles ==
  ASSUME BackupTyped, NEW s \in Processes, NEW below \in 0 .. SameStamp - 1, below <= Len(files[s]),
         NEW named, named = InsertAt(files[s], Len(files[s]) - below + 1, records[s])
  PROVE  /\ named \in Seq(Content) /\ Len(named) = Len(files[s]) + 1
         /\ named[Len(files[s]) - below + 1] = records[s]
         /\ Range(named) = Range(files[s]) \cup {records[s]}
<1>1. files[s] \in Seq(Content) /\ records[s] \in Content /\ Len(files[s]) \in Nat
  BY FlushKept
<1> DEFINE place == Len(files[s]) - below + 1
<1>2. place \in 1 .. Len(files[s]) + 1
  BY <1>1, AutoBackupAssumption
<1>3. named = InsertAt(files[s], place, records[s])
  OBVIOUS
<1> HIDE DEF place
<1>4. /\ named \in Seq(Content) /\ Len(named) = Len(files[s]) + 1 /\ named[place] = records[s]
      /\ Range(named) = Range(files[s]) \cup {records[s]}
  <2> DEFINE there == files[s]
             new == records[s]
  <2>1. there \in Seq(Content) /\ new \in Content /\ place \in 1 .. Len(there) + 1
    BY <1>1, <1>2
  <2>2. named = InsertAt(there, place, new)
    BY <1>3
  <2> HIDE DEF there, new
  <2>3. /\ named \in Seq(Content) /\ Len(named) = Len(there) + 1 /\ named[place] = new
        /\ Range(named) = Range(there) \cup {new}
    BY <2>1, <2>2, Inserted
  <2> QED BY <2>3 DEF there, new
<1> QED BY <1>4 DEF place

LEMMA WriteFileTyped ==
  ASSUME BackupTyped, NEW s \in Processes, WriteFile(s)
  PROVE  BackupTyped' /\ \A i \in Concepts : backed'[i] = IF backed[i] >= records[s][i] THEN backed[i] ELSE records[s][i]
<1>1. PICK below \in 0 .. SameStamp - 1 :
        /\ below <= Len(files[s])
        /\ files' = [files EXCEPT ![s] = InsertAt(files[s], Len(files[s]) - below + 1, records[s])]
  BY DEF WriteFile
<1>2. InsertAt(files[s], Len(files[s]) - below + 1, records[s]) \in Seq(Content)
  BY <1>1, WriteFileFiles
<1>3. files' \in [Processes -> Seq(Content)]
  BY <1>1, <1>2, FlushKept
<1>4. \A i \in Concepts : backed[i] \in Nat /\ records[s][i] \in Nat
  BY FlushKept DEF Content
<1>5. \A i \in Concepts : backed'[i] = IF backed[i] >= records[s][i] THEN backed[i] ELSE records[s][i]
  BY <1>4, MaxOfTwo DEF WriteFile
<1>6. backed' \in Content
  <2>1. \A i \in Concepts : backed'[i] \in Nat
    BY <1>4, <1>5
  <2> QED BY <2>1 DEF WriteFile, Content
<1>7. FlushStep(s)
  BY <1>3, <1>6, FlushKept DEF FlushStep, WriteFile
<1> QED BY <1>5, <1>7, FlushTyped

(* What pruning keeps: all but the oldest, in their order.                 *)
LEMMA KeptFiles ==
  ASSUME NEW named \in Seq(Content)
  PROVE  /\ Kept(named) \in Seq(Content) /\ Range(Kept(named)) \subseteq Range(named)
         /\ \A p \in 1 .. Len(named) : p > Len(named) - Retain => named[p] \in Range(Kept(named))
<1> DEFINE n == Len(named)
           first == Max({1, n - Retain + 1})
<1>1. n \in Nat /\ n - Retain + 1 \in Int /\ Retain \in Nat /\ Retain > 0
  BY AutoBackupAssumption
<1>2. first = (IF 1 >= n - Retain + 1 THEN 1 ELSE n - Retain + 1)
  BY <1>1, MaxOfTwo
<1>3. Kept(named) = SubSeq(named, first, n)
  BY DEF Kept
<1> HIDE DEF n, first
<1>4. first \in 1 .. n + 1
  BY <1>1, <1>2
<1>5. /\ Kept(named) \in Seq(Content) /\ Len(Kept(named)) = n - first + 1
      /\ \A k \in 1 .. n - first + 1 : Kept(named)[k] = named[first + k - 1]
  BY <1>1, <1>3, <1>4 DEF n
<1>6. ASSUME NEW p \in 1 .. n, p > n - Retain PROVE named[p] \in Range(Kept(named))
  <2>1. p - first + 1 \in 1 .. n - first + 1 /\ first + (p - first + 1) - 1 = p
    BY <1>1, <1>2, <1>4, <1>6
  <2>2. Kept(named)[p - first + 1] = named[p]
    BY <1>5, <2>1
  <2>3. DOMAIN Kept(named) = 1 .. n - first + 1
    BY <1>5
  <2> QED BY <2>1, <2>2, <2>3 DEF Range
<1>7. ASSUME NEW k \in 1 .. n - first + 1 PROVE Kept(named)[k] \in Range(named)
  <2>1. first + k - 1 \in 1 .. n
    BY <1>1, <1>4
  <2>2. DOMAIN named = 1 .. n
    BY DEF n
  <2> QED BY <1>5, <2>1, <2>2 DEF Range
<1>8. Range(Kept(named)) \subseteq Range(named)
  BY <1>5, <1>7 DEF Range
<1> QED BY <1>5, <1>6, <1>8 DEF n

LEMMA PruneTyped ==
  ASSUME BackupTyped, NEW s \in Processes, Prune(s)
  PROVE  BackupTyped'
<1>1. /\ Settle(s) /\ flush[s] # "idle" /\ files' = [files EXCEPT ![s] = Kept(files[s])]
      /\ UNCHANGED <<store, counter, unannounced, pending, excused, backed, changes, failures>>
  BY DEF Prune
<1>2. files' \in [Processes -> Seq(Content)]
  <2>1. files[s] \in Seq(Content)
    BY FlushKept
  <2>2. Kept(files[s]) \in Seq(Content)
    BY <2>1, KeptFiles
  <2> QED BY <1>1, <2>2, FlushKept
<1>3. pending[s] < queue[s] /\ queue[s] \in Nat /\ pending[s] \in Nat /\ queue[s] > 0
  BY <1>1, FlushKept
<1>4. queue'[s] = queue[s] - 1
  BY <1>1, FlushKept DEF Settle
<1>5. pending'[s] <= queue'[s]
  BY <1>1, <1>3, <1>4
<1>6. FlushStep(s)
  BY <1>1, <1>2, <1>3, <1>5, FlushKept, SettleTyped DEF FlushStep
<1> QED BY <1>6, FlushTyped

LEMMA FailTyped ==
  ASSUME BackupTyped, NEW s \in Processes, Fail(s)
  PROVE  BackupTyped'
<1>1. excused' \in Content /\ failures' \in 0 .. MaxFailures
  BY AutoBackupAssumption DEF Fail, BackupTyped, BackupTypeOK
<1>2. FlushStep(s)
  BY <1>1, FlushKept DEF FlushStep, Fail
<1> QED BY <1>2, FlushTyped

LEMMA CatchTyped ==
  ASSUME BackupTyped, NEW s \in Processes, Catch(s)
  PROVE  BackupTyped'
<1>1. /\ Settle(s) /\ flush[s] # "idle"
      /\ UNCHANGED <<store, counter, unannounced, pending, files, excused, backed, changes, failures>>
  BY DEF Catch
<1>2. pending[s] < queue[s] /\ queue[s] \in Nat /\ pending[s] \in Nat /\ queue[s] > 0
  BY <1>1, FlushKept
<1>3. queue'[s] = queue[s] - 1
  BY <1>1, FlushKept DEF Settle
<1>4. pending'[s] <= queue'[s]
  BY <1>1, <1>2, <1>3
<1>5. FlushStep(s)
  BY <1>1, <1>2, <1>4, FlushKept, SettleTyped DEF FlushStep
<1> QED BY <1>5, FlushTyped

LEMMA RestartTyped ==
  ASSUME BackupTyped, NEW s \in Processes, Restart(s)
  PROVE  BackupTyped'
<1>1. excused' \in Content /\ failures' \in 0 .. MaxFailures
  BY AutoBackupAssumption DEF Restart, BackupTyped, BackupTypeOK
<1>2. unannounced' \in [Processes -> SUBSET SUBSET (Concepts \X Nat)]
      /\ \A t \in Processes : unannounced'[t] \subseteq unannounced[t]
  BY DEF Restart, BackupTyped, BackupTypeOK
<1>3. /\ flush' \in [Processes -> {"idle", "count", "write", "list", "read", "prune", "failed"}]
      /\ queue' \in [Processes -> Nat] /\ pending' \in [Processes -> Nat] /\ seen' \in [Processes -> Nat]
      /\ flush'[s] = "idle" /\ queue'[s] = 0 /\ pending'[s] = 0
      /\ \A t \in Processes \ {s} : flush'[t] = flush[t] /\ queue'[t] = queue[t] /\ pending'[t] = pending[t]
  BY FlushKept DEF Restart
<1>4. todo' \in [Processes -> SUBSET Concepts] /\ records' \in [Processes -> Content]
  BY FlushKept DEF Restart, Content, Nothing
<1>5. Chained'
  BY <1>3 DEF BackupTyped, Chained
<1>6. \A t \in Processes : (flush'[t] # "idle" => queue'[t] > 0) /\ (pending'[t] > 0 => queue'[t] > 0)
  <2>1. \A t \in Processes : queue'[t] \in Nat /\ pending'[t] \in Nat
    BY <1>3
  <2> QED BY <1>5, <2>1 DEF Chained
<1>7. UNCHANGED <<store, counter, files, backed, changes>>
  BY DEF Restart
<1>8. BackupTypeOK'
  BY <1>1, <1>2, <1>3, <1>4, <1>6, <1>7 DEF BackupTyped, BackupTypeOK, store
<1>9. OwedSaves'
  BY <1>2, <1>7, OwedKept DEF store
<1> QED BY <1>5, <1>8, <1>9 DEF BackupTyped

LEMMA BackupInitially == BackupInit => BackupTyped
<1> SUFFICES ASSUME BackupInit PROVE BackupTyped
  OBVIOUS
<1> USE AutoBackupAssumption DEF BackupInit
<1>1. BackupTypeOK
  BY DEF BackupTypeOK, Content, Nothing
<1>2. \A s \in Processes : Owed(s) = {}
  BY DEF Owed
<1>3. OwedSaves
  BY <1>2, FS_EmptySet DEF OwedSaves
<1>4. Chained
  BY DEF Chained
<1> QED BY <1>1, <1>3, <1>4 DEF BackupTyped

LEMMA BackupInductive == BackupTyped /\ [BackupNext]_backupVars => BackupTyped'
<1> SUFFICES ASSUME BackupTyped, [BackupNext]_backupVars PROVE BackupTyped'
  OBVIOUS
<1>1. ASSUME NEW s \in Processes, SaveBatch(s) PROVE BackupTyped'
  BY <1>1, SaveBatchTyped
<1>2. ASSUME NEW s \in Processes, Proceed(s) PROVE BackupTyped'
  BY <1>2, AnnounceTyped, TakeTyped, ReadCounterTyped, WriteCounterTyped, ListIdsTyped, ReadRowTyped,
     WriteFileTyped, PruneTyped, CatchTyped DEF Proceed
<1>3. ASSUME NEW s \in Processes, Fail(s) PROVE BackupTyped'
  BY <1>3, FailTyped
<1>4. ASSUME NEW s \in Processes, Restart(s) PROVE BackupTyped'
  BY <1>4, RestartTyped
<1>5. ASSUME NEW i \in Concepts, DeleteConcept(i) PROVE BackupTyped'
  BY <1>5, DeleteTyped
<1>6. CASE UNCHANGED backupVars
  BY <1>6 DEF backupVars, store, flushing, BackupTyped, BackupTypeOK, OwedSaves, Owed, Chained
<1> QED BY <1>1, <1>2, <1>3, <1>4, <1>5, <1>6 DEF BackupNext

(* Every variable of AutoBackup has its type: the counter in the database  *)
(* never reaches Threshold, and every flush that runs, and every save that *)
(* is announced and not taken, has its place in the chain of flushes.      *)
THEOREM BackupTypeCorrect == BackupSpec => []BackupTypeOK
<1>1. BackupTyped => BackupTypeOK
  BY DEF BackupTyped
<1> QED BY <1>1, BackupInitially, BackupInductive, PTL DEF BackupSpec

-----------------------------------------------------------------------------
(* AutoBackup: pruning                                                     *)

(* Content holds all that the files of s hold of the concepts that exist.  *)
Covers(s, content) ==
  \A i \in alive, old \in Range(files[s]) : old[i] > born[i] => content[i] >= old[i]

(* No export and no file is ahead of the store; an export that is under    *)
(* way has read no less of a concept than a file holds; and a file that    *)
(* covers the others is among the newest until they are pruned.            *)
Past(s) ==
  \A i \in Concepts : /\ records[s][i] <= stored[i]
                      /\ \A old \in Range(files[s]) : old[i] <= stored[i]

Reading(s) ==
  flush[s] = "read" =>
    \A i \in alive \ todo[s], old \in Range(files[s]) : old[i] > born[i] => records[s][i] >= old[i]

Written(s) ==
  flush[s] = "prune" =>
    \E p \in 1 .. Len(files[s]) : p > Len(files[s]) - SameStamp /\ Covers(s, files[s][p])

Covered(s) == Past(s) /\ Reading(s) /\ Written(s)

LEMMA FilesContent ==
  ASSUME BackupTyped, NEW s \in Processes
  PROVE  /\ \A old \in Range(files[s]) : old \in Content /\ \A i \in Concepts : old[i] \in Nat
         /\ \A p \in 1 .. Len(files[s]) : files[s][p] \in Range(files[s])
         /\ \A i \in Concepts : /\ stored[i] \in Nat /\ born[i] \in Nat /\ records[s][i] \in Nat
                                /\ backed[i] \in Nat /\ excused[i] \in Nat
<1>1. files[s] \in Seq(Content)
  BY FlushKept
<1>2. DOMAIN files[s] = 1 .. Len(files[s]) /\ \A p \in 1 .. Len(files[s]) : files[s][p] \in Content
  BY <1>1
<1>3. \A old \in Range(files[s]) : old \in Content
  BY <1>2 DEF Range
<1> QED BY <1>2, <1>3 DEF Range, Content, BackupTyped, BackupTypeOK

(* A step that leaves the store and the files of s as they are.            *)
LEMMA CoveredKept ==
  ASSUME BackupTyped, NEW s \in Processes, Covered(s), UNCHANGED store, files'[s] = files[s],
         records'[s] \in {records[s], Nothing},
         \/ flush'[s] \notin {"read", "prune"}
         \/ flush'[s] = flush[s] /\ records'[s] = records[s] /\ todo'[s] = todo[s]
  PROVE  Covered(s)'
<1>1. \A i \in Concepts : stored[i] \in Nat /\ records'[s][i] <= stored[i]
  BY FilesContent DEF Covered, Past, Nothing
<1>2. Past(s)'
  BY <1>1 DEF Covered, Past, store
<1>3. Reading(s)' /\ Written(s)'
  BY DEF Covered, Reading, Written, Covers, store
<1> QED BY <1>2, <1>3 DEF Covered

LEMMA SaveBatchCovered ==
  ASSUME BackupTyped, NEW s \in Processes, Covered(s), NEW t \in Processes, SaveBatch(t)
  PROVE  Covered(s)'
<1>1. PICK batch \in (SUBSET Concepts) \ {{}} :
        /\ stored' = [i \in Concepts |-> IF i \in batch THEN stored[i] + 1 ELSE stored[i]]
        /\ born' = [i \in Concepts |-> IF i \in batch \ alive THEN stored[i] ELSE born[i]]
        /\ alive' = alive \cup batch
  BY DEF SaveBatch
<1>2. UNCHANGED <<flushing, files>>
  BY DEF SaveBatch
<1>3. \A i \in Concepts : stored[i] <= stored'[i]
  BY <1>1, FilesContent
<1>4. Past(s)'
  <2>1. ASSUME NEW i \in Concepts, NEW n \in Nat, n <= stored[i] PROVE n <= stored'[i]
    <3>1. stored[i] \in Nat /\ stored'[i] \in Nat /\ stored[i] <= stored'[i]
      BY <1>1, <1>3, FilesContent
    <3> QED BY <2>1, <3>1
  <2> QED BY <1>2, <2>1, FilesContent DEF Covered, Past, flushing
<1>5. ASSUME NEW i \in alive', NEW old \in Range(files[s]), old[i] > born'[i]
      PROVE  i \in alive /\ born'[i] = born[i]
  <2>1. i \in Concepts
    BY <1>1 DEF BackupTyped, BackupTypeOK
  <2>2. old[i] <= stored[i] /\ old[i] \in Nat /\ stored[i] \in Nat
    BY <2>1, FilesContent DEF Covered, Past
  <2>3. CASE i \in batch \ alive
    BY <1>1, <1>5, <2>1, <2>2, <2>3
  <2>4. CASE i \notin batch \ alive
    BY <1>1, <2>1, <2>4
  <2> QED BY <2>3, <2>4
<1>6. Reading(s)'
  BY <1>2, <1>5 DEF Covered, Reading, flushing
<1>7. Written(s)'
  BY <1>2, <1>5 DEF Covered, Written, Covers, flushing
<1> QED BY <1>4, <1>6, <1>7 DEF Covered

LEMMA DeleteCovered ==
  ASSUME BackupTyped, NEW s \in Processes, Covered(s), NEW i \in Concepts, DeleteConcept(i)
  PROVE  Covered(s)'
BY DEF DeleteConcept, Covered, Past, Reading, Written, Covers, flushing

LEMMA ListIdsCovered ==
  ASSUME BackupTyped, NEW s \in Processes, Covered(s), ListIds(s)
  PROVE  Covered(s)'
<1>1. todo'[s] = alive' /\ flush'[s] = "read" /\ UNCHANGED <<records, files, store>>
  BY DEF ListIds, store, BackupTyped, BackupTypeOK
<1> QED BY <1>1 DEF Covered, Past, Reading, Written, store

LEMMA ReadRowCovered ==
  ASSUME BackupTyped, NEW s \in Processes, Covered(s), ReadRow(s)
  PROVE  Covered(s)'
<1>1. PICK i \in todo[s] :
        /\ todo' = [todo EXCEPT ![s] = todo[s] \ {i}]
        /\ records' = [records EXCEPT ![s][i] = IF i \in alive THEN stored[i] ELSE 0]
  BY DEF ReadRow
<1>2. UNCHANGED <<store, files, flush>> /\ flush[s] = "read" /\ flush'[s] = "read"
  BY DEF ReadRow
<1>3. i \in Concepts /\ stored[i] \in Nat /\ todo'[s] = todo[s] \ {i} /\ alive \subseteq Concepts
  BY <1>1, FilesContent, FlushKept DEF BackupTyped, BackupTypeOK
<1>4. /\ records'[s][i] = IF i \in alive THEN stored[i] ELSE 0
      /\ \A j \in Concepts \ {i} : records'[s][j] = records[s][j]
  BY <1>1, <1>3, FlushKept DEF Content
<1>5. Past(s)'
  <2>1. \A j \in Concepts : records'[s][j] <= stored[j]
    BY <1>3, <1>4 DEF Covered, Past
  <2> QED BY <1>2, <2>1 DEF Covered, Past, store
<1>6. ASSUME NEW j \in alive \ todo'[s], NEW old \in Range(files[s]), old[j] > born[j]
      PROVE  records'[s][j] >= old[j]
  <2>1. CASE j = i
    <3>1. old[i] <= stored[i] /\ old[i] \in Nat /\ records'[s][i] = stored[i]
      BY <1>3, <1>4, <2>1, FilesContent DEF Covered, Past
    <3> QED BY <1>3, <2>1, <3>1
  <2>2. CASE j # i
    BY <1>2, <1>3, <1>4, <1>6, <2>2 DEF Covered, Reading
  <2> QED BY <2>1, <2>2
<1>7. Reading(s)'
  BY <1>2, <1>6 DEF Reading, store
<1>8. Written(s)'
  BY <1>2 DEF Written
<1> QED BY <1>5, <1>7, <1>8 DEF Covered

LEMMA WriteFileCovered ==
  ASSUME BackupTyped, NEW s \in Processes, Covered(s), WriteFile(s)
  PROVE  Covered(s)'
<1>1. PICK below \in 0 .. SameStamp - 1 :
        /\ below <= Len(files[s])
        /\ files' = [files EXCEPT ![s] = InsertAt(files[s], Len(files[s]) - below + 1, records[s])]
  BY DEF WriteFile
<1> DEFINE n == Len(files[s])
           p == n - below + 1
<1>2. files'[s] = InsertAt(files[s], Len(files[s]) - below + 1, records[s])
  BY <1>1, FlushKept
<1>3. /\ Len(files'[s]) = n + 1 /\ files'[s][p] = records[s]
      /\ Range(files'[s]) = Range(files[s]) \cup {records[s]}
  BY <1>1, <1>2, WriteFileFiles
<1>4. UNCHANGED <<store, records, todo>> /\ flush'[s] = "prune" /\ flush[s] = "read" /\ todo[s] = {}
  BY FlushKept DEF WriteFile
<1>5. Past(s)'
  BY <1>3, <1>4 DEF Covered, Past, store
<1>6. ASSUME NEW i \in alive, NEW old \in Range(files'[s]), old[i] > born[i]
      PROVE  records[s][i] >= old[i]
  <2>1. i \in Concepts
    BY DEF BackupTyped, BackupTypeOK
  <2>2. CASE old \in Range(files[s])
    BY <1>4, <1>6, <2>2 DEF Covered, Reading
  <2>3. CASE old = records[s]
    <3>1. records[s][i] \in Nat
      BY <2>1, FilesContent
    <3> QED BY <2>3, <3>1
  <2> QED BY <1>3, <2>2, <2>3
<1>7. p \in 1 .. Len(files'[s]) /\ p > Len(files'[s]) - SameStamp
  <2>1. n \in Nat /\ SameStamp \in Nat
    BY FlushKept, AutoBackupAssumption
  <2> QED BY <1>1, <1>3, <2>1
<1> HIDE DEF p
<1>8. Written(s)'
  BY <1>3, <1>4, <1>6, <1>7 DEF Written, Covers, store
<1>9. Reading(s)'
  BY <1>4 DEF Reading
<1> QED BY <1>5, <1>8, <1>9 DEF Covered

LEMMA PruneCovered ==
  ASSUME BackupTyped, NEW s \in Processes, Covered(s), Prune(s)
  PROVE  Covered(s)'
<1>1. files[s] \in Seq(Content)
  BY FlushKept
<1>2. files'[s] = Kept(files[s]) /\ records'[s] = Nothing /\ flush'[s] = "idle" /\ UNCHANGED store
  BY FlushKept DEF Prune, Settle
<1>3. Range(files'[s]) \subseteq Range(files[s])
  BY <1>1, <1>2, KeptFiles
<1>4. Past(s)'
  <2>1. \A i \in Concepts : records'[s][i] = 0 /\ 0 <= stored[i]
    BY <1>2, FilesContent DEF Nothing
  <2> QED BY <1>2, <1>3, <2>1 DEF Covered, Past, store
<1> QED BY <1>2, <1>4 DEF Covered, Reading, Written

(* The flush of another server, and the steps of s that read no row and    *)
(* write no file.                                                          *)
LEMMA OthersCovered ==
  ASSUME BackupTyped, NEW s \in Processes, Covered(s), NEW t \in Processes,
         \/ Announce(t) \/ Take(t) \/ ReadCounter(t) \/ WriteCounter(t) \/ Fail(t) \/ Catch(t)
         \/ Restart(t)
         \/ t # s /\ (ListIds(t) \/ ReadRow(t) \/ WriteFile(t) \/ Prune(t))
  PROVE  Covered(s)'
<1>1. UNCHANGED store
  BY DEF Announce, Take, ReadCounter, WriteCounter, Fail, Catch, Restart, ListIds, ReadRow, WriteFile, Prune
<1>2. files'[s] = files[s]
  BY FlushKept DEF Announce, Take, ReadCounter, WriteCounter, Fail, Catch, Restart, ListIds, ReadRow,
                   WriteFile, Prune
<1>3. CASE t # s
  <2>1. flush'[s] = flush[s]
    BY <1>3, FlushKept DEF Announce, Take, ReadCounter, WriteCounter, Fail, Catch, Restart, ListIds, ReadRow,
                           WriteFile, Prune, Settle
  <2>2. todo'[s] = todo[s]
    BY <1>3, FlushKept DEF Announce, Take, ReadCounter, WriteCounter, Fail, Catch, Restart, ListIds, ReadRow,
                           WriteFile, Prune, Settle
  <2>3. records'[s] = records[s]
    BY <1>3, FlushKept DEF Announce, Take, ReadCounter, WriteCounter, Fail, Catch, Restart, ListIds, ReadRow,
                           WriteFile, Prune, Settle
  <2> QED BY <1>1, <1>2, <2>1, <2>2, <2>3, CoveredKept
<1>4. CASE t = s
  <2>1. CASE Announce(s)
    BY <1>1, <1>2, <2>1, CoveredKept DEF Announce
  <2>2. CASE ~Announce(s)
    <3>1. Take(s) \/ ReadCounter(s) \/ WriteCounter(s) \/ Fail(s) \/ Catch(s) \/ Restart(s)
      BY <1>4, <2>2
    <3>2. flush'[s] \notin {"read", "prune"}
      BY <3>1, FlushKept DEF Take, ReadCounter, WriteCounter, Fail, Catch, Restart, Settle
    <3>3. records'[s] \in {records[s], Nothing}
      BY <3>1, FlushKept DEF Take, ReadCounter, WriteCounter, Fail, Catch, Restart, Settle
    <3> QED BY <1>1, <1>2, <3>2, <3>3, CoveredKept
  <2> QED BY <2>1, <2>2
<1> QED BY <1>3, <1>4

AllCovered == \A s \in Processes : Covered(s)

LEMMA CoveredInitially == BackupInit => AllCovered
BY DEF BackupInit, AllCovered, Covered, Past, Reading, Written, Nothing, Range

LEMMA CoveredInductive ==
  ASSUME BackupTyped, AllCovered, [BackupNext]_backupVars
  PROVE  AllCovered'
<1> SUFFICES ASSUME NEW s \in Processes PROVE Covered(s)'
  BY DEF AllCovered
<1>1. Covered(s)
  BY DEF AllCovered
<1>2. ASSUME NEW t \in Processes, SaveBatch(t) PROVE Covered(s)'
  BY <1>1, <1>2, SaveBatchCovered
<1>3. ASSUME NEW t \in Processes, Proceed(t) \/ Fail(t) \/ Restart(t) PROVE Covered(s)'
  <2>1. CASE Announce(t) \/ Take(t) \/ ReadCounter(t) \/ WriteCounter(t) \/ Fail(t) \/ Catch(t) \/ Restart(t)
    <3>1. \/ Announce(t) \/ Take(t) \/ ReadCounter(t) \/ WriteCounter(t) \/ Fail(t) \/ Catch(t)
          \/ Restart(t)
          \/ t # s /\ (ListIds(t) \/ ReadRow(t) \/ WriteFile(t) \/ Prune(t))
      BY <2>1
    <3> QED BY <1>1, <3>1, OthersCovered
  <2>2. CASE ListIds(t) \/ ReadRow(t) \/ WriteFile(t) \/ Prune(t)
    <3>1. CASE t = s
      <4>1. ListIds(s) \/ ReadRow(s) \/ WriteFile(s) \/ Prune(s)
        BY <2>2, <3>1
      <4> QED BY <1>1, <4>1, ListIdsCovered, ReadRowCovered, WriteFileCovered, PruneCovered
    <3>2. CASE t # s
      <4>1. t # s /\ (ListIds(t) \/ ReadRow(t) \/ WriteFile(t) \/ Prune(t))
        BY <2>2, <3>2
      <4> QED BY <1>1, <4>1, OthersCovered
    <3> QED BY <3>1, <3>2
  <2>3. \/ Announce(t) \/ Take(t) \/ ReadCounter(t) \/ WriteCounter(t) \/ Fail(t) \/ Catch(t) \/ Restart(t)
        \/ ListIds(t) \/ ReadRow(t) \/ WriteFile(t) \/ Prune(t)
    BY <1>3 DEF Proceed
  <2> QED BY <2>1, <2>2, <2>3
<1>4. ASSUME NEW i \in Concepts, DeleteConcept(i) PROVE Covered(s)'
  BY <1>1, <1>4, DeleteCovered
<1>5. CASE UNCHANGED backupVars
  BY <1>1, <1>5 DEF backupVars, store, flushing, Covered, Past, Reading, Written, Covers
<1> QED BY <1>2, <1>3, <1>4, <1>5 DEF BackupNext

LEMMA PruneKeepsCoverage ==
  ASSUME BackupTyped, AllCovered, SameStamp <= Retain, NEW s \in Processes, Prune(s),
         NEW i \in alive, NEW old \in Range(files[s]), old[i] > born[i]
  PROVE  \E new \in Range(files'[s]) : new[i] >= old[i]
<1>1. files[s] \in Seq(Content) /\ files'[s] = Kept(files[s]) /\ flush[s] = "prune"
  BY FlushKept DEF Prune
<1>2. PICK p \in 1 .. Len(files[s]) : p > Len(files[s]) - SameStamp /\ Covers(s, files[s][p])
  BY <1>1 DEF AllCovered, Covered, Written
<1>3. p > Len(files[s]) - Retain
  <2>1. Len(files[s]) \in Nat
    BY <1>1
  <2> QED BY <1>2, <2>1, AutoBackupAssumption
<1>4. files[s][p] \in Range(files'[s])
  BY <1>1, <1>2, <1>3, KeptFiles
<1>5. files[s][p][i] >= old[i]
  BY <1>2 DEF Covers
<1> QED BY <1>4, <1>5

(* pruneBackups goes by name, that is by time stamp and random id, and never*)
(* loses a save, for any number of servers, saves and backups, as long as no*)
(* more backups of a server are stamped alike than are retained.           *)
THEOREM PruningKeepsCoverageCorrect ==
  ASSUME SameStamp <= Retain
  PROVE  BackupSpec => PruningKeepsCoverage
<1>1. BackupTyped /\ AllCovered => \A s \in Processes : Prune(s) =>
        \A i \in alive, old \in Range(files[s]) :
          old[i] > born[i] => \E new \in Range(files'[s]) : new[i] >= old[i]
  BY PruneKeepsCoverage
<1>2. BackupTyped /\ AllCovered /\ [BackupNext]_backupVars => (BackupTyped /\ AllCovered)'
  BY BackupInductive, CoveredInductive
<1>3. BackupInit => BackupTyped /\ AllCovered
  BY BackupInitially, CoveredInitially
<1> QED BY <1>1, <1>2, <1>3, PTL DEF BackupSpec, PruningKeepsCoverage

-----------------------------------------------------------------------------
(* AutoBackup: counting                                                    *)

(* The uncovered saves that the export under way of s does not hold and    *)
(* will not read.                                                          *)
Missed(s) == {x \in Uncovered : x[1] \notin todo[s] /\ x[2] > records[s][x[1]]}

(* With one server, every uncovered save is counted in the database, taken *)
(* by the flush, announced, or owed; while an export runs, every one that  *)
(* it misses is announced or owed.                                         *)
Counted(s) ==
  /\ IsFiniteSet(Uncovered)
  /\ flush[s] \in {"idle", "prune", "failed"} =>
       Cardinality(Uncovered) <= counter + pending[s] + Cardinality(Owed(s))
  /\ flush[s] = "count" =>
       Cardinality(Uncovered) <= counter + seen[s] + pending[s] + Cardinality(Owed(s))
  /\ flush[s] = "write" =>
       Cardinality(Uncovered) <= seen[s] + pending[s] + Cardinality(Owed(s))
  /\ flush[s] = "read" =>
       Cardinality(Missed(s)) <= pending[s] + Cardinality(Owed(s))

LEMMA UncoveredSaves ==
  ASSUME BackupTyped
  PROVE  /\ Uncovered \subseteq Concepts \X Nat
         /\ \A i \in Concepts, n \in Nat : <<i, n>> \in Uncovered <=>
              i \in alive /\ n >= 1 /\ n <= stored[i] /\ n > born[i] /\ n > excused[i] /\ n > backed[i]
BY DEF BackupTyped, BackupTypeOK, Content, Uncovered, Fresh

LEMMA UncoveredSavesNext ==
  ASSUME BackupTyped'
  PROVE  /\ Uncovered' \subseteq Concepts \X Nat
         /\ \A i \in Concepts, n \in Nat : <<i, n>> \in Uncovered' <=>
              i \in alive' /\ n >= 1 /\ n <= stored'[i] /\ n > born'[i] /\ n > excused'[i] /\ n > backed'[i]
BY DEF BackupTyped, BackupTypeOK, Content, Uncovered, Fresh

(* The sizes that Counted compares.                                        *)
LEMMA Sizes ==
  ASSUME BackupTyped, NEW s \in Processes, Counted(s)
  PROVE  /\ IsFiniteSet(Uncovered) /\ Cardinality(Uncovered) \in Nat
         /\ IsFiniteSet(Missed(s)) /\ Cardinality(Missed(s)) \in Nat
         /\ IsFiniteSet(Owed(s)) /\ Cardinality(Owed(s)) \in Nat
         /\ counter \in Nat /\ pending[s] \in Nat /\ seen[s] \in Nat
<1>1. Missed(s) \in SUBSET Uncovered /\ IsFiniteSet(Uncovered) /\ IsFiniteSet(Owed(s))
  BY DEF Missed, Counted, BackupTyped, OwedSaves
<1>2. IsFiniteSet(Missed(s))
  BY <1>1, FS_Subset
<1>3. counter \in Nat /\ pending[s] \in Nat /\ seen[s] \in Nat
  BY FlushKept
<1> QED BY <1>1, <1>2, <1>3, FS_CardinalityType

(* A step after which no more is uncovered or missed, and all else that    *)
(* Counted compares is as it was.                                          *)
LEMMA CountedKept ==
  ASSUME BackupTyped, NEW s \in Processes, Counted(s), Uncovered' \subseteq Uncovered,
         UNCHANGED <<counter, pending, seen, unannounced>>,
         \/ flush'[s] = flush[s] /\ Missed(s)' \subseteq Missed(s)
         \/ flush[s] \in {"idle", "prune", "failed"} /\ flush'[s] \in {"idle", "failed"}
  PROVE  Counted(s)'
<1>1. /\ IsFiniteSet(Uncovered) /\ Cardinality(Uncovered) \in Nat
      /\ IsFiniteSet(Missed(s)) /\ Cardinality(Missed(s)) \in Nat
      /\ Cardinality(Owed(s)) \in Nat /\ counter \in Nat /\ pending[s] \in Nat /\ seen[s] \in Nat
  BY Sizes
<1>2. IsFiniteSet(Uncovered') /\ Cardinality(Uncovered') <= Cardinality(Uncovered) /\ Cardinality(Uncovered') \in Nat
  <2>1. Uncovered' \in SUBSET Uncovered
    OBVIOUS
  <2> QED BY <1>1, <2>1, FS_Subset, FS_CardinalityType
<1>3. Owed(s)' = Owed(s)
  BY DEF Owed
<1>4. CASE flush'[s] = flush[s] /\ Missed(s)' \subseteq Missed(s)
  <2>1. Missed(s)' \in SUBSET Missed(s)
    BY <1>4
  <2>2. Cardinality(Missed(s)') <= Cardinality(Missed(s)) /\ Cardinality(Missed(s)') \in Nat
    BY <1>1, <2>1, FS_Subset, FS_CardinalityType
  <2> QED BY <1>1, <1>2, <1>3, <1>4, <2>2 DEF Counted
<1>5. CASE flush[s] \in {"idle", "prune", "failed"} /\ flush'[s] \in {"idle", "failed"}
  <2>1. Cardinality(Uncovered) <= counter + pending[s] + Cardinality(Owed(s))
    BY <1>5 DEF Counted
  <2>2. Cardinality(Uncovered') <= counter' + pending'[s] + Cardinality(Owed(s)')
    BY <1>1, <1>2, <1>3, <2>1
  <2>3. flush'[s] \notin {"count", "write", "read"}
    BY <1>5
  <2> QED BY <1>2, <2>2, <2>3 DEF Counted
<1> QED BY <1>4, <1>5

(* After a failure nothing is uncovered.                                   *)
LEMMA CountedExcused ==
  ASSUME BackupTyped', NEW s \in Processes, excused' = stored', flush'[s] \in {"idle", "failed"}
  PROVE  Counted(s)'
<1>1. Uncovered' = {}
  <2>1. ASSUME NEW i \in Concepts, NEW n \in Nat PROVE <<i, n>> \notin Uncovered'
    <3>1. stored'[i] \in Nat
      BY DEF BackupTyped, BackupTypeOK, Content
    <3> QED BY <3>1, UncoveredSavesNext
  <2> QED BY <2>1, UncoveredSavesNext
<1>2. IsFiniteSet(Uncovered') /\ Cardinality(Uncovered') = 0
  BY <1>1, FS_EmptySet
<1>3. counter' \in Nat /\ pending'[s] \in Nat /\ Cardinality(Owed(s)') \in Nat
  <2>1. IsFiniteSet(Owed(s)')
    BY DEF BackupTyped, OwedSaves
  <2> QED BY <2>1, FS_CardinalityType DEF BackupTyped, BackupTypeOK
<1> QED BY <1>2, <1>3 DEF Counted

LEMMA SaveBatchCounted ==
  ASSUME BackupTyped, BackupTyped', NEW s \in Processes, Counted(s), SaveBatch(s)
  PROVE  Counted(s)'
<1>1. PICK batch \in (SUBSET Concepts) \ {{}} :
        /\ IsFiniteSet(batch)
        /\ stored' = [i \in Concepts |-> IF i \in batch THEN stored[i] + 1 ELSE stored[i]]
        /\ born' = [i \in Concepts |-> IF i \in batch \ alive THEN stored[i] ELSE born[i]]
        /\ alive' = alive \cup batch
        /\ unannounced' = [unannounced EXCEPT ![s] = unannounced[s] \cup {SavesOf(batch)}]
  BY DEF SaveBatch
<1> DEFINE new == SavesOf(batch)
<1>2. UNCHANGED <<counter, flushing, excused, backed>>
  BY DEF SaveBatch
<1>3. /\ IsFiniteSet(new) /\ Owed(s) \cap new = {}
      /\ \A i \in Concepts, n \in Nat : <<i, n>> \in new <=> i \in batch /\ n = stored[i] + 1
  BY <1>1, SavesOfBatch
<1> HIDE DEF new
<1>4. Uncovered' \subseteq Uncovered \cup new
  <2> SUFFICES ASSUME NEW i \in Concepts, NEW n \in Nat, <<i, n>> \in Uncovered'
               PROVE  <<i, n>> \in Uncovered \cup new
    BY UncoveredSavesNext
  <2>1. /\ i \in alive' /\ n >= 1 /\ n <= stored'[i] /\ n > born'[i] /\ n > excused[i] /\ n > backed[i]
        /\ stored[i] \in Nat /\ born[i] \in Nat
    BY <1>2, UncoveredSavesNext, FilesContent
  <2>2. CASE i \notin batch
    BY <1>1, <2>1, <2>2, UncoveredSaves
  <2>3. CASE i \in batch
    <3>1. stored'[i] = stored[i] + 1 /\ (born'[i] = IF i \in alive THEN born[i] ELSE stored[i])
      BY <1>1, <2>3
    <3>2. CASE n <= stored[i]
      <4>1. i \in alive
        BY <2>1, <3>1, <3>2
      <4> QED BY <2>1, <3>1, <3>2, <4>1, UncoveredSaves
    <3>3. CASE ~(n <= stored[i])
      <4>1. n = stored[i] + 1
        BY <2>1, <3>1, <3>3
      <4> QED BY <1>3, <2>3, <4>1
    <3> QED BY <3>2, <3>3
  <2> QED BY <2>2, <2>3
<1>5. Missed(s)' \subseteq Missed(s) \cup new
  BY <1>2, <1>4 DEF Missed, flushing
<1>6. /\ IsFiniteSet(Uncovered) /\ Cardinality(Uncovered) \in Nat
      /\ IsFiniteSet(Missed(s)) /\ Cardinality(Missed(s)) \in Nat
      /\ IsFiniteSet(Owed(s)) /\ Cardinality(Owed(s)) \in Nat
      /\ counter \in Nat /\ pending[s] \in Nat /\ seen[s] \in Nat
  BY Sizes
<1>7. ASSUME NEW old, IsFiniteSet(old), NEW both, both \subseteq old \cup new
      PROVE  /\ IsFiniteSet(both) /\ Cardinality(both) \in Nat
             /\ Cardinality(both) <= Cardinality(old) + Cardinality(new)
  <2>1. /\ IsFiniteSet(old \cup new)
        /\ Cardinality(old \cup new) = Cardinality(old) + Cardinality(new) - Cardinality(old \cap new)
    BY <1>3, <1>7, FS_Union
  <2>2. old \cap new \in SUBSET old /\ both \in SUBSET (old \cup new)
    BY <1>7
  <2>3. Cardinality(old \cap new) \in Nat /\ Cardinality(old) \in Nat /\ Cardinality(new) \in Nat
    BY <1>3, <1>7, <2>2, FS_Subset, FS_CardinalityType
  <2>4. IsFiniteSet(both) /\ Cardinality(both) <= Cardinality(old \cup new) /\ Cardinality(both) \in Nat
    BY <2>1, <2>2, FS_Subset, FS_CardinalityType
  <2> QED BY <2>1, <2>3, <2>4
<1>8. Owed(s)' = Owed(s) \cup new
  BY <1>1 DEF Owed, new, BackupTyped, BackupTypeOK
<1>9. Cardinality(Owed(s)') = Cardinality(Owed(s)) + Cardinality(new) /\ Cardinality(new) \in Nat
  <2>1. Cardinality(Owed(s) \cup new) = Cardinality(Owed(s)) + Cardinality(new) - Cardinality(Owed(s) \cap new)
    BY <1>3, <1>6, FS_Union
  <2>2. Cardinality(Owed(s) \cap new) = 0 /\ Cardinality(new) \in Nat
    BY <1>3, FS_EmptySet, FS_CardinalityType
  <2> QED BY <1>6, <1>8, <2>1, <2>2
<1>10. /\ IsFiniteSet(Uncovered') /\ Cardinality(Uncovered') \in Nat
       /\ Cardinality(Uncovered') <= Cardinality(Uncovered) + Cardinality(new)
  BY <1>4, <1>6, <1>7
<1>11. /\ Cardinality(Missed(s)') \in Nat
       /\ Cardinality(Missed(s)') <= Cardinality(Missed(s)) + Cardinality(new)
  BY <1>5, <1>6, <1>7
<1> QED BY <1>2, <1>6, <1>9, <1>10, <1>11 DEF Counted, flushing

LEMMA AnnounceCounted ==
  ASSUME BackupTyped, BackupTyped', NEW s \in Processes, Counted(s), Announce(s)
  PROVE  Counted(s)'
<1>1. PICK batch \in unannounced[s] :
        /\ pending' = [pending EXCEPT ![s] = pending[s] + Cardinality(batch)]
        /\ unannounced' = [unannounced EXCEPT ![s] = unannounced[s] \ {batch}]
  BY DEF Announce
<1>2. UNCHANGED <<store, counter, flush, seen, todo, records, excused, backed>>
  BY DEF Announce
<1>3. IsFiniteSet(batch) /\ Cardinality(batch) \in Nat
  BY OwedBatch
<1>4. pending'[s] = pending[s] + Cardinality(batch)
  BY <1>1, FlushKept
<1>5. Uncovered' = Uncovered
  BY <1>2 DEF Uncovered, Fresh, store
<1>6. Missed(s)' = Missed(s)
  BY <1>2, <1>5 DEF Missed
<1>7. IsFiniteSet(Owed(s)') /\ Owed(s) \subseteq Owed(s)' \cup batch
  <2>1. unannounced'[s] = unannounced[s] \ {batch}
    BY <1>1 DEF BackupTyped, BackupTypeOK
  <2>2. Owed(s) \subseteq Owed(s)' \cup batch
    BY <2>1 DEF Owed
  <2>3. IsFiniteSet(Owed(s)')
    BY DEF BackupTyped, OwedSaves
  <2> QED BY <2>2, <2>3
<1>8. /\ Cardinality(Owed(s)') \in Nat
      /\ Cardinality(Owed(s)) <= Cardinality(Owed(s)') + Cardinality(batch)
  <2> DEFINE left == Owed(s)'
             owed == Owed(s)
  <2>1. IsFiniteSet(left) /\ owed \in SUBSET (left \cup batch)
    BY <1>7
  <2> HIDE DEF left, owed
  <2>2. /\ IsFiniteSet(left \cup batch)
        /\ Cardinality(left \cup batch) = Cardinality(left) + Cardinality(batch) - Cardinality(left \cap batch)
    BY <1>3, <2>1, FS_Union
  <2>3. left \cap batch \in SUBSET batch
    OBVIOUS
  <2>4. Cardinality(left \cap batch) \in Nat /\ Cardinality(left) \in Nat
    BY <1>3, <2>1, <2>3, FS_Subset, FS_CardinalityType
  <2>5. Cardinality(owed) <= Cardinality(left \cup batch) /\ Cardinality(owed) \in Nat
    BY <2>1, <2>2, FS_Subset, FS_CardinalityType
  <2>6. Cardinality(owed) <= Cardinality(left) + Cardinality(batch)
    BY <1>3, <2>2, <2>4, <2>5
  <2> QED BY <2>4, <2>6 DEF left, owed
<1>9. /\ Cardinality(Uncovered) \in Nat /\ Cardinality(Missed(s)) \in Nat /\ Cardinality(Owed(s)) \in Nat
      /\ counter \in Nat /\ pending[s] \in Nat /\ seen[s] \in Nat
  BY Sizes
<1> QED BY <1>2, <1>3, <1>4, <1>5, <1>6, <1>8, <1>9 DEF Counted

LEMMA DeleteCounted ==
  ASSUME BackupTyped, BackupTyped', NEW s \in Processes, Counted(s), NEW i \in Concepts, DeleteConcept(i)
  PROVE  Counted(s)'
<1>1. alive' \subseteq alive /\ UNCHANGED <<stored, born, counter, unannounced, flushing, excused, backed>>
  BY DEF DeleteConcept
<1>2. Uncovered' \subseteq Uncovered
  BY <1>1 DEF Uncovered, Fresh
<1>3. Missed(s)' \subseteq Missed(s)
  BY <1>1, <1>2 DEF Missed, flushing
<1> QED BY <1>1, <1>2, <1>3, CountedKept DEF flushing

(* A step of the flush that leaves the store and the backups alone.        *)
LEMMA FlushCounted ==
  ASSUME BackupTyped, BackupTyped', NEW s \in Processes, Counted(s),
         Take(s) \/ ReadCounter(s) \/ WriteCounter(s) \/ ListIds(s) \/ Prune(s) \/ Catch(s)
  PROVE  Counted(s)'
<1>1. UNCHANGED <<store, unannounced, excused, backed>>
  BY DEF Take, ReadCounter, WriteCounter, ListIds, Prune, Catch
<1>2. Uncovered' = Uncovered /\ Owed(s)' = Owed(s)
  BY <1>1 DEF Uncovered, Fresh, Owed, store
<1>3. /\ IsFiniteSet(Uncovered) /\ Cardinality(Uncovered) \in Nat /\ Cardinality(Owed(s)) \in Nat
      /\ counter \in Nat /\ pending[s] \in Nat /\ seen[s] \in Nat
  BY Sizes
<1>4. CASE Take(s)
  <2>1. pending'[s] = 0 /\ counter' = counter /\ flush[s] = "idle"
    BY <1>4, FlushKept DEF Take
  <2>2. \/ pending[s] = 0 /\ flush'[s] = "idle"
        \/ flush'[s] = "count" /\ seen'[s] = pending[s]
    BY <1>4, FlushKept DEF Take, Settle
  <2> QED BY <1>2, <1>3, <2>1, <2>2 DEF Counted
<1>5. CASE ReadCounter(s)
  <2>1. /\ flush[s] = "count" /\ flush'[s] = "write" /\ seen'[s] = counter + seen[s]
        /\ pending' = pending
    BY <1>5, FlushKept DEF ReadCounter
  <2> QED BY <1>2, <1>3, <2>1 DEF Counted
<1>6. CASE WriteCounter(s)
  <2>1. /\ flush[s] = "write" /\ pending' = pending
        /\ \/ flush'[s] = "idle" /\ counter' = seen[s]
           \/ flush'[s] = "list"
    BY <1>6, FlushKept DEF WriteCounter, Settle
  <2> QED BY <1>2, <1>3, <2>1 DEF Counted
<1>7. CASE ListIds(s)
  <2>1. todo'[s] = alive /\ flush'[s] = "read" /\ pending' = pending
    BY <1>7, FlushKept DEF ListIds, BackupTyped, BackupTypeOK
  <2>2. Missed(s)' = {}
    <3>1. \A x \in Uncovered : x[1] \in alive
      BY UncoveredSaves
    <3> QED BY <1>2, <2>1, <3>1 DEF Missed
  <2>3. Cardinality(Missed(s)') = 0
    BY <2>2, FS_EmptySet
  <2> QED BY <1>2, <1>3, <2>1, <2>3 DEF Counted
<1>8. CASE Prune(s) \/ Catch(s)
  <2>1. flush[s] \in {"prune", "failed"} /\ flush'[s] = "idle" /\ counter' = counter /\ pending' = pending
    BY <1>8, FlushKept DEF Prune, Catch, Settle
  <2> QED BY <1>2, <1>3, <2>1 DEF Counted
<1> QED BY <1>4, <1>5, <1>6, <1>7, <1>8

(* A row that is read holds the last save of a concept that exists.        *)
LEMMA ReadRowCounted ==
  ASSUME BackupTyped, BackupTyped', NEW s \in Processes, Counted(s), ReadRow(s)
  PROVE  Counted(s)'
<1>1. PICK i \in todo[s] :
        /\ todo' = [todo EXCEPT ![s] = todo[s] \ {i}]
        /\ records' = [records EXCEPT ![s][i] = IF i \in alive THEN stored[i] ELSE 0]
  BY DEF ReadRow
<1>2. UNCHANGED <<store, counter, unannounced, pending, flush, seen, excused, backed>>
  BY DEF ReadRow
<1>3. Uncovered' = Uncovered
  BY <1>2 DEF Uncovered, Fresh, store
<1>4. i \in Concepts /\ todo'[s] = todo[s] \ {i}
  BY <1>1, FlushKept
<1>5. /\ records'[s][i] = IF i \in alive THEN stored[i] ELSE 0
      /\ \A j \in Concepts \ {i} : records'[s][j] = records[s][j]
  BY <1>1, <1>4, FlushKept DEF Content
<1>6. ASSUME NEW j \in Concepts, NEW n \in Nat, <<j, n>> \in Uncovered, j \notin todo'[s], n > records'[s][j]
      PROVE  j \notin todo[s] /\ n > records[s][j]
  <2>1. j \in alive /\ n <= stored[j] /\ stored[j] \in Nat
    BY <1>6, UncoveredSaves, FilesContent
  <2>2. j # i
    BY <1>5, <1>6, <2>1
  <2> QED BY <1>4, <1>5, <1>6, <2>2
<1>7. Missed(s)' \subseteq Missed(s)
  <2>1. Uncovered \subseteq Concepts \X Nat
    BY UncoveredSaves
  <2>2. \A x \in Concepts \X Nat : x[1] \in Concepts /\ x[2] \in Nat /\ x = <<x[1], x[2]>>
    OBVIOUS
  <2> SUFFICES ASSUME NEW x \in Missed(s)' PROVE x \in Missed(s)
    OBVIOUS
  <2>3. x \in Uncovered /\ x[1] \notin todo'[s] /\ x[2] > records'[s][x[1]]
    BY <1>3 DEF Missed
  <2>4. x[1] \in Concepts /\ x[2] \in Nat /\ <<x[1], x[2]>> \in Uncovered
    BY <2>1, <2>2, <2>3
  <2>5. x[1] \notin todo[s] /\ x[2] > records[s][x[1]]
    BY <1>6, <2>3, <2>4
  <2> QED BY <2>3, <2>5 DEF Missed
<1>8. flush'[s] = flush[s]
  BY <1>2
<1> QED BY <1>2, <1>3, <1>7, <1>8, CountedKept

(* The file that is written covers all but what the export missed.         *)
LEMMA WriteFileCounted ==
  ASSUME BackupTyped, BackupTyped', NEW s \in Processes, Counted(s), WriteFile(s)
  PROVE  Counted(s)'
<1>1. /\ UNCHANGED <<store, counter, unannounced, pending, excused>>
      /\ flush[s] = "read" /\ todo[s] = {} /\ flush'[s] = "prune"
  BY FlushKept DEF WriteFile
<1>2. \A i \in Concepts : backed'[i] = IF backed[i] >= records[s][i] THEN backed[i] ELSE records[s][i]
  BY WriteFileTyped
<1>3. Uncovered' \subseteq Missed(s)
  <2> SUFFICES ASSUME NEW i \in Concepts, NEW n \in Nat, <<i, n>> \in Uncovered'
               PROVE  <<i, n>> \in Missed(s)
    BY UncoveredSavesNext
  <2>1. /\ i \in alive /\ n >= 1 /\ n <= stored[i] /\ n > born[i] /\ n > excused[i] /\ n > backed'[i]
        /\ backed[i] \in Nat /\ records[s][i] \in Nat
    BY <1>1, UncoveredSavesNext, FilesContent DEF store
  <2>2. n > backed[i] /\ n > records[s][i]
    BY <1>2, <2>1
  <2>3. <<i, n>> \in Uncovered
    BY <2>1, <2>2, UncoveredSaves
  <2> QED BY <1>1, <2>2, <2>3 DEF Missed
<1>4. /\ IsFiniteSet(Missed(s)) /\ Cardinality(Missed(s)) \in Nat /\ Cardinality(Owed(s)) \in Nat
      /\ counter \in Nat /\ pending[s] \in Nat
  BY Sizes
<1>5. IsFiniteSet(Uncovered') /\ Cardinality(Uncovered') <= Cardinality(Missed(s)) /\ Cardinality(Uncovered') \in Nat
  <2>1. Uncovered' \in SUBSET Missed(s)
    BY <1>3
  <2> QED BY <1>4, <2>1, FS_Subset, FS_CardinalityType
<1>6. Owed(s)' = Owed(s)
  BY <1>1 DEF Owed
<1>7. Cardinality(Missed(s)) <= pending[s] + Cardinality(Owed(s))
  BY <1>1 DEF Counted
<1> QED BY <1>1, <1>4, <1>5, <1>6, <1>7 DEF Counted

LEMMA CountedInitially ==
  ASSUME BackupInit, NEW s \in Processes
  PROVE  Counted(s)
<1>1. Uncovered = {} /\ Owed(s) = {} /\ flush[s] = "idle" /\ counter = 0 /\ pending[s] = 0
  BY DEF BackupInit, Uncovered, Owed
<1> QED BY <1>1, FS_EmptySet DEF Counted

LEMMA CountedInductive ==
  ASSUME BackupTyped, BackupTyped', NEW s, Processes = {s}, Counted(s), [BackupNext]_backupVars
  PROVE  Counted(s)'
<1>1. s \in Processes /\ \A t \in Processes : t = s
  OBVIOUS
<1>2. CASE SaveBatch(s)
  BY <1>1, <1>2, SaveBatchCounted
<1>3. CASE Announce(s)
  BY <1>1, <1>3, AnnounceCounted
<1>4. CASE Take(s) \/ ReadCounter(s) \/ WriteCounter(s) \/ ListIds(s) \/ Prune(s) \/ Catch(s)
  BY <1>1, <1>4, FlushCounted
<1>5. CASE ReadRow(s)
  BY <1>1, <1>5, ReadRowCounted
<1>6. CASE WriteFile(s)
  BY <1>1, <1>6, WriteFileCounted
<1>7. CASE Fail(s) \/ Restart(s)
  <2>1. excused' = stored' /\ flush'[s] \in {"idle", "failed"}
    BY <1>1, <1>7, FlushKept DEF Fail, Restart, store
  <2> QED BY <1>1, <2>1, CountedExcused
<1>8. ASSUME NEW i \in Concepts, DeleteConcept(i) PROVE Counted(s)'
  BY <1>1, <1>8, DeleteCounted
<1>9. CASE UNCHANGED backupVars
  BY <1>9 DEF backupVars, store, flushing, Counted, Missed, Uncovered, Fresh, Owed
<1>10. \/ SaveBatch(s) \/ Proceed(s) \/ Fail(s) \/ Restart(s)
       \/ \E i \in Concepts : DeleteConcept(i)
       \/ UNCHANGED backupVars
  BY <1>1 DEF BackupNext
<1> QED BY <1>2, <1>3, <1>4, <1>5, <1>6, <1>7, <1>8, <1>9, <1>10 DEF Proceed

LEMMA CountedEnough ==
  ASSUME BackupTyped, NEW s \in Processes, Counted(s)
  PROVE  BackupEveryN
<1> SUFFICES ASSUME Quiet(s) PROVE Cardinality(Uncovered) < Threshold
  BY DEF BackupEveryN
<1>1. pending[s] = 0 /\ flush[s] = "idle"
  BY FlushKept DEF Quiet
<1>2. Cardinality(Owed(s)) = 0
  <2>1. Owed(s) = {}
    BY DEF Owed, Quiet
  <2> QED BY <2>1, FS_EmptySet
<1>3. Cardinality(Uncovered) <= counter + pending[s] + Cardinality(Owed(s)) /\ Cardinality(Uncovered) \in Nat
  BY <1>1, Sizes DEF Counted
<1>4. counter \in 0 .. Threshold - 1
  BY FlushKept
<1> QED BY <1>1, <1>2, <1>3, <1>4, AutoBackupAssumption

(* A server that has the database to itself never leaves Threshold saves   *)
(* without a backup once its flushes have settled, however saves and       *)
(* deletions fall between the reads of an export: none of the saves since  *)
(* the last failure is uncounted.                                          *)
THEOREM BackupEveryNCorrect ==
  ASSUME NEW server, Processes = {server}
  PROVE  BackupSpec => []BackupEveryN
<1>1. BackupTyped /\ Counted(server) => BackupEveryN
  BY CountedEnough
<1>2. BackupTyped /\ Counted(server) /\ [BackupNext]_backupVars => (BackupTyped /\ Counted(server))'
  <2> SUFFICES ASSUME BackupTyped, Counted(server), [BackupNext]_backupVars
               PROVE  BackupTyped' /\ Counted(server)'
    OBVIOUS
  <2>1. BackupTyped'
    BY BackupInductive
  <2> QED BY <2>1, CountedInductive
<1>3. BackupInit => BackupTyped /\ Counted(server)
  <2>1. server \in Processes
    OBVIOUS
  <2> QED BY <2>1, BackupInitially, CountedInitially
<1> QED BY <1>1, <1>2, <1>3, PTL DEF BackupSpec

=============================================================================
