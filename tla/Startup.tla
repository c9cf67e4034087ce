------------------------------ MODULE Startup -------------------------------
(***************************************************************************)
(* Servers that start on one store, which a 2.x release may have written:  *)
(* three migrations, each done once, then the HTTP token file, then        *)
(* requests.  Several servers may start at once on Postgres, where each    *)
(* migration is a READ COMMITTED transaction under one advisory lock; a    *)
(* SQLite file belongs to one process.                                     *)
(*                                                                         *)
(* Abstracted: a concept is its vector, the model it is labelled with, the *)
(* shape of its tags, and whether the vector index has it.  Tables and     *)
(* columns that exist are not created again, which changes nothing.        *)
(***************************************************************************)
EXTENDS Integers

CONSTANTS
  Servers, Ids, Models,
  ModelOf,      \* POLYTICIAN_EMBEDDING_MODEL of each server
  Backends,     \* the stores to consider, of {"sqlite", "postgres"}
  MaxSaves,     \* bound on saves and deletions by servers that serve
  MaxCrashes,   \* bound on crashes and failed statements
  None

Migrations == {"schema", "labels", "tags"}

(* In the vector index: a vector that the concept has no longer.           *)
Outdated == -1

(* `save` is the 3.0 save that wrote it, 0 for a concept of 2.x; `index`   *)
(* the save whose vector the vector index holds.  Tags are an array of     *)
(* texts, an array with something else in it ("mixed"), or no array.       *)
Row == [vec : {"none", "broken", "usable"}, model : Models \cup {None},
        tags : {"array", "mixed", "legacy", "repaired"},
        index : {None, Outdated} \cup 0..MaxSaves, save : 0..MaxSaves]

(* What a migration finds when it looks: whether it was done, and the rows. *)
Look == [done : BOOLEAN, rows : [Ids -> Row \cup {None}]]

ASSUME StartupAssumption ==
  /\ ModelOf \in [Servers -> Models] /\ None \notin Models \cup Row \cup {"empty"}
  /\ Servers \cap {None, "empty"} = {} /\ None \notin {Outdated} \cup 0..MaxSaves
  /\ None \notin Look
  /\ Backends \subseteq {"sqlite", "postgres"}
  /\ MaxSaves \in Nat /\ MaxCrashes \in Nat

VARIABLES
  backend,   \* the store they share
  rows,      \* the concepts
  done,      \* the migrations recorded in the metadata
  lock,      \* the server that holds the advisory lock
  pc,        \* how far each server has started
  read,      \* what its migration has read: None, or the rows to change
  file,      \* the token file: None, "empty", or the server that made its token
  token,     \* the token each server accepts
  saves, crashes      \* what the bounds count

vars == <<backend, rows, done, lock, pc, read, file, token, saves, crashes>>

(* What 2.x may leave: a vector that no search can use, or whose write to  *)
(* the index, which was not atomic with the row's, was lost, the first one *)
(* or a later one; and tags of any shape.                                  *)
Legacy ==
  {r \in Row : /\ r.save = 0 /\ r.model = None /\ r.tags # "repaired"
               /\ r.index \in {None, Outdated} \/ (r.index = 0 /\ r.vec # "none")}

Init ==
  /\ backend \in Backends
  /\ rows \in [Ids -> Legacy \cup {None}]
  /\ done = {} /\ lock = None
  /\ pc = [s \in Servers |-> "down"]
  /\ read = [s \in Servers |-> None]
  /\ file = None
  /\ token = [s \in Servers |-> None]
  /\ saves = 0 /\ crashes = 0

After(step) ==
  CASE step = "schema" -> "labels" [] step = "labels" -> "tags" [] step = "tags" -> "token"

(* Mistake: what the last run read is still there.                         *)
ExitKeepsToken(s) ==
  /\ pc' = [pc EXCEPT ![s] = "down"]
  /\ lock' = IF lock = s THEN None ELSE lock
  /\ UNCHANGED <<read, token>>

Exit(s) ==
  /\ pc' = [pc EXCEPT ![s] = "down"]
  /\ read' = [read EXCEPT ![s] = None]
  /\ token' = [token EXCEPT ![s] = None]
  /\ lock' = IF lock = s THEN None ELSE lock

-----------------------------------------------------------------------------
(* initializeDatabaseAsync                                                 *)

Boot(s) ==
  /\ pc[s] = "down"
  /\ backend = "sqlite" => \A o \in Servers : pc[o] = "down"
  /\ pc' = [pc EXCEPT ![s] = "schema"]
  /\ UNCHANGED <<backend, rows, done, lock, read, file, token, saves, crashes>>

(* migrateToV3: vectors no search can use are cleared, and those that the  *)
(* index has no entry for are indexed; what an entry holds is not looked   *)
(* at.                                                                     *)
ToV3(stored) ==
  [i \in Ids |->
     IF rows[i] = None \/ stored[i] = None \/ stored[i].vec = "none" THEN rows[i]
     ELSE IF stored[i].vec = "broken"
          THEN [rows[i] EXCEPT !.vec = "none", !.model = None, !.index = None]
     ELSE IF stored[i].index = None THEN [rows[i] EXCEPT !.index = stored[i].save]
     ELSE rows[i]]

(* migrateVectorIndex: the index is built anew from the stored vectors.    *)
Rebuilt ==
  [i \in Ids |->
     IF rows[i] = None THEN None
     ELSE IF rows[i].vec = "usable" THEN [rows[i] EXCEPT !.index = rows[i].save]
     ELSE [rows[i] EXCEPT !.vec = "none", !.model = None, !.index = None]]

(* labelLegacyVectors, one statement.                                      *)
Labelled(s) ==
  [i \in Ids |->
     IF rows[i] # None /\ rows[i].vec # "none" /\ rows[i].model = None
     THEN [rows[i] EXCEPT !.model = ModelOf[s]] ELSE rows[i]]

(* The tags that normalizeLegacyTags selects: on Postgres only those that  *)
(* do not start with a bracket.                                            *)
NotNormal == IF backend = "sqlite" THEN {"legacy", "mixed"} ELSE {"legacy"}

(* The rows it selected are written by id.                                 *)
Normalized(stored) ==
  [i \in Ids |->
     IF rows[i] # None /\ stored[i] # None /\ stored[i].tags \in NotNormal
     THEN [rows[i] EXCEPT !.tags = "repaired"] ELSE rows[i]]

Migrated(s, stored) ==
  CASE pc[s] = "schema" -> (IF backend = "sqlite" THEN Rebuilt ELSE ToV3(stored))
    [] pc[s] = "labels" -> Labelled(s)
    [] pc[s] = "tags" -> Normalized(stored)

Lock(s) ==
  /\ backend = "postgres" /\ pc[s] \in Migrations /\ lock = None
  /\ lock' = s
  /\ UNCHANGED <<backend, rows, done, pc, read, file, token, saves, crashes>>

(* Mistake: whether there is work is looked up before the lock is held.    *)
ReadBeforeLock(s) ==
  /\ backend = "postgres" /\ pc[s] \in Migrations /\ read[s] = None
  /\ read' = [read EXCEPT ![s] = [done |-> pc[s] \in done, rows |-> rows]]
  /\ UNCHANGED <<backend, rows, done, lock, pc, file, token, saves, crashes>>

(* Mistake: the migration is recorded before it is done, on its own.       *)
ReadAndRecord(s) ==
  /\ backend = "postgres" /\ pc[s] \in Migrations /\ read[s] = None
  /\ lock = s
  /\ read' = [read EXCEPT ![s] = [done |-> pc[s] \in done, rows |-> rows]]
  /\ done' = done \cup {pc[s]}
  /\ UNCHANGED <<backend, rows, lock, pc, file, token, saves, crashes>>

(* The migration looks whether it was done, and what it has to change.     *)
Read(s) ==
  /\ backend = "postgres" /\ pc[s] \in Migrations /\ read[s] = None
  /\ lock = s
  /\ read' = [read EXCEPT ![s] = [done |-> pc[s] \in done, rows |-> rows]]
  /\ UNCHANGED <<backend, rows, done, lock, pc, file, token, saves, crashes>>

Commit(s) ==
  /\ lock = s /\ read[s] # None
  /\ rows' = IF read[s].done THEN rows ELSE Migrated(s, read[s].rows)
  /\ done' = done \cup {pc[s]}
  /\ pc' = [pc EXCEPT ![s] = After(pc[s])]
  /\ read' = [read EXCEPT ![s] = None]
  /\ lock' = None
  /\ UNCHANGED <<backend, file, token, saves, crashes>>

(* The same on SQLite, a synchronous transaction.                          *)
SqliteMigrate(s) ==
  /\ backend = "sqlite" /\ pc[s] \in Migrations
  /\ rows' = IF pc[s] \in done THEN rows ELSE Migrated(s, rows)
  /\ done' = done \cup {pc[s]}
  /\ pc' = [pc EXCEPT ![s] = After(pc[s])]
  /\ UNCHANGED <<backend, lock, read, file, token, saves, crashes>>

-----------------------------------------------------------------------------
(* loadOrCreateHttpToken, by servers that share a home directory.          *)

(* Mistake: every start makes a token.                                     *)
FindTokenNever(s) ==
  /\ pc[s] = "token"
  /\ pc' = [pc EXCEPT ![s] = "create"]
  /\ UNCHANGED <<backend, rows, done, lock, read, file, token, saves, crashes>>

FindToken(s) ==
  /\ pc[s] = "token"
  /\ IF file = "empty" THEN Exit(s)
     ELSE /\ pc' = [pc EXCEPT ![s] = IF file = None THEN "create" ELSE "serve"]
          /\ token' = [token EXCEPT ![s] = file]
          /\ UNCHANGED <<read, lock>>
  /\ UNCHANGED <<backend, rows, done, file, saves, crashes>>

(* Mistake: the file is opened with flag 'w'.                              *)
CreateOver(s) ==
  /\ pc[s] = "create"
  /\ file' = "empty" /\ pc' = [pc EXCEPT ![s] = "write"]
  /\ UNCHANGED <<backend, rows, done, lock, read, token, saves, crashes>>

(* Flag 'wx': a file another server created since is an error.             *)
CreateToken(s) ==
  /\ pc[s] = "create"
  /\ IF file # None THEN Exit(s) /\ UNCHANGED file
     ELSE /\ file' = "empty" /\ pc' = [pc EXCEPT ![s] = "write"]
          /\ UNCHANGED <<read, lock, token>>
  /\ UNCHANGED <<backend, rows, done, saves, crashes>>

WriteToken(s) ==
  /\ pc[s] = "write"
  /\ file' = s /\ token' = [token EXCEPT ![s] = s]
  /\ pc' = [pc EXCEPT ![s] = "serve"]
  /\ UNCHANGED <<backend, rows, done, lock, read, saves, crashes>>

-----------------------------------------------------------------------------
(* Requests (and, before the server listens, the initial pull of           *)
(* AgentVault concepts), and the end of a server.                          *)

Put(s, i, row) ==
  /\ pc[s] \in {"token", "create", "write", "serve"} /\ saves < MaxSaves
  /\ rows' = [rows EXCEPT ![i] = row]
  /\ saves' = saves + 1
  /\ UNCHANGED <<backend, done, lock, pc, read, file, token, crashes>>

(* A save writes the row and its vector in one transaction.                *)
Save(s, i) ==
  \E v \in {"none", "usable"} :
    Put(s, i, [vec |-> v, model |-> IF v = "usable" THEN ModelOf[s] ELSE None,
               tags |-> "array", index |-> IF v = "usable" THEN saves + 1 ELSE None,
               save |-> saves + 1])

Delete(s, i) == rows[i] # None /\ Put(s, i, None)

(* shutdown: requests end before the store is closed.                      *)
Stop(s) ==
  /\ pc[s] = "serve"
  /\ Exit(s)
  /\ UNCHANGED <<backend, rows, done, file, saves, crashes>>

(* The process dies, or a statement fails, which ends it: the transaction  *)
(* is rolled back and its lock released.                                   *)
Crash(s) ==
  /\ pc[s] # "down" /\ crashes < MaxCrashes
  /\ Exit(s)
  /\ crashes' = crashes + 1
  /\ UNCHANGED <<backend, rows, done, file, saves>>

-----------------------------------------------------------------------------
Advance(s) ==
  \/ Lock(s) \/ Read(s) \/ Commit(s) \/ SqliteMigrate(s)
  \/ FindToken(s) \/ CreateToken(s) \/ WriteToken(s)

Next ==
  \E s \in Servers :
    \/ Advance(s) \/ Boot(s) \/ Stop(s) \/ Crash(s)
    \/ \E i \in Ids : Save(s, i) \/ Delete(s, i)

(* A process that starts runs on, a supervisor starts one that ended, and  *)
(* Postgres grants its lock in the order it was asked for.                 *)
Fairness ==
  \A s \in Servers : WF_vars(Advance(s)) /\ WF_vars(Boot(s)) /\ SF_vars(Lock(s))

Spec == Init /\ [][Next]_vars /\ Fairness

-----------------------------------------------------------------------------
TypeOK ==
  /\ backend \in Backends
  /\ rows \in [Ids -> Row \cup {None}]
  /\ done \subseteq Migrations
  /\ lock \in Servers \cup {None}
  /\ pc \in [Servers -> Migrations \cup {"down", "token", "create", "write", "serve"}]
  /\ read \in [Servers -> Look \cup {None}]
  /\ file \in Servers \cup {None, "empty"}
  /\ token \in [Servers -> Servers \cup {None}]
  /\ saves \in 0..MaxSaves /\ crashes \in 0..MaxCrashes
  /\ \A s \in Servers : pc[s] \in {"down", "schema"} => token[s] = None

Serving == \E s \in Servers : pc[s] = "serve"

(* The index holds the vector that can be searched, if there is one.       *)
InIndex(row) == row.index = (IF row.vec = "usable" THEN row.save ELSE None)

(* As soon as one server serves, every concept is as 3.0 keeps it: a       *)
(* vector that can be searched is indexed and labelled, others are gone,   *)
(* and tags were rewritten, whichever server migrated what and however     *)
(* often one crashed in between.  On Postgres a 2.x concept whose entry in *)
(* the index is outdated keeps it until it is saved again.                 *)
ServedIsMigrated ==
  Serving =>
    \A i \in Ids : rows[i] # None =>
      /\ rows[i].tags \notin NotNormal /\ rows[i].vec # "broken"
      /\ \/ InIndex(rows[i])
         \/ backend = "postgres" /\ rows[i].save = 0 /\ rows[i].index = Outdated
      /\ (rows[i].model # None) <=> rows[i].vec = "usable"

(* A migration never changes what a server that serves has saved: the      *)
(* saves see no other writer of their rows.                                *)
MigrationKeepsSaves ==
  [][\A i \in Ids :
       (/\ rows[i] # None /\ rows[i].save > 0 /\ rows'[i] # rows[i])
         => saves' = saves + 1]_vars

(* Servers that share a token file accept the token it holds.              *)
TokenShared == \A s \in Servers : pc[s] = "serve" => token[s] = file

(* Whatever other servers do meanwhile, a server serves again and again,   *)
(* unless one died writing the token file, which refuses every later       *)
(* start, or another process has the SQLite file.                          *)
StartsInTheEnd ==
  \A s \in Servers :
    []<>(\/ pc[s] = "serve" \/ file = "empty"
         \/ backend = "sqlite" /\ \E o \in Servers \ {s} : pc[o] # "down")

=============================================================================
