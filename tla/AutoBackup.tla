----------------------------- MODULE AutoBackup -----------------------------
(***************************************************************************)
(* BackupService: after every Threshold saves a server writes a backup of  *)
(* the whole store into its own directory and prunes the oldest.  Every    *)
(* save is announced by an event; its handler counts it and chains one     *)
(* flush of the count into the counter that the database keeps.  Saves and *)
(* deletions go on while a flush reads the counter and exports row by row. *)
(***************************************************************************)
EXTENDS Integers, FiniteSets, SequencesExt

CONSTANTS
  Processes,          \* processes that share the database
  Concepts,           \* concept ids
  Threshold,          \* POLYTICIAN_BACKUP_THRESHOLD
  Retain,             \* POLYTICIAN_BACKUP_RETAIN
  SameStamp,          \* backups of a server that may be stamped alike
  MaxChanges,         \* bound on batches of saves and on deletions
  MaxFailures         \* bound on failures and restarts

ASSUME AutoBackupAssumption ==
  /\ Threshold \in Nat \ {0} /\ Retain \in Nat \ {0}
  /\ SameStamp \in Nat \ {0}
  /\ MaxChanges \in Nat /\ MaxFailures \in Nat

VARIABLES
  stored,       \* how often each concept was saved
  alive,        \* the concepts that exist
  counter,      \* the save counter in the metadata table
  unannounced,  \* the batches committed and not yet announced
  pending,      \* saves announced since the last flush took them
  queue,        \* flushes chained and not settled
  flush,        \* where the flush of each server is
  seen,         \* the saves it took, later the count it is to write
  todo,         \* ids its export has still to read
  records,      \* what its export has read: the save of each concept, or 0
  files,        \* auto-backups in the directory of each server, by name
  born,         \* history: saves of a concept before it was created
  excused,      \* history: saves before the last failure or restart
  backed,       \* history: the last save that any backup held
  changes, failures   \* what the bounds count

store == <<stored, alive, born>>
flushing == <<pending, queue, flush, seen, todo, records>>
backupVars == <<store, counter, unannounced, flushing, files, excused, backed,
                changes, failures>>

Content == [Concepts -> Nat]
Nothing == [i \in Concepts |-> 0]

BackupInit ==
  /\ stored = Nothing /\ alive = {} /\ born = Nothing
  /\ counter = 0
  /\ unannounced = [s \in Processes |-> {}]
  /\ pending = [s \in Processes |-> 0]
  /\ queue = [s \in Processes |-> 0]
  /\ flush = [s \in Processes |-> "idle"]
  /\ seen = [s \in Processes |-> 0]
  /\ todo = [s \in Processes |-> {}]
  /\ records = [s \in Processes |-> Nothing]
  /\ files = [s \in Processes |-> <<>>]
  /\ excused = Nothing /\ backed = Nothing
  /\ changes = 0 /\ failures = 0

-----------------------------------------------------------------------------
(* The concept service: a batch is committed, then announced               *)

(* Save n of concept i is <<i, n>>.                                        *)
SavesOf(batch) == {<<i, stored[i] + 1>> : i \in batch}

SaveBatch(s) ==
  /\ changes < MaxChanges
  /\ \E batch \in (SUBSET Concepts) \ {{}} :
       /\ IsFiniteSet(batch)
       /\ stored' = [i \in Concepts |-> IF i \in batch THEN stored[i] + 1 ELSE stored[i]]
       /\ born' = [i \in Concepts |-> IF i \in batch \ alive THEN stored[i] ELSE born[i]]
       /\ alive' = alive \cup batch
       /\ unannounced' = [unannounced EXCEPT ![s] = @ \cup {SavesOf(batch)}]
  /\ changes' = changes + 1
  /\ UNCHANGED <<counter, flushing, files, excused, backed, failures>>

(* concept.created and concept.updated: onSaved runs for every concept of  *)
(* the batch in one turn.                                                  *)
Announce(s) ==
  /\ \E batch \in unannounced[s] :
       /\ pending' = [pending EXCEPT ![s] = @ + Cardinality(batch)]
       /\ queue' = [queue EXCEPT ![s] = @ + Cardinality(batch)]
       /\ unannounced' = [unannounced EXCEPT ![s] = @ \ {batch}]
  /\ UNCHANGED <<store, counter, flush, seen, todo, records, files, excused, backed,
                 changes, failures>>

DeleteConcept(i) ==
  /\ changes < MaxChanges
  /\ i \in alive
  /\ alive' = alive \ {i}
  /\ changes' = changes + 1
  /\ UNCHANGED <<stored, born, counter, unannounced, flushing, files, excused,
                 backed, failures>>

-----------------------------------------------------------------------------
(* flush                                                                   *)

Settle(s) ==
  /\ flush' = [flush EXCEPT ![s] = "idle"]
  /\ queue' = [queue EXCEPT ![s] = @ - 1]
  /\ seen' = [seen EXCEPT ![s] = 0]
  /\ todo' = [todo EXCEPT ![s] = {}]
  /\ records' = [records EXCEPT ![s] = Nothing]

(* Take the saves announced so far; a flush with none is done.             *)
Take(s) ==
  /\ flush[s] = "idle" /\ queue[s] > 0
  /\ IF pending[s] = 0
     THEN Settle(s)
     ELSE /\ flush' = [flush EXCEPT ![s] = "count"]
          /\ seen' = [seen EXCEPT ![s] = pending[s]]
          /\ UNCHANGED <<queue, todo, records>>
  /\ pending' = [pending EXCEPT ![s] = 0]
  /\ UNCHANGED <<store, counter, unannounced, files, excused, backed, changes, failures>>

ReadCounter(s) ==
  /\ flush[s] = "count"
  /\ seen' = [seen EXCEPT ![s] = counter + @]
  /\ flush' = [flush EXCEPT ![s] = "write"]
  /\ UNCHANGED <<store, counter, unannounced, pending, queue, todo, records, files,
                 excused, backed, changes, failures>>

(* Mistake: what was announced since the flush began counts as written.    *)
WriteCounterDropsPending(s) ==
  /\ flush[s] = "write"
  /\ IF seen[s] < Threshold
     THEN counter' = seen[s] /\ Settle(s)
     ELSE /\ counter' = 0
          /\ flush' = [flush EXCEPT ![s] = "list"]
          /\ UNCHANGED <<queue, seen, todo, records>>
  /\ pending' = [pending EXCEPT ![s] = 0]
  /\ UNCHANGED <<store, unannounced, files, excused, backed, changes, failures>>

(* Below the threshold the flush is done; at it the counter starts again,  *)
(* before the backup is written.                                           *)
WriteCounter(s) ==
  /\ flush[s] = "write"
  /\ IF seen[s] < Threshold
     THEN counter' = seen[s] /\ Settle(s)
     ELSE /\ counter' = 0
          /\ flush' = [flush EXCEPT ![s] = "list"]
          /\ UNCHANGED <<queue, seen, todo, records>>
  /\ UNCHANGED <<store, unannounced, pending, files, excused, backed, changes, failures>>

(* exportBackup: the ids in one query, then row by row; a concept deleted  *)
(* meanwhile is left out.                                                  *)
ListIds(s) ==
  /\ flush[s] = "list"
  /\ todo' = [todo EXCEPT ![s] = alive]
  /\ flush' = [flush EXCEPT ![s] = "read"]
  /\ UNCHANGED <<store, counter, unannounced, pending, queue, seen, records, files,
                 excused, backed, changes, failures>>

ReadRow(s) ==
  /\ flush[s] = "read"
  /\ \E i \in todo[s] :
       /\ todo' = [todo EXCEPT ![s] = @ \ {i}]
       /\ records' = [records EXCEPT ![s][i] = IF i \in alive THEN stored[i] ELSE 0]
  /\ UNCHANGED <<store, counter, unannounced, pending, queue, flush, seen, files,
                 excused, backed, changes, failures>>

(* The file is renamed into place whole.  Names sort by time stamp and then *)
(* by a random id, so the new file may sort below others with its stamp.   *)
WriteFile(s) ==
  /\ flush[s] = "read" /\ todo[s] = {}
  /\ \E below \in 0 .. SameStamp - 1 :
       /\ below <= Len(files[s])
       /\ files' = [files EXCEPT ![s] = InsertAt(@, Len(@) - below + 1, records[s])]
  /\ backed' = [i \in Concepts |-> Max({backed[i], records[s][i]})]
  /\ flush' = [flush EXCEPT ![s] = "prune"]
  /\ UNCHANGED <<store, counter, unannounced, pending, queue, seen, todo, records,
                 excused, changes, failures>>

(* Mistake: names in ascending order.                                      *)
KeptOldest(named) == SubSeq(named, 1, Min({Retain, Len(named)}))

(* pruneBackups: all but the Retain newest by name.                        *)
Kept(named) == SubSeq(named, Max({1, Len(named) - Retain + 1}), Len(named))

Prune(s) ==
  /\ flush[s] = "prune"
  /\ files' = [files EXCEPT ![s] = Kept(@)]
  /\ Settle(s)
  /\ UNCHANGED <<store, counter, unannounced, pending, excused, backed, changes, failures>>

(* The database or the file system throws: what the flush has taken is     *)
(* gone, and the counter stays as it was or as it was last written.        *)
Fail(s) ==
  /\ failures < MaxFailures
  /\ flush[s] \in {"count", "write", "list", "read", "prune"}
  /\ flush' = [flush EXCEPT ![s] = "failed"]
  /\ excused' = stored
  /\ failures' = failures + 1
  /\ UNCHANGED <<store, counter, unannounced, pending, queue, seen, todo, records,
                 files, backed, changes>>

(* Mistake: a rejected flush rejects every later one.                      *)
CatchMissing(s) == flush[s] = "failed" /\ UNCHANGED backupVars

(* The chain catches the rejection, so that later flushes run.             *)
Catch(s) ==
  /\ flush[s] = "failed"
  /\ Settle(s)
  /\ UNCHANGED <<store, counter, unannounced, pending, files, excused, backed,
                 changes, failures>>

(* A server restarts; the counter and the files stay.                      *)
Restart(s) ==
  /\ failures < MaxFailures
  /\ unannounced' = [unannounced EXCEPT ![s] = {}]
  /\ pending' = [pending EXCEPT ![s] = 0]
  /\ queue' = [queue EXCEPT ![s] = 0]
  /\ flush' = [flush EXCEPT ![s] = "idle"]
  /\ seen' = [seen EXCEPT ![s] = 0]
  /\ todo' = [todo EXCEPT ![s] = {}]
  /\ records' = [records EXCEPT ![s] = Nothing]
  /\ excused' = stored
  /\ failures' = failures + 1
  /\ UNCHANGED <<store, counter, files, backed, changes>>

Proceed(s) ==
  \/ Announce(s) \/ Take(s) \/ ReadCounter(s) \/ WriteCounter(s) \/ ListIds(s)
  \/ ReadRow(s) \/ WriteFile(s) \/ Prune(s) \/ Catch(s)

BackupNext ==
  \/ \E s \in Processes : SaveBatch(s) \/ Proceed(s) \/ Fail(s) \/ Restart(s)
  \/ \E i \in Concepts : DeleteConcept(i)

(* Promises settle: nothing a server has started waits for ever.           *)
BackupSpec ==
  /\ BackupInit /\ [][BackupNext]_backupVars
  /\ \A s \in Processes : WF_backupVars(Proceed(s))

-----------------------------------------------------------------------------
(* Every variable has its type; a flush that runs is one of those chained, *)
(* and a server without one has nothing announced and untaken.             *)
BackupTypeOK ==
  /\ stored \in Content /\ born \in Content
  /\ excused \in Content /\ backed \in Content
  /\ alive \subseteq Concepts
  /\ counter \in 0 .. Threshold - 1
  /\ unannounced \in [Processes -> SUBSET SUBSET (Concepts \X Nat)]
  /\ pending \in [Processes -> Nat] /\ queue \in [Processes -> Nat]
  /\ flush \in [Processes -> {"idle", "count", "write", "list", "read", "prune", "failed"}]
  /\ seen \in [Processes -> Nat]
  /\ todo \in [Processes -> SUBSET Concepts]
  /\ records \in [Processes -> Content]
  /\ files \in [Processes -> Seq(Content)]
  /\ \A s \in Processes : /\ flush[s] # "idle" => queue[s] > 0
                          /\ pending[s] > 0 => queue[s] > 0
  /\ changes \in 0 .. MaxChanges /\ failures \in 0 .. MaxFailures

Quiet(s) == flush[s] = "idle" /\ queue[s] = 0 /\ unannounced[s] = {}

(* The saves of the current life of a concept that no backup was written   *)
(* for.                                                                    *)
Fresh(i) == {n \in 1 .. stored[i] : n > born[i] /\ n > excused[i] /\ n > backed[i]}
Uncovered == UNION {{i} \X Fresh(i) : i \in alive}

(* Auto-backup keeps its promise however saves, deletions and the rows an  *)
(* export reads interleave: when nothing is under way, fewer than          *)
(* Threshold saves since the last failure are in no backup.  A failure     *)
(* costs the saves before it (the counter is reset before the backup is    *)
(* written), never those after it.  Servers that share the database can    *)
(* overwrite each other's counts, and then the promise fails.              *)
BackupEveryN ==
  (\A s \in Processes : Quiet(s)) => Cardinality(Uncovered) < Threshold

(* Pruning goes by name, that is by time stamp and random id, yet never    *)
(* loses a save: what any file held of a concept that exists, a file that  *)
(* is kept holds too, or a later save of it.                               *)
PruningKeepsCoverage ==
  [][\A s \in Processes : Prune(s) =>
       \A i \in alive, old \in Range(files[s]) :
         old[i] > born[i] => \E new \in Range(files'[s]) : new[i] >= old[i]]_backupVars

(* The chain of flushes always drains, also after one of them failed.      *)
FlushesSettle == \A s \in Processes : queue[s] > 0 ~> queue[s] = 0

=============================================================================
