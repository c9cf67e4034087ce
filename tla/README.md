# Polytician in TLA+

Specifications of [Polytician](../src/README.md), a semantic-memory server: an
MCP server (TypeScript) that keeps *concepts* - a markdown text, a structured
"thoughtform" and an embedding vector, with tags, provenance and a version - in
SQLite or PostgreSQL, lets several agents and servers write them at once, and
copies them to files, to an AgentVault memory repository, to Arweave and to an
Internet Computer canister (PolyVault).

Paths below are relative to `src/src/` unless they start with another directory.

## 1. The system

| component | state it keeps | operations | what is hard | what makes it correct |
|---|---|---|---|---|
| concept service (`services/concept.service.ts`) | none of its own; the rows | `save`, `saveBatch`, `restore`, `delete`, `reembed`, `read`, `list`, `search` | optimistic writers that read row by row and retry; conflicts; stale plans | a write acts as if at the moment of its commit; nothing of a concurrent writer is undone; the rules on namespaces, versions and authored content hold there |
| adapters (`db/*-adapter.ts`) | tables `concepts`, `concept_vectors`, `metadata` | `findConcept`, `applyWrites`, searches, metadata, label migration | several statements per transaction; row locks; two tables kept in step | all or nothing; the vector index is exactly the vectors of the rows |
| conversion (`services/conversion.service.ts`) | none | `convert` | a long LLM or embedder call between read and save | no stale derivation, no authored content replaced unasked |
| embedding (`services/embedding.service.ts`) | the loaded model, the load in progress | `embed`, `embedBatch` | concurrent first callers, failing loads | one load at a time, a failed load is retried |
| auto-backup (`services/backup.service.ts`, `backup/files.ts`) | pending count, persisted counter, files | event handler, `flush`, `runBackup`, `exportBackup`, prune | serialised flushes, failures, restarts, servers that share a database | every N saves there is a backup; the newest files stay |
| archival (`integrations/agent-vault/connectors/archival.connector.ts`) | debounce timers, versions archived, uploads in progress | `scheduleArchive`, `archive` | a tool call races a timer; slow and failed uploads | a version is paid for once; the last version gets archived |
| memory sync (`.../memory-sync.connector.ts`, `event-bridge.ts`, `bin/agentvault-sync.ts`) | none persisted; the branch of the memory repository | pull, push, tombstone, timers, tools, CLI | servers and a branch; requests lost, late or overtaken; events in any order; edits between a pull's read and its save | a pull replaces only what it read, and only what is older; the branch catches up with what is saved; what stays on it reaches the servers that pull by a timer |
| search (`ConceptService.search`, `vectorSearch` of the adapters) | none | count, scans, read of what was found | ties at the cut, approximate indexes, writes between the statements | nothing nearer is missed, models are not mixed, the search ends |
| PolyVault canister (`agentvault_polyvault/stable_store.mo`) | chunks, idempotency keys, chunk index, commits | `putChunk`, `finalizeCommit`, `listCommits`, `getChunksForCommit` | lost replies, concurrent uploaders, pagination under writes | an accepted commit is whole and stays so |
| PolyVault backup / restore (`commands/polyvault`, `lib/polyvault`) | none | `runBackup`, `runRestore` | retries, re-runs, partial uploads | a restore yields the newest of what was committed |
| PolyVault merge / rebase (`polyvault/conflict.ts`, `rebase.ts`, `commands/polyvault/rebase.ts`, `merge.ts`) | the file of ThoughtForms, the rebase cursor | `runMerge`, `runRebase` | ties, skew, commits of one millisecond or late, a state file that is lost or not written | no commit skipped, devices agree, no edit lost against the policy |
| PolyVault importer (`storage/sqlite-upsert.ts`, `commands/polyvault/e2e.ts`) | none | `runRestoreE2E`, `runBackupE2E` | reads and writes between those of servers, crashes half way | a repeated restore converges, newer concepts stay, a backup misses nothing that was left alone |
| lifecycle (`index.ts`, `transport/http.ts`, `db/client.ts`, `initialize` of the adapters) | migration records, the token file | start, migration, shutdown | servers that start, serve and die on one store | no server serves before the store is migrated, a migration touches nothing that was saved since, one token |

Components call each other directly (tools -> services -> adapter); after a
commit the concept service emits `concept.created / updated / deleted` on an
in-process event bus, to which auto-backup and the event bridge of the
AgentVault connectors subscribe. Servers share state only through the database
and the remote services. Everything else (schemas, configuration, logging,
sealing, NLP rules) keeps no state and is listed as not modelled in
`PROJECT.json`, with the reason.

## 2. Modules

| module | what it is |
|---|---|
| `ConceptRules` | what one entry, one backup record, one row and one conditional write are; the pure rules of `ConceptService.plan` and of `restore`; what `applyWrite` does with a write |
| `ConceptStore` | the store and its clients: one action per step of `saveBatch`, `restore`, `delete`, `convert` and `reembed`; the properties |
| `AtomicStore` | the abstract store a reader sees: transactions at once, versions that count, searchable vectors = the vectors of the rows |
| `MCConceptStore` | the small instances |
| `ConceptStore_proofs` | the inductive invariant, the action properties and the refinement |
| `PgTransaction` | `applyWrites` of the PostgreSQL adapter, statement by statement, in overlapping transactions |
| `MCPgTransaction` | its small instance |
| `PgTransaction_proofs` | that locks isolate, that transactions apply at once, that they implement `AtomicStore` |
| `AutoBackup` | the save counter, the chain of flushes, the row-by-row export and pruning, in servers that share a database |
| `Archival` | the debounce timers and overlapping archive calls of one server |
| `MemorySync` | servers, their event bridges, timers, tools and CLI runs, the requests on their way and the branch of the memory repository |
| `AgentVault_proofs` | the two connectors: that a version is uploaded by one call at a time and only what was confirmed is remembered; what a pull may replace, and that the branch catches up |
| `VaultCanister` | the PolyVault canister: chunks, idempotency keys, chunk index, commits, allow lists, paginated queries |
| `PolyVault` | composes the canister with backup runs, a restore and a network that loses requests and replies |
| `PolyVault_proofs` | that an accepted commit is whole and stays so until its data is uploaded again, and that a restore misses nothing |
| `ConflictRules` | pure: `resolveConflict`, `mergeThoughtformSets`, `commitsAfter`, `computeRemoteDelta` |
| `Rebase` | devices that edit, back up, export, rebase and merge with those rules |
| `Rebase_proofs` | that no commit is missed, settled devices agree and edits are kept |
| `VaultStore` | the importer and the paged reader of PolyVault next to servers that save |
| `VaultStore_proofs` | what the importer may replace, that restores converge, and what a backup holds |
| `Search` | one search, statement by statement, next to writers |
| `Search_proofs` | that nothing nearer is missed and what is returned can be compared |
| `Startup` | servers that start, migrate, serve, stop and die on one store and one token file |
| `Server_proofs` | servers that share a database: the inductive invariant of the migrations and the token file; that no save is left out of the count, and that pruning loses none |
| `MCPolyVault`, `MCMemorySync`, `MCRebase`, `MCVaultStore`, `MCStartup` | the small instances |

`Archival`, `AutoBackup` and `Search` need no definitions for their constants;
their cfg files run the modules themselves. Proofs about components that belong
together share a module, which extends both; `Archival` and `AutoBackup` therefore
have names of their own for what every module has (`ArchivalInit`, `BackupSpec`)
and for what another calls the same (`SaveConcept`, `DeleteConcept`, `SaveBatch`).

### ConceptRules and ConceptStore

`table[i]` is the row of concept `i` in `concepts` or `None`, `index[i]` its row
in `concept_vectors` or `None`; `life[i]` (history only) counts the inserts of
`i`. A *client* is one call in flight, in any server that shares the store.

| action | code |
|---|---|
| `SubmitSave` | `saveBatch` up to its loop; automatic vectors are computed from the entries alone |
| `SubmitRestore` | `importBackupBytes` (`services/backup.service.ts`): the filter by namespace, the refusal or re-embedding of vectors of another model; then `restore` up to its loop |
| `StartConversion` | the read and the checks of `convert` |
| `ListForeign`, `ReadForeign` | `reembed`: the page query that finds a vector of another model, then, in a step of its own, the read of the concept and the checks, which do not look at the model again |
| `EndDerivation` | the LLM or embedder call returns; its result enters `save` with the version that was read |
| `PlanSave`, `PlanRestore` | one `findConcept` and one pass of the planning loop; a rejected entry ends the call |
| `Commit`, `Retry` | `applyWrites`: all preconditions hold and all writes are applied, or nothing is and the loop starts again, at most `MAX_WRITE_ATTEMPTS` times and never when the caller named a version |
| `Delete` | `delete`, a transaction of its own |
| `Fail` | the embedder, the LLM or the database throws, or the process dies |
| `Tick` | the clock |

Reads of different rows are separate steps, so other clients commit between
them. `applyWrites` is one step: SQLite runs the transaction synchronously
inside one turn of the event loop; PostgreSQL's row locks and re-checked WHERE
clauses are meant to give the same (`db/postgres-adapter.ts:276`):
`PgTransaction` shows that they do.

Abstractions: a text is a member of `Texts`, a vector is the text it embeds and
the model that made it (the two columns always change together), provenance is
reduced to absent / authored / derived from a representation; assertion status
and ledger reference follow the same "given replaces, omitted keeps" rule as a
text and are left out; limits other than `LIMITS.tags` are input validation.
A conversion from a vector may yield any text: it depends on the neighbours.

Properties (each with its comment in `ConceptStore`): `SaveActsAtOnce`,
`RestoreIsNewer`, `CallerGuardsHold`, `AuthoredContentKept`, `FreshDerivation`,
`VersionNamesRow`, `StoreContract` (refinement of `AtomicStore`),
`EveryCallReturns`.

### PgTransaction

`concepts` and `vectors` are the committed tables, `locks` the transaction that
has locked a row or reserved a key; `writes[t]` are the conditional writes of a
transaction, `at[t]` the one whose statements are next, `rows[t]` and
`embedded[t]` what it has written so far (`Clean` where it has not).

| action | code |
|---|---|
| `RequestBatch`, `Plan` | `saveBatch`: each write planned on one committed row, read in a step of its own |
| `RequestDelete` | `delete` |
| `RowStatement`, `VectorStatement` | the statements of `applyWrite`: INSERT, UPDATE or DELETE on `concepts`, then the upsert or DELETE on `concept_vectors` if the vector changes; a deletion cascades |
| `Block`, `Wake` | the statement waits for the transaction that has locked its row or key, and checks its condition again |
| `Refuse`, `Rollback` | no row matched: ROLLBACK, `ok: false` |
| `Commit` | COMMIT: what was written becomes visible, locks are released; a statement that waited for a row that is deleted finds it gone, even if the concept is created again |
| `Fail`, `Victim` | a statement throws or the process dies; PostgreSQL aborts one of several transactions that wait for each other |

PostgreSQL under READ COMMITTED is external: `Free`, `Block`, `Wake`, `Unlock`,
`FindsDeleted`, `Holder` and `Circle` state what the adapter relies on. A row is
its namespace, version and vector; the other columns are assigned by the same
statement. The insert of a restored record brings its own version, by the same
statement; the model's inserts start at 1. A deletion is a transaction of its
own, as the service calls it.

Properties: `AppliesAtOnce`, `StoreContract` (refinement of `AtomicStore`),
`TransactionsEnd`, and the inductive invariant `PgInv`.

### AutoBackup

`counter` is the row of the `metadata` table that servers share; `pending`,
`queue` and the progress of a flush (`flush`, `seen`, `todo`, `records`) are in the
memory of a server; `files` is its directory of auto-backups in the order of
their names. `born`, `excused` and `backed` are history. A file is what it holds
of each concept: the number of its last save. Save `n` of concept `i` is
`<<i, n>>`, a batch is a set of them, and `Uncovered` are those that no backup was
written for.

| action | code |
|---|---|
| `SaveBatch`, `DeleteConcept` | a commit of `saveBatch`, `restore` or `delete`; the announcement follows after an await |
| `Announce` | the events of one batch, emitted in one turn: `onSaved` counts each and chains one flush each |
| `Take`, `ReadCounter`, `WriteCounter` | `flush`, cut at its awaits; the counter is reset before the export |
| `ListIds`, `ReadRow`, `WriteFile` | `exportBackup`: ids in one query, rows one by one (in any order; the code's is by id), then stamped and renamed into place |
| `Prune` | `pruneBackups`, by name |
| `Fail`, `Catch` | a step of the flush throws; the chain catches it |
| `Restart` | what is in memory is gone |

Names sort by millisecond and then by a random id. So `WriteFile` inserts the
new file below at most `SameStamp - 1` others: how many auto-backups one server
may stamp alike. With `SameStamp <= Retain` pruning keeps what was backed up
(`PruningKeepsCoverage`); with `Retain = 1` and two exports in one millisecond
the file just written may go, against the comment at `backup/files.ts:140`. The
clock does not run backwards. The switched-off case (`threshold <= 0`) and the
files of the export tool, which have another prefix and are never pruned, are
left out.

### Archival

`row[i]` is the concept as the store holds it: a version, and whether it carries
the filter tags and has text (`eligible`). `pending`, `archived` and `uploading`
are the three maps of `ArchivalConnector`; an upload in progress is named by
concept and version.

| action | code |
|---|---|
| `SaveConcept`, `DeleteConcept` | a commit, and the event bridge arming or clearing the timer |
| `Fire`, `ToolCall` | the timer fires; `vault_archive_concept` |
| `Read` | `archive` reads the concept; the later steps work on what was read |
| `Decline`, `Wait`, `Upload` | not tagged, no content or archived already; the version is being uploaded; reserve the slot and send, in one turn |
| `Confirm`, `Fail` | the receipt, or an error: the upload's own call and all that wait for it settle |
| `Restart` | timers, calls and maps are gone; nothing is archived on start |

Arming the timer is part of `SaveConcept`: the event follows the commit after an await,
but a timer armed late only fires late, and firing takes any time anyway. Empty
content and missing tags are one flag, sealing is the identity of the version it
seals (no property looks into a payload).

### VaultCanister and PolyVault

A *data set* is a set of ThoughtForms that someone backs up. Its dedupe key, its
bundle id and its commit id are all hashes of it, so all three are the data
set's number, which also orders commit ids. What the bytes of a chunk depend on
besides data set and index is its `header`: the parent commit, and a `stamp` for
the serialization's time and the nonce of an encrypted one. `Alike` are the
chunk indexes whose bytes are the same in every serialization (uncompressed,
unencrypted chunks past the header). A hash is the value hashed.

| action | code |
|---|---|
| `PutChunk`, `Finalize` | `putChunk`, `finalizeCommit` of `stable_store.mo`: one call at a time |
| `Listing`, `ListFrom`, `Page`, `ChunkListing` | the two paginated queries |
| `StartRun` | `runBackup` up to its uploads, with the latest commit as parent, or none if that query fails |
| `Upload`, `FinalizeRun` | one attempt: answered, or not, in which case the request is in `late` and `Arrive` may execute it at once, later or never; at most `Attempts` attempts per chunk, one finalization |
| `StartRestore`, `ListPage`, `FetchPage`, `EndRestore` | `runRestore`, with `fetchCommits` and `fetchChunksForCommit`: commits page by page, then each commit's chunks page by page, verification, the newest of each id |

The canister's clock may stand still, so several commits have one time stamp.
Two runs may back up the same data at once and a later run may repeat one.
`SetAllowlist` is the owner changing the allow lists: a caller off the write list
is refused like any failed attempt (`Refused`), one off the read list is answered
as if there were nothing (`Readable`).

### MemorySync

`store[s]` are the concepts of a server, `branch` the entries of the memory
repository's branch, `events` what the event bus has still to deliver, `wire` the
requests under way in the order they were sent, `pull[p]` a pull in progress:
what is left of the entries it fetched, and the one it is at with what it found.
`fresh` are the servers whose initial pull is still to come, `Timed` those
configured with `pullIntervalMs` > 0: the default is 0 (`config.ts:46`), and such
a server pulls once per start and otherwise only when a tool is called. `life`, `pusher` and `faulty` are history.

| action | code |
|---|---|
| `Edit`, `Delete` | `save`, `delete` and the event they emit |
| `HandleSaved`, `HandleDeleted` | the event bridge: `pushConcept` reads the concept when the event is handled; `deleteConcept` sends a tombstone |
| `ToolPush` | `vault_memory_push` |
| `TakeEffect`, `Lose` | a request changes the branch, in any order and however late, or never: none is repeated |
| `InitialPull`, `InitialPullFails` | `initialPull`, once after each start and never repeated |
| `TimedPull` | the timer of a server that has one |
| `ToolPull`, `CliPull` | `vault_memory_pull` of one namespace; `agentvault-sync sync` |
| `ReadExisting` | `conceptService.read(id).catch(() => null)`: a failed read finds nothing |
| `Skip`, `Import` | the checks of `applyPulledEntries`, and the save with the version that was read |
| `EndPull` | the pull is done; the CLI goes on to push every concept it lists |
| `Crash` | a server dies and starts again: its events and pulls are gone, its initial pull is to come |
| `CliDies` | the CLI process dies: its pull, and what it still had to push, are gone |

A concept is its namespace, version, `updatedAt` and text; tags and vectors
follow the text, and thoughtform entries are pushed and never pulled. Entries are
well formed, and the servers' clocks agree. `Import` and `Edit` are `save` as one
step: `ConceptStore` shows that it is one. An event handled late sends what the
store holds then, so events are a set.

Properties: `PullKeepsNewer`, `PullKeepsNamespace`, `BranchCatchesUp`,
`PulledEventually`.

### ConflictRules and Rebase

A ThoughtForm is its `updatedAtMs` and its content, which its hash stands for; a
set of them is a function from ids, like the Maps of the code. `file[d]` is the
file of a device, `state[d]` the cursor in its state file, `remote[d]` the commits
it exported last.

| action | code |
|---|---|
| `Edit` | the user's editor, whose clock may be off |
| `BackUp`, `Tick`, `Export` | the PolyVault backup and export as far as a rebase sees them (external here; `PolyVault` has the protocol): commits of one round share a time, and a listing shows the rounds before (`Listed`: an assumption about the platform, whose queries answer from the state after a round, and not a rule of `main.mo`; that late commits are not missed rests on it) |
| `RunRebase` | `runRebase`: the delta of the new commits, the merge, then the output, then the state, which may not get written |
| `LoseState` | the state file is missing, unreadable or reset |
| `RunMerge` | `runMerge` |

Properties: `NothingMissed`, `SettledAgree`, `EditsKept`. The tie-break of the
code (time, then hash) makes `Newer` a total order, so that the fold of
`computeRemoteDelta` may be modelled by its result; `SettledAgree` breaks when the
tie-break goes.

### VaultStore

`rows` are the concepts with their `updated_at` and ThoughtForm; `at`, `importer`
and `existing` are where `upsertThoughtforms` is and what it read; `offset`,
`reader`, `total`, `page` and `taken` are where `readThoughtformsFromDb` is. The
rest is history.

| action | code |
|---|---|
| `Save`, `Delete` | a server |
| `BeginImport`, `Find`, `Update`, `Insert`, `Crash` | `runRestoreE2E`: each ThoughtForm is read, compared and written unconditionally; an insert of a concept created since fails the run |
| `BeginBackup` | `runBackupE2E`, up to the first page |
| `Count` | the first statement of `listConcepts`, whose total ends the paging |
| `ReadPage` | the second: newest first, by limit and offset |
| `Fetch` | `findConcept` of each listed concept |

The store has finitely many concepts at first, as a table has. Others write
between any two of these steps, also between the count and the page: these are
two statements without a transaction on both stores (on SQLite for writers in
other processes only). `ORDER BY updated_at DESC` has no tie-break, so the first n
concepts are any n with none older than the rest (`Newest`), chosen anew by every
query; `page` is a set, because the order of fetching within a page decides nothing.

Properties: `RestoreConverges`, `NewerKept`, `UntouchedInBackup`. The last excepts
what the code does lose: concepts behind one that left its place (`slid`), all
when the last page was cut from more than were counted (`grown`), and those of one
`updated_at` that a page ended within (`split`). TLC finds each exception needed:
without any one of them the property fails.

### Search

`rows` are the concepts that have a vector; `pc`, `fetch`, `found` and `results`
are the locals of `search`; `seen` and `touched` are history. `found` is a set of
hits. `ORDER BY distance LIMIT n` is any `n` of them with none outside nearer than
one inside (`Nearest`): which rows of the last distance make it is the store's
choice. The results are the first k by rank, that is by how many hits come before
(`Before`, `Top`, `Ranked`).

| action | code |
|---|---|
| `Count` | `countForeignVectors` |
| `SqliteScan` | one exact scan for each namespace (`sqlite-vec`), each cut at `fetch` |
| `IndexScan`, `Recount`, `ExactScan` | `vectorSearch` on Postgres: a scan of the HNSW index that may give up early; a short one is checked against a count and redone without the index |
| `Look` | `boundaryTied` and the widening, up to `MAX_SEARCH_FETCH` |
| `ReadMeta` | `findConceptMeta` of the first k |
| `Save`, `Delete` | other requests and other servers |

Properties: `NearestFound`, `ResultsComparable`, `SearchEnds`. Searches over all
namespaces and unfiltered HNSW scans, which are approximate by design, are left
out.

### Startup

`done` are the migrations recorded in the metadata, `lock` the advisory lock,
`read[s]` what a migration has read inside its transaction, `file` the token file.
A row is what the migrations look at: is its vector usable, is it labelled, what
are its tags (an array of texts, an array of anything, no array), and which vector
does the index hold: the row's (by the save that wrote it), an `Outdated` one, or
none. The 2.x store that the servers find may hold any of these (`Legacy`).

| action | code |
|---|---|
| `Boot` | a process starts; a SQLite file belongs to one |
| `Lock`, `Read`, `Commit` | a migration on Postgres: lock, look whether it was done, change the rows and record it, in one READ COMMITTED transaction |
| `SqliteMigrate` | the same in one synchronous transaction |
| `FindToken`, `CreateToken`, `WriteToken` | `loadOrCreateHttpToken` |
| (`ToV3`, `Rebuilt`) | the first migration: Postgres indexes a usable vector only if the row has no entry in the index; SQLite builds the index anew |
| (`Labelled`, `Normalized`) | the other two; Postgres rewrites only tags that do not start with a bracket, SQLite also arrays with other elements than texts |
| `Save`, `Delete` | requests of a server that is past its migrations, while others are still in theirs |
| `Stop`, `Crash` | `shutdown`; the process dies or a statement fails |

Properties: `ServedIsMigrated`, `MigrationKeepsSaves`, `TokenShared`,
`StartsInTheEnd`. A 2.x server that keeps writing after the migration is left out.

## 3. Runs

| run | instance | question |
|---|---|---|
| `concept_writes` | 2 clients, 5 calls, 2 concepts, 2 attempts | are optimistic writes atomic, never undone, in step with the vector index, within the callers' guards, and does the store implement `AtomicStore`? |
| `concept_derivations` | 2 clients with two embedding models, 4 calls on one concept | are derivations fresh, is authored content kept, does every call return? |
| `pg_transaction` | 2 overlapping transactions, 4 in all, 2 rows locked in either order | is every transaction applied at once or not at all, whatever waits, fails or deadlocks, and does each one end? |
| `backup` | 1 server, 2 concepts, N = 2, 2 files kept, 4 changes, 1 failure | is there a backup every N saves, does pruning lose nothing, do flushes settle? |
| `archival` | 1 concept, 3 calls, 3 changes, 1 tool call, 1 failure or restart | is a version never uploaded twice at once, nothing unconfirmed remembered, the last version archived? |
| `memory_sync` | 2 servers (one pushes and pulls, serves 1 namespace and has no timer; one only pulls, by a timer, and serves both), 1 concept, 2 namespaces, 2 edits, 1 tool call or CLI run, 1 fault, 2 clock values | does a pull replace only what it may, does the branch catch up, does what stays on it arrive at the server with a timer? |
| `vault` | 2 overlapping backup runs, 3 in all, 2 data sets of 2 and 1 chunks, 2 attempts, pages of one, 1 restore, 1 change of an allow list | is an accepted commit whole, does it stay whole unless its data is serialized again, does a restore that lists while others commit miss nothing? |
| `vault_rerun` | 1 run at a time, 2 serializations | violation: a repeated backup changes nothing (`docs/polyvault/spec-v1.md:76`) |
| `rebase` | 3 devices (two plain, one that prefers its own), 1 ThoughtForm, 2 stamps, 2 contents, 2 commits, 3 edits, 1 merge, 1 lost state | is no commit missed, do settled devices agree, is no edit lost? |
| `vault_store` | files of 2 ThoughtForms of 1 or 2 concepts, 2 restores, any store of 2 concepts at first, 1 backup with pages of one, 1 save or deletion | does a repeated restore converge, is newer data kept, does the backup hold what nobody touched, outside the three cases stated? |
| `search` | any store of 3 concepts in 3 namespaces, 2 distances, both backends, k = 1, at most 3 rows fetched, 1 write | is nothing nearer missed, is what is returned comparable, does the search end? |
| `startup` | 2 servers with different models, any 2.x store of 1 concept, both backends, 2 saves or deletions, 2 crashes | is a served store migrated, are saves safe from migrations, is the token shared, does every server get to serve? |

Why the bounds are enough. *Clients*: every conflict is between one writer and
the next to commit; a third writer only lengthens the same retry, and 4 to 5
calls let a conflict be followed by a conflicting retry, a deletion and a
creation. Two attempts (the code allows 8) show a first attempt, a retry and giving up. *Concepts*:
two are needed for a batch whose rows are read at different moments; rules about
one row need one. *PgTransaction*: two rows locked in opposite orders deadlock,
and a third and fourth transaction delete and re-create a row that a blocked
statement waits for; the theorems drop the bounds. *AutoBackup*: four batches of up to two saves reach N = 2
three times over, so that pruning with two files kept has something to remove,
and a save can fall in any gap of a flush. *Archival*: the changes, calls and
failures of the cfg let an old upload outlive a newer one, a deletion fall
between them and a failure hit either. *MemorySync*: a pull can only be
overtaken by an edit, a deletion or another pull's import of the concept it is
at, and two edits give both orders; concepts do not interact, so one is enough,
and one pull at a time suffices in the run because two pulls meet only in the
store, where the second is like an edit. The theorems hold for any number of
both. *PolyVault*: two chunks are the least that can be mixed from
two serializations; a page of one makes every listing longer than a page and
every commit a boundary; two clock values give equal and different stamps.
*Rebase*: three edits and two commits of equal or different time give every order
of two stamps and two hashes; the merge of sets works id by id. *VaultStore*: two
ThoughtForms of one concept, or of two, and a page of one put a boundary of the
importer and of the reader at every row, and two stamps make rows equal or not. *Search*: three rows at two distances
with k = 1 and a cap of three reach every outcome of the tie test: whole, cut,
widened, capped. *Startup*: two servers are a lock holder and one that waits or
serves; a second crash hits a start after a crash; a migration changes all rows in
one transaction and each by itself, so one concept that is any row of a 2.x store
is enough.

`CHECK_DEADLOCK FALSE` is in every cfg because the bounds on calls, changes,
runs and clocks let an instance come to rest; the systems themselves serve for
ever, and a search is over when it has returned. No run replaces a definition
or uses a state constraint; symmetry (of clients, runs or devices) is used in
runs without liveness properties only.

Type invariants: `startup` checks its own; those of `ConceptStore` and
`PgTransaction` are part of `ConceptInv` and `PgInv`; those of `Archival`,
`AutoBackup`, `MemorySync` and `Search` are proved. The others are stated as
`TypeOK` in their modules and can be added to the cfg files.

## 4. Fairness

`ConceptStore`: weak fairness of each client's own steps. A step is a promise
that settles or a transaction that is applied or refused, so it is never
disabled by others for good; which call comes next, failures and the clock are
not fair. `EveryCallReturns` rests on the bound on attempts, not on luck:
every commit may be refused. `Archival`: weak fairness of each call's steps
(an upload is answered or fails) and of each concept's timer. Whether an upload
fails is not fair, and failures are bounded; a lost version is excused in
`LastVersionArchived` because the code retries nothing. `AutoBackup`: weak
fairness of each server's flush. `PgTransaction`: weak fairness of each
transaction's steps: nothing but a lock makes a statement wait, a lock is held
until a transaction ends, and PostgreSQL looks for deadlocks whenever a lock
wait lasts. `MemorySync`: weak fairness of each pull's steps, of the delivery of
events and of requests that are not lost; strong fairness of the timed
pull of the servers that have a timer (`Timed`), because such a timer fires for
ever but finds a slot of the model free only again and again (the model has a
bound on overlapping pulls, the code has none). The initial pull is not fair:
nothing repeats one that fails, so `PulledEventually` promises nothing to a
server without a timer. `Search`: weak fairness of the search. `Startup`: weak fairness of a
server's own steps and of its supervisor starting it again, strong fairness of
the advisory lock, which PostgreSQL grants in the order of the requests; saves,
crashes and shutdowns are not fair. `PolyVault`, `Rebase` and `VaultStore` have no
fairness and no liveness property: a lost request may never arrive, and commands
run when a user runs them.

## 5. Proofs

Eight modules prove theorems for all values of the constants
that the named assumptions of the modules allow (typing facts
about the constants, that the values for "none" are not among the others,
that a batch names each id once; TLC evaluates them in the runs):

| theorem | what it says |
|---|---|
| `ConceptStore_proofs!TypeCorrect` | Every variable keeps its type, no call makes more than MaxAttempts attempts, and a call's locals stay in request order. |
| `InvCorrect` | The inductive invariant: the vector index mirrors the rows, every planned write is what the rules make of the row it was read against, and versions only grow while a concept lives. |
| `RestoreIsNewerCorrect` | A restored record replaces a concept with a later `updated_at`, and under the policy `newer` only if it is newer than the row at the moment of the commit. |
| `VersionNamesRowCorrect` | The adapters' version check is a compare-and-swap of the whole row, except across a deletion and a re-creation. |
| `SaveActsAtOnceCorrect` | A batch is saved as if at the moment of its commit, for any number of clients, entries and attempts. |
| `AuthoredContentKeptCorrect` | Authored content becomes machine-made only by a call whose caller asked to overwrite it; of a re-embedding that is the option of `reembed`, not the flag of its inner save. |
| `CallerGuardsHoldCorrect` | The namespace and the version a caller named hold of the row its write replaces. |
| `FreshDerivationCorrect` | A conversion or a re-embedding never commits over a source that changed. |
| `StoreContractCorrect` | ConceptStore implements AtomicStore: initial states and steps map to initial states and to steps or stutters. |
| `PgTransaction_proofs!Invariance`, `TypeCorrect` | The locks of a transaction keep what its conditions were checked on; vectors stay in step. |
| `Atomicity` | Any number of overlapping PostgreSQL transactions: the tables change by one whole transaction at a time, whose conditions hold of the rows it replaces. |
| `ImplementsAtomicStore` | PgTransaction implements AtomicStore as well. |
| `AgentVault_proofs!TypeCorrect` (`MemorySync`) | Every variable keeps its type, and no concept is stamped ahead of the clock. |
| `PullKeepsNewerCorrect` | A pull that found a concept replaces it only if it still is what it found, and older than the entry. |
| `PullKeepsNamespaceCorrect` | No pull puts the text of one namespace into a concept of another. |
| `BranchCatchesUpCorrect` | The requests of the only server that pushes a concept bring the branch up to date, in whatever order events are handled. |
| `ArchivalTypeCorrect` (`Archival`) | Every variable keeps its type; calls hold a concept and a row exactly while they need them. |
| `OneUploadPerVersionCorrect` | A version is uploaded by one call at a time, and a call waits only for an upload that is going on. |
| `RememberedIsConfirmedCorrect` | What is remembered as archived was confirmed. |
| `PolyVault_proofs!AcceptedIsWholeCorrect` | A commit is accepted only if its chunks are those of one serialization, whatever requests are lost or late. |
| `WholeUnlessRerunCorrect` | A commit stays restorable as long as its data was uploaded under one header only. |
| `RestoredIsNewestCorrect` | A restore that was not refused yields every ThoughtForm of every commit there was when it began, or a newer version, for any number of commits, chunks and pages and while others commit. |
| `Rebase_proofs!RebaseInvCorrect` | The invariant: types; a cursor is of a round that is over; an export has every commit up to the time of its last one; no commit up to a cursor is missing from the device's file. |
| `NothingMissedCorrect` | For any number of devices, edits and clocks, and after lost state files: no commit that a rebase passed over is missing from what it applied. |
| `SettledAgreeCorrect` | Devices that applied every commit and edited nothing since hold the same ThoughtForm, in whatever batches they applied them. |
| `EditsKeptCorrect` | A rebase or merge replaces an edit only by one the policy prefers to it. |
| `VaultStore_proofs!NewerKeptCorrect` | The importer replaces a newer concept only if a server saved it between the importer's read and its write. |
| `RestoreConvergesCorrect` | A restore that ended has left every concept no server wrote since as its bundle has it last, or as it was when that was newer, however often it was cut off. |
| `UntouchedInBackupCorrect` | A concept nobody wrote while a backup counted and read the store page by page is in the backup, for any page size and order of equals, unless a concept left its place in the list, the last page was cut from more than its count has, or a page ended among the concepts of its `updated_at`. |
| `Server_proofs!TypeCorrect` (`Startup`) | Every variable keeps its type. |
| `ServedIsMigratedCorrect` | However many servers migrate one store, crash and start again: when one serves, every concept is as 3.0 keeps it, except that on Postgres a 2.x concept with an outdated entry in the vector index keeps that entry until it is saved. |
| `MigrationKeepsSavesCorrect` | No migration changes a concept that a server has saved. |
| `TokenSharedCorrect` | All servers that serve accept the token in the file. |
| `BackupTypeCorrect` (`AutoBackup`) | Every variable keeps its type, the counter stays below the threshold, and every flush that runs and every save announced and not taken has its place in the chain. |
| `BackupEveryNCorrect` | A server that has the database to itself never leaves N saves without a backup once its flushes have settled, whatever it saves and deletes during an export. |
| `PruningKeepsCoverageCorrect` | Pruning by name loses no save, for any number of servers and backups, if no more backups of a server are stamped alike than are retained (`SameStamp <= Retain`). |
| `Search_proofs!TypeCorrect` | Every variable keeps its type. |
| `NearestFoundCorrect` | No concept that fits, nobody wrote and is nearer than the k-th result is missing, for any store, k and number of widenings, unless the cap was reached or the exact recount was misled. |
| `ResultsComparableCorrect` | A returned concept that nobody wrote fits what was asked for, and its vector is of the server's model. |

`ConceptStore`. The invariant `ConceptInv`, which `concept_writes` checks too, is inductive and
has five parts: `TypeOK`; `IndexInStep` (the vector index is the vectors of the
rows); `InOrder` (what a call has planned and what is left are a prefix and the
rest of its request, in order); `PlannedByTheRules` (each planned write is what
the rules make of its item and of the row it was read against, whatever the
store holds now); and `VersionsGrow` (the row a write was planned on is the
current one or has a lower version, within one life of the concept).
`IndexInStep` alone is not inductive: a commit keeps it only because each planned
write came from the rules, and those make one write of the item at the same place
of the request, which is `InOrder`. `VersionsGrow` turns the adapters' comparison
of version numbers into a compare-and-swap of the row (`VersionNamesRow`), from
which `SaveActsAtOnce` and `CallerGuardsHold` follow. `FreshDerivation` and
`AuthoredContentKept` need one invariant more, `SourcesGrow`: while the version a
derivation is conditional on is current, the source it read is unchanged and,
unless its caller asked to overwrite, what it replaces is not authored. A
re-embedding's inner save always overwrites (`concept.service.ts:940`), so only
that version keeps it from replacing a vector authored after its read.
`RestoreIsNewer` reads off the plan that a record was let through against the
very row it replaces (`RestorePlan`). The constants' assumption says that the
records of a file name each concept once, which makes what an import keeps of
it a batch (`ImportedType`). The proof has a step per action and a lemma per
action that touches the table.
The refinement of `AtomicStore` is two facts: initial states map to initial
states, and each step to a step or a stutter.

`PgTransaction`. The invariant `PgInv`, which `pg_transaction` checks too, says
where a transaction is in the loop over its writes (`InLoop`) and what the
writes done so far have left (`Isolated`): each has locked its row, whose
*committed* version still meets the condition, and has prepared exactly the row
that its plan asks for; what no statement has touched is `Clean`. Without the
last part a commit could bring along a row nobody planned; without the ids of a
batch being distinct (`InLoop`) a second statement would overwrite the first. A
step of one transaction keeps the other's part because it only locks what is
free (`OthersKeep`), and a commit changes only rows that its transaction has
locked. `AppliesAtOnce` is then what `Commit` does (`CommitApplies`), and the
refinement follows because a transaction is a single deletion or none.

`MemorySync`. `SyncInv` adds three parts to `DataTyped`, which is `TypeOK` without
the servers that are still to pull. `FoundNames`: within one
life of a concept, the version that a pull found names the row it found, or a
later one is there; it makes the version check of the save a check of the row,
and needs every action that writes to raise the version (`FoundNamesAfterWrite`).
`LivesCounted`: an announced deletion belongs to an earlier life of what the
store has. `InTransit`: of a concept with one pusher and no fault, what the store
holds is on the branch, in the last request under way, or still announced; it is
what `BranchCatchesUp` says, for every moment and not only for quiet ones.

`Archival`. `ArchivalInv` is `ArchivalTypeOK` and the two properties: together they are
inductive, because `OneUploadPerVersion` ties every slot to one call that uploads
for it, and a settled upload frees its slot and its waiters in one step.

`PolyVault`. `VaultInv` says what the canister stores and what each run and each
late request has sent. A chunk that was seen has an entry in the chunk index and
a chunk is stored in its place (`Indexed`); two chunks seen for one place made
two entries (`IndexedApart`). A run that finalizes, and a late finalization, has
had every chunk of its serialization seen (`Uploading`, `Fits`). The canister
counts: as many entries as places, and every place among them, so no place has
two (`OntoIsOneToOne`), hence no two chunks were seen for a place, and what is
stored is what the run sent (`CompleteIsWhole`). That the sorted listing then is
the chunks in order is a count as well (`RankIsValue`), which is why
`ChunkListing` sorts by rank. After the commit, a chunk under its own header was
seen before and changes nothing (`CommittedWhole`, `PutStores`).

`RestoredIsNewest` rests on `RestoreInv`: of a restore that was not refused, each
commit of `base` is still to be listed, listed and still to be fetched, or covered
by what was extracted. While it lists, the pages so far are in the order of the
listing and whatever is not among them comes after the cursor (`Reached`). That a
page keeps this while others commit is `PageReaches`: the listing holds each
commit once, at its rank (`Ranked`, `ListingInOrder`), and the next page starts
right after the cursor's commit, which is still listed (`CursorIsLast`). A commit
of the same millisecond may still arrive in front of the cursor and be missed, but
it is not in `base`. Since the pages are in order, sorting them again
changes nothing (`SortedStays`). `Merge` keeps a newest version of each id
(`NewestExists`: `Newer` is an order and a data set is finite), so a covered data
set stays covered (`MergeKeepsNewest`). The assumption on `Content` says that the
ThoughtForms of a data set are finitely many records with a time and a hash.

`Rebase`. `RebaseInv` adds to the types that cursors belong to rounds that are over
(`CursorsPast`) and that an export has every commit up to the time of its last one
(`ExportsWhole`); with both, what a rebase takes for new is all that its cursor is
not past, and `NothingMissed` is kept. `Delta` is a newest version of each id
(`DeltaIsNewest`, by the existence of maximal elements in finite orders), so files
only grow (`FilesGrow`). `SettledAgree` is then the uniqueness of the newest.

`VaultStore`. `ImportInv` is the part of the type invariant that the importer
needs, and `ReadHolds`: before it writes, the row it read was not newer, and is
still there unless a server wrote since. `ConvergeInv`, for restores that end,
says where a concept no server wrote comes from (`FromBundle`: the first store, or
an entry that found nothing newer) and what the importer has done with the entries
it is past (`PastDone`: nothing older is left, and of one time only what the
bundle has later); at the end of the bundle the two leave one value, the last of
the newest (`LatestIsLast`). A crash forgets `PastDone` and keeps `FromBundle`.
`BackupInv` is `Awaited`: until the reader is through, a concept nobody wrote is in
the backup, in the page that is fetched, or has at least `offset` newer ones ahead
of it while more is to be read (`More`). The newer ones only grow unless one leaves
its place (`PlacesStay`), which is `slid`. A page takes every concept with fewer
than its end and at least its start ahead, whatever order it lists equals in, if
the concepts that are not older fit before its end (`NewestCut`); if they do not,
the concept has as many ahead as the page's end, or the page ended among its equals
(`split`). Paging ends when the count is reached, and then nothing can have as many
ahead, unless there are more than counted (`grown`).

`Startup`. `StartupInv` adds to `TypeOK`: migrations are recorded in order, and a
server is past those it went through (`DoneInOrder`); what a migration has looked
up still is so, the rows as long as it is not done, because it holds the lock and
nobody serves yet (`LookIsFresh`); saves come after the last migration
(`SavedAfter`); every row is as the recorded migrations leave it
(`RowsMigrated`); one server at most writes the token file, which is never changed
again (`TokenInv`). `MigrationKeepsSaves` rests on the
lock being taken before the look: a server serves only after all three
migrations, so one that finds rows saved finds its migration done.

`AutoBackup`. `BackupTyped` adds to the types that what is owed, the saves of the
batches still to be announced, is finite and in the store (`OwedSaves`), and that
every save announced and not taken has a flush of its own behind the one that runs
(`Chained`): so a server without a flush has nothing untaken. Two invariants rest
on it. `Counted`, for a server alone, bounds the number of uncovered saves by what
is counted in the database, taken by the flush, announced and owed; between
`ListIds` and `WriteFile` it bounds those that the export has missed (`Missed`:
the row was read before the save) by what was announced or owed since. Batches
are sets of saves, so that the sum over them is the size of a union, a new batch is
disjoint from what is owed (`SavesOfBatch`), and no induction is needed. A failure
excuses all saves so far (`CountedExcused`); with a second server the bound is
false, because the counter that a flush has read may be overwritten.
`Covered` says that files and exports are never ahead of the store (`Past`), that
an export has read of every concept it is past no less than any file holds
(`Reading`), and that from `WriteFile` to `Prune` one of the `SameStamp` last files
covers all others (`Written`), whence `SameStamp <= Retain` keeps it.

`Search`. `SearchInv` adds to `TypeOK` and the two properties: hits are hits that
fitted at some time, one of each concept, and enough rows are asked for
(`Bounded`); what fits and was there when vectors were counted is of the server's
model (`Counted`); a hit of a concept nobody wrote is what the store holds
(`Current`); and when the scanning stops, what was not found need not be (`Whole`:
k hits come before it, the cap was reached, or a deletion misled the recount). That
a scan cut at `fetch` leaves out only what enough hits come before is a count of
ranks, as is that the first k by rank are the k nearest.

All inductive invariants were model-checked before they were proved. Every safety
property of a passing run is a theorem, except that `BackupEveryN` is proved for
one server and `PruningKeepsCoverage` for `SameStamp <= Retain`: the run has both,
and without them the code does not keep them (section 6, and `AutoBackup` in
section 2). Only model-checked is

- liveness (`EveryCallReturns`, `TransactionsEnd`, `FlushesSettle`,
  `LastVersionArchived`, `PulledEventually`, `SearchEnds`, `StartsInTheEnd`), which
  is beyond the prover under fairness.

## 6. What the checks found

One statement of the repository is refuted by a run and listed under `findings`
in `PROJECT.json`. *A repeated backup adds no storage*
(`vault_rerun`). A second run of the same data is serialized differently, so its
chunks have new idempotency keys; they replace stored chunks and lengthen the
index of a commit that exists, which can then not be restored.

What else was met while modelling, and how the properties deal with it. Where a
property makes an exception, this is the exception's reason.

- *Re-embedding.* `reembed` checks before it embeds that a vector is not authored
  or that `overwrite` was asked for, and then saves with `overwrite: true` and the
  version it read (`concept.service.ts:906-914`, `:940`). A concept that is
  deleted and created again meanwhile, up to the same version, loses an authored
  vector to a caller who did not ask for that: `AskedToOverwrite` excepts a
  re-embedding read in an earlier life.
- *Backups of another model.* A file is labelled with the model of the server that
  wrote it (`services/backup.service.ts`, `buildBackup`), also when it holds vectors
  that another model made; an import by a server with the labelled model then
  stamps them with its own (`Stamped`), although the comment in `restore`
  says that only vectors of the configured model are kept. The model's restores
  have one model per file.
- *Concepts.* A version names a row within one life only: a concept that is
  deleted and created again passes the version check of a merge planned on its
  earlier life, whose tags are then merged into the new one (`README.md:194`:
  writes never lose a concurrent writer's changes). `VersionNamesRow` and
  `PullKeepsNewer` except it. A save reads the clock before the row
  (`concept.service.ts:378`), so one that merges on top of a later one moves
  `updated_at` back: the code promises otherwise for restores only
  (`RestoreIsNewer`).
- *Auto-backup.* Servers that share a database overwrite each other's counts
  (`README.md:414`: a full backup after every N saves); `backup` runs one server.
- *Archival.* An old upload that is confirmed late sets the remembered version
  back, and the newer one is uploaded once more
  (`archival.connector.ts:91`); `OneUploadPerVersion` is about uploads going on.
- *PolyVault.* A run that failed half way and is run again (runbook, line 60)
  leaves an index with more entries than chunks, and its commit is refused for
  good. A caller who is off the read list gets an empty last page, so a restore
  reports that there is nothing rather than the authorization code of the
  runbook (line 11); `RestoredIsNewest` excepts it (`denied`). A refused chunk is
  tried again and reported as a network failure. The stores of the canister and
  its lists are not stable variables.
- *Memory sync.* A failed read counts as "not there", as does a concept created
  after the read; the save then carries no version and replaces whatever is
  there, newer or not (`memory-sync.connector.ts:32-35`, `:102`): hence
  `found # None` in `PullKeepsNewer`. An import stamps the clock of now, so two
  servers that push and pull echo each other's imports. The CLI pushes every
  concept without looking at the branch, and a lost tombstone brings a concept
  back with the next pull. By default (`pullIntervalMs` 0) a server pulls only
  when it starts: what reaches the branch later is not imported before a restart
  or a tool call.
- *Rebase.* With a state file lost, `preferRemote` and a preferred `onchain`
  origin apply old commits over later edits again
  (`commands/polyvault/rebase.ts:173-175`); `EditsKept` promises nothing under
  these options. `runMerge` does not compare `contentHash` with the content. The
  model takes `out` to be `local`; without `out` the cursor moves on while the
  file does not.
- *Importer.* A save between the importer's read and its write is lost
  (`sqlite-upsert.ts:51-52`), which is `missed` in `NewerKept`; an updated concept
  keeps its old vector (`e2e.ts:39`). An insert of a concept that was created
  since fails the restore with the earlier rows kept. A backup may lose a
  concept nobody touched in three ways, each excepted in `UntouchedInBackup`: a
  deletion, or a row stamped back, during paging moves those behind it past the
  page (`slid`); what is created between the count and the page that reaches it
  pushes the oldest past the last page (`grown`, `db/postgres-adapter.ts:383-399`,
  `db/sqlite-adapter.ts:347-355`); and of concepts with one `updated_at`, as the
  entries of a batch have, two pages may each leave the same one to the other
  (`split`, `db/postgres-adapter.ts:396`).
- *Search.* On Postgres a deletion between a short scan and its count makes the
  scan pass for whole (`Lost` in `NearestFound`). A concept that another model
  saves between the count of foreign vectors and the scan is ranked
  (`README.md:232`), and one that is deleted and created again may be returned
  from another namespace (`concept.service.ts:862` reads by id alone);
  `ResultsComparable` is about concepts that nobody wrote meanwhile.
- *Startup.* On Postgres, tags that are an array with elements that are not texts
  are left as they are (`postgres-adapter.ts:560`), although `MIGRATION.md:31` has
  both backends rewrite every value that is not an array of strings
  (`NotNormal`); an index entry of a row without a vector stays as well. Both are
  states that a 2.x store need not be able to reach. The migration also leaves an
  entry that the index has (`postgres-adapter.ts:190`; `MIGRATION.md:27` promises
  no more), although a 2.x row that was updated, and whose second vector write was
  lost, has its older vector there and is found by it until it is saved again;
  `ServedIsMigrated` excepts it. A process that dies between creating the token
  file and writing it leaves an empty file, which refuses every later start;
  `StartsInTheEnd` excepts it.

## 7. Not modelled

- `list`, `getStats`, `read` and the health endpoint: single queries that keep
  nothing. Searches over all namespaces and unfiltered HNSW scans.
- Validation, schemas and formatting of the MCP tools; configuration, logging
  and arguments of the commands.
- Sealing, encryption, compression and hashing (a hash is the value hashed); the
  wallet and the HTTP requests behind an upload or a commit, beyond being late,
  lost or failing; HTTP sessions, which are the MCP SDK's.
- The embedder, the LLM, the judge and the NLP rules beyond "returns a value or
  throws". The lazy load of the embedder is its only state; a second load yields
  the same extractor.
- `get_chunk` of the canister, which no client calls, and what an upgrade of the
  canister keeps.
- A process that dies between the statements of one SQLite transaction: SQLite's
  affair. 2.x servers that write to a store which 3.0 has migrated.

## 8. Plan

What is left, in the order of its worth: clocks that differ in `MemorySync`;
searches over all namespaces; the embedder's lazy load shared by concurrent
callers.
