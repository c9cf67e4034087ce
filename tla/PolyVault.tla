------------------------------ MODULE PolyVault ------------------------------
(***************************************************************************)
(* Backups and restores of PolyVault: runs of runBackup that serialize a   *)
(* data set, upload its chunks one by one with retries and finalize the    *)
(* commit, and a runRestore that lists commits and fetches their chunks    *)
(* page by page, over a network that loses requests and replies.           *)
(***************************************************************************)
EXTENDS VaultCanister

CONSTANTS
  Runs,         \* backup runs that may overlap
  Content,      \* the ThoughtForms of each data set: [id, at, hash]
  Alike,        \* chunk indexes whose bytes depend on the data alone
  Attempts,     \* attempts to upload a chunk (retryAttempts)
  MaxRuns,      \* bound on the number of runs
  MaxRestores   \* bound on the number of restores

ASSUME VaultAssumption ==
  /\ Alike \subseteq Nat
  /\ Attempts \in Nat \ {0} /\ MaxRuns \in Nat /\ MaxRestores \in Nat
  /\ \A d \in DataSets :
       /\ IsFiniteSet(Content[d]) /\ None \notin Content[d]
       /\ \A t \in Content[d] :
            /\ t = [id |-> t.id, at |-> t.at, hash |-> t.hash]
            /\ t.at \in Nat /\ t.hash \in Nat

VARIABLES
  pc,        \* where each run is
  data,      \* the data set it backs up
  header,    \* what its serialization depends on: the parent and a stamp
  next,      \* the index of the chunk it uploads
  tries,     \* attempts to upload that chunk so far
  runs,      \* number of runs so far
  late,      \* requests that were not answered and may still arrive
  writers,   \* history: the headers under which each data set was uploaded
  rpc,       \* where the restore is
  since,     \* sinceCommitCreatedAtMs
  listed,    \* the commits fetched
  got,       \* the chunks fetched of the first of them
  out,       \* the ThoughtForms extracted, newest of each id
  base,      \* history: the commits there were when the restore began
  denied,    \* history: the restore asked while it might not read
  restores   \* number of restores so far

run == <<pc, data, header, next, tries, runs, late, writers>>
restore == <<rpc, since, listed, got, out, base, denied, restores>>
vars == <<canister, clock, access, run, restore>>

Thoughts == UNION {Content[d] : d \in DataSets}
ThoughtIds == {t.id : t \in Thoughts}

(* What a chunk past the header depends on, keys being sorted: not on the   *)
(* stamp, and on the parent only as its presence shifts the bytes.         *)
Independent(h) == [parent |-> IF h.parent = None THEN None ELSE 0, stamp |-> 0]

(* The chunk at index k of what is serialized, compressed and encrypted.   *)
(* Only without the latter two may a chunk be the same in every run.       *)
Bytes(h, k) == [header |-> IF k \in Alike THEN Independent(h) ELSE h, index |-> k]

(* reassembleChunks, decoding and the check of the manifest hash: exactly  *)
(* the chunks of the serialization that was committed.                     *)
Intact(fetched, commit) ==
  fetched = [i \in 1 .. ChunkCount[commit.id] |-> Bytes(commit.manifest, i - 1)]

Restorable(d) == Intact(ChunkListing(d), commits[d])

Init ==
  /\ CanisterInit
  /\ pc = [r \in Runs |-> "idle"]
  /\ data = [r \in Runs |-> None]
  /\ header = [r \in Runs |-> None]
  /\ next = [r \in Runs |-> 0]
  /\ tries = [r \in Runs |-> 0]
  /\ runs = 0
  /\ late = {}
  /\ writers = [d \in DataSets |-> {}]
  /\ rpc = "idle"
  /\ since = 0
  /\ listed = <<>>
  /\ got = <<>>
  /\ out = [i \in ThoughtIds |-> None]
  /\ base = {}
  /\ denied = FALSE
  /\ restores = 0

-----------------------------------------------------------------------------
(* runBackup                                                               *)

Goto(r, where) == pc' = [pc EXCEPT ![r] = where]

EndRun(r) ==
  /\ Goto(r, "idle")
  /\ data' = [data EXCEPT ![r] = None]
  /\ header' = [header EXCEPT ![r] = None]
  /\ next' = [next EXCEPT ![r] = 0]
  /\ tries' = [tries EXCEPT ![r] = 0]

(* Read the input and build the bundle, with the latest commit as parent   *)
(* (none if asking for it fails) and a stamp: the time, and the nonce of   *)
(* an encrypted payload.                                                   *)
StartRun(r) ==
  /\ pc[r] = "idle"
  /\ runs < MaxRuns
  /\ \E d \in DataSets, parent \in {Latest, None}, stamp \in Stamps :
       /\ data' = [data EXCEPT ![r] = d]
       /\ header' = [header EXCEPT ![r] = [parent |-> parent, stamp |-> stamp]]
  /\ Goto(r, "upload")
  /\ runs' = runs + 1
  /\ UNCHANGED <<canister, clock, access, restore, next, tries, late, writers>>

(* A request of a run: a chunk, or the finalization of the commit.  The    *)
(* canister executes it when it arrives.                                   *)
Request(d, h, chunk) == [of |-> d, header |-> h, chunk |-> chunk]

Execute(request) ==
  LET d == request.of
      h == request.header
  IN  IF request.chunk = None
      THEN Finalize(d, h.parent, h) /\ UNCHANGED writers
      ELSE /\ PutChunk(d, Bytes(h, request.chunk))
           /\ writers' = [writers EXCEPT ![d] = @ \cup {h}]

(* A request is executed and answered, or it is not answered: then it may  *)
(* arrive at any time, at once or never, and the run does not know.        *)
Answered(request) == writer /\ Execute(request) /\ UNCHANGED late
Unanswered(request) ==
  late' = late \cup {request} /\ UNCHANGED <<canister, clock, access, writers>>

(* The canister answers "Unauthorized", which is tried again like the rest. *)
Refused == ~writer /\ UNCHANGED <<canister, clock, access, late, writers>>

Arrive ==
  /\ \E request \in late :
       /\ late' = late \ {request}
       /\ IF writer THEN Execute(request) ELSE UNCHANGED <<canister, clock, access, writers>>
  /\ UNCHANGED <<restore, pc, data, header, next, tries, runs>>

LastAttempt(r) == tries[r] + 1 = Attempts

(* One attempt to upload a chunk.  Without an answer the attempt is        *)
(* repeated or, after the last one, the run fails.                         *)
Upload(r) ==
  /\ pc[r] = "upload"
  /\ LET request == Request(data[r], header[r], next[r])
     IN  \/ /\ Answered(request)
            /\ next' = [next EXCEPT ![r] = @ + 1]
            /\ tries' = [tries EXCEPT ![r] = 0]
            /\ Goto(r, IF next[r] + 1 = ChunkCount[data[r]] THEN "finalize" ELSE "upload")
            /\ UNCHANGED <<data, header>>
         \/ /\ Unanswered(request) \/ Refused
            /\ IF LastAttempt(r) THEN EndRun(r)
               ELSE /\ tries' = [tries EXCEPT ![r] = @ + 1]
                    /\ UNCHANGED <<pc, data, header, next>>
  /\ UNCHANGED <<restore, runs>>

(* Finalize the commit: one attempt, whatever the answer is.               *)
FinalizeRun(r) ==
  /\ pc[r] = "finalize"
  /\ LET request == Request(data[r], header[r], None)
     IN  Answered(request) \/ Unanswered(request) \/ Refused
  /\ EndRun(r)
  /\ UNCHANGED <<restore, runs>>

-----------------------------------------------------------------------------
(* runRestore                                                              *)

Newer(t, u) == t.at > u.at \/ (t.at = u.at /\ t.hash > u.hash)

(* De-duplication by id: the newest wins.                                  *)
Merge(extracted, ts) ==
  [i \in ThoughtIds |->
     LET versions == {t \in ts \cup {extracted[i]} : t # None /\ t.id = i}
     IN  IF versions = {} THEN None
         ELSE CHOOSE t \in versions : \A u \in versions : t = u \/ Newer(t, u)]

StartRestore ==
  /\ rpc = "idle"
  /\ restores < MaxRestores
  /\ \E s \in {0} \cup {r.created : r \in Committed} :
       /\ since' = s
       /\ base' = {r.id : r \in {q \in Committed : q.created > s}}
  /\ rpc' = "list"
  /\ listed' = <<>>
  /\ got' = <<>>
  /\ out' = [i \in ThoughtIds |-> None]
  /\ denied' = FALSE
  /\ restores' = restores + 1
  /\ UNCHANGED <<canister, clock, access, run>>

(* How many entries of s come before entry i, in the order of Before.      *)
Preceding(s, i) ==
  Cardinality({j \in DOMAIN s : Before(s[j], s[i]) \/ (s[j] = s[i] /\ j < i)})

Sorted(s) ==
  [n \in DOMAIN s |-> s[CHOOSE i \in DOMAIN s : Preceding(s, i) = n - 1]]

(* fetchCommits asks for a page at a time, the cursor being the last       *)
(* commit of the page before; with the last page, runRestore sorts them.   *)
Cursor == IF listed = <<>> THEN None ELSE listed[Len(listed)].id

ListPage ==
  /\ rpc = "list"
  /\ LET all == Readable(Listing(since))
         from == ListFrom(since, Cursor)
         now == listed \o Page(all, from)
     IN  IF More(all, from)
         THEN /\ listed' = now
              /\ UNCHANGED rpc
         ELSE /\ listed' = Sorted(now)
              /\ rpc' = IF now = <<>> THEN "done" ELSE "fetch"
  /\ denied' = (denied \/ ~reader)
  /\ UNCHANGED <<canister, clock, access, run, since, got, out, base, restores>>

(* fetchChunksForCommit: the chunks fetched once the next page is there.   *)
Fetched(all) == got \o Page(all, Len(got) + 1)

(* One page of the first commit that is left; with the last page it is     *)
(* decoded, and a commit that is not intact fails the restore.  A commit   *)
(* without chunks is passed over.                                          *)
FetchPage ==
  /\ rpc = "fetch"
  /\ LET commit == Head(listed)
         all == Readable(ChunkListing(commit.id))
         now == Fetched(all)
     IN  IF More(all, Len(got) + 1)
         THEN /\ got' = now
              /\ UNCHANGED <<rpc, listed, out>>
         ELSE IF now = <<>> \/ Intact(now, commit)
         THEN /\ got' = <<>>
              /\ listed' = Tail(listed)
              /\ out' = IF now = <<>> THEN out ELSE Merge(out, Content[commit.id])
              /\ rpc' = IF Len(listed) = 1 THEN "done" ELSE "fetch"
         ELSE /\ rpc' = "failed"
              /\ UNCHANGED <<got, listed, out>>
  /\ denied' = (denied \/ ~reader)
  /\ UNCHANGED <<canister, clock, access, run, since, base, restores>>

(* A query fails, or the restore has returned.                             *)
EndRestore ==
  /\ rpc # "idle"
  /\ rpc' = "idle"
  /\ since' = 0
  /\ listed' = <<>>
  /\ got' = <<>>
  /\ out' = [i \in ThoughtIds |-> None]
  /\ base' = {}
  /\ denied' = FALSE
  /\ UNCHANGED <<canister, clock, access, run, restores>>

Next ==
  \/ (Tick \/ SetAllowlist) /\ UNCHANGED <<run, restore>>
  \/ \E r \in Runs : StartRun(r) \/ Upload(r) \/ FinalizeRun(r)
  \/ Arrive
  \/ StartRestore \/ ListPage \/ FetchPage \/ EndRestore

Spec == Init /\ [][Next]_vars

-----------------------------------------------------------------------------
Commit == [id : DataSets, parent : DataSets \cup {None}, created : Nat, manifest : Headers]

(* Every variable has its type; an upload stops after Attempts attempts.   *)
TypeOK ==
  /\ \A d \in DataSets :
       /\ chunks[d] \in [ChunksOf(d) -> Chunk \cup {None}]
       /\ keys[d] \subseteq Chunk
       /\ index[d] \in Seq(ChunksOf(d))
       /\ commits[d] \in Commit \cup {None}
       /\ writers[d] \subseteq Headers
  /\ clock \in Nat
  /\ pc \in [Runs -> {"idle", "upload", "finalize"}]
  /\ data \in [Runs -> DataSets \cup {None}]
  /\ header \in [Runs -> Headers \cup {None}]
  /\ next \in [Runs -> Nat]
  /\ tries \in [Runs -> 0 .. Attempts - 1]
  /\ \A request \in late : request.of \in DataSets /\ request.header \in Headers
  /\ rpc \in {"idle", "list", "fetch", "done", "failed"}
  /\ listed \in Seq(Commit)
  /\ got \in Seq(Chunk)
  /\ out \in [ThoughtIds -> Thoughts \cup {None}]
  /\ base \subseteq DataSets
  /\ writer \in BOOLEAN /\ reader \in BOOLEAN /\ denied \in BOOLEAN

(* A commit is accepted only if it can be restored at that moment, however *)
(* many runs were uploading the same data: chunks of different             *)
(* serializations never pass for a whole.                                  *)
AcceptedIsWhole ==
  [][\A d \in DataSets : commits[d] = None /\ commits'[d] # None => Restorable(d)']_vars

(* A commit stays restorable, through lost and late requests, lost replies *)
(* and repeated uploads, unless another serialization of the same data was     *)
(* uploaded too.                                                           *)
WholeUnlessRerun ==
  \A d \in DataSets :
    commits[d] # None /\ Cardinality(writers[d]) = 1 => Restorable(d)

(* A restore that succeeds misses nothing that was committed when it began *)
(* although it lists page by page while others commit, and of each id it   *)
(* yields the newest version among what it restored; unless it was taken   *)
(* off the read list meanwhile, which looks to it like nothing to restore. *)
RestoredIsNewest ==
  rpc = "done" /\ ~denied =>
    \A d \in base : \A t \in Content[d] :
      out[t.id] # None /\ ~Newer(t, out[t.id])

(* What the documents say of a backup that is repeated: it only finds the  *)
(* duplicate and adds no storage.  Then a commit can always be restored.   *)
RerunIsHarmless == \A d \in DataSets : commits[d] # None => Restorable(d)
=============================================================================
