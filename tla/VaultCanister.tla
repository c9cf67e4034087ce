---------------------------- MODULE VaultCanister ----------------------------
(***************************************************************************)
(* The PolyVault canister (StableStore): chunks, idempotency keys, the     *)
(* chunk index and the commits, and what an upload, a finalization and the *)
(* two paginated queries do.  The canister runs one call at a time.        *)
(*                                                                         *)
(* A backup of a data set has one dedupe key, hence one bundle id and one  *)
(* commit id: all three are the data set's number here, by which commit    *)
(* ids are also ordered.  A hash is the value that is hashed.              *)
(***************************************************************************)
EXTENDS Integers, SequencesExt

CONSTANTS
  DataSets,     \* sets of ThoughtForms that are backed up: numbers
  ChunkCount,   \* how many chunks the bundle of a data set has
  Stamps,       \* what else two serializations of a data set may differ in
  PageSize,     \* commits, or chunks, in a page of a query
  MaxClock,     \* bound on the canister's clock
  MaxGrants,    \* bound on changes of the allow lists
  None          \* no chunk, no commit, no cursor

ASSUME CanisterAssumption ==
  /\ DataSets \subseteq Nat \ {0}
  /\ ChunkCount \in [DataSets -> Nat \ {0}]
  /\ Stamps \subseteq Nat \ {0}
  /\ PageSize \in Nat \ {0}
  /\ MaxClock \in Nat /\ MaxGrants \in Nat
  /\ None \notin DataSets \cup Nat

ChunksOf(d) == 0 .. ChunkCount[d] - 1

(* What the bytes of a chunk depend on besides its data set and index: the *)
(* parent commit and the stamp of the serialization, or 0 for parts of     *)
(* them that the chunk does not depend on.                                 *)
Headers == [parent : DataSets \cup {None, 0}, stamp : Stamps \cup {0}]
Chunk == [header : Headers, index : Nat]

VARIABLES
  chunks,    \* chunks[d]: the chunk stored at each index, or None
  keys,      \* keys[d]: the idempotency keys seen
  index,     \* commitChunkIndex: the chunk keys of a commit, in order of arrival
  commits,   \* the commit of each data set, or None
  clock,     \* Time.now()
  writer,    \* whether the client may write: it is the owner, or on the list
  reader,    \* whether it may read
  grants     \* changes of the lists so far

access == <<writer, reader, grants>>
canister == <<chunks, keys, index, commits>>

CanisterInit ==
  /\ chunks = [d \in DataSets |-> [k \in ChunksOf(d) |-> None]]
  /\ keys = [d \in DataSets |-> {}]
  /\ index = [d \in DataSets |-> <<>>]
  /\ commits = [d \in DataSets |-> None]
  /\ clock = 1
  /\ writer = TRUE /\ reader = TRUE /\ grants = 0

Tick == clock < MaxClock /\ clock' = clock + 1 /\ UNCHANGED <<canister, access>>

(* set_allowlist and set_read_allowlist, called by the owner.              *)
SetAllowlist ==
  /\ grants < MaxGrants
  /\ \/ writer' = ~writer /\ UNCHANGED reader
     \/ reader' = ~reader /\ UNCHANGED writer
  /\ grants' = grants + 1
  /\ UNCHANGED <<canister, clock>>

(* Mistake: every call stores its chunk, also one that was seen before.    *)
PutChunkAgain(d, chunk) ==
  /\ chunks' = [chunks EXCEPT ![d][chunk.index] = chunk]
  /\ keys' = [keys EXCEPT ![d] = @ \cup {chunk}]
  /\ index' = [index EXCEPT ![d] = Append(@, chunk.index)]
  /\ UNCHANGED <<commits, clock, access>>

(* put_chunk: the idempotency key is the hash of commit id, index and      *)
(* chunk hash.  A new key stores the chunk and adds an entry to the index. *)
PutChunk(d, chunk) ==
  /\ IF chunk \in keys[d] THEN UNCHANGED <<chunks, keys, index>>
     ELSE /\ chunks' = [chunks EXCEPT ![d][chunk.index] = chunk]
          /\ keys' = [keys EXCEPT ![d] = @ \cup {chunk}]
          /\ index' = [index EXCEPT ![d] = Append(@, chunk.index)]
  /\ UNCHANGED <<commits, clock, access>>

(* Mistake: more chunks than expected are no reason to refuse a commit.    *)
CompleteIfEnough(d) ==
  /\ Len(index[d]) >= ChunkCount[d]
  /\ ChunksOf(d) \subseteq Range(index[d])

(* The chunk index of a commit holds exactly the chunks that are expected. *)
Complete(d) ==
  /\ Len(index[d]) = ChunkCount[d]
  /\ ChunksOf(d) \subseteq Range(index[d])

(* finalize_commit: the dedupe key decides first, then the chunks.  Commit *)
(* id and dedupe key go together, so a commit that exists is a duplicate.  *)
Verdict(d) ==
  IF commits[d] # None THEN "duplicate" ELSE IF Complete(d) THEN "ok" ELSE "error"

Finalize(d, parent, manifest) ==
  /\ IF Verdict(d) = "ok"
     THEN commits' = [commits EXCEPT ![d] = [id |-> d, parent |-> parent,
                                             created |-> clock, manifest |-> manifest]]
     ELSE UNCHANGED commits
  /\ UNCHANGED <<chunks, keys, index, clock, access>>

-----------------------------------------------------------------------------
(* Queries.  A caller who may not read is answered as if there were        *)
(* nothing.                                                                *)

Readable(s) == IF reader THEN s ELSE <<>>

Before(a, b) == a.created < b.created \/ (a.created = b.created /\ a.id < b.id)

Committed == {commits[d] : d \in {e \in DataSets : commits[e] # None}}

(* get_latest_commit: nothing for a caller who may not read.               *)
Latest == IF ~reader \/ Committed = {} THEN None
          ELSE (CHOOSE a \in Committed : \A b \in Committed : a = b \/ Before(b, a)).id

(* A page of a sequence, and whether anything follows it.                  *)
Page(s, from) ==
  SubSeq(s, from, IF from + PageSize > Len(s) THEN Len(s) ELSE from + PageSize - 1)

(* Mistake: the last commit is not worth a page of its own.                *)
MoreThanOne(s, from) == from + PageSize < Len(s)

More(s, from) == from + PageSize - 1 < Len(s)

Since(since) == {r \in Committed : r.created > since}

(* How many of the commits after since come before r.                      *)
Earlier(since, r) == Cardinality({q \in Since(since) : Before(q, r)})

Listing(since) ==
  [n \in 1 .. Cardinality(Since(since)) |->
     CHOOSE r \in Since(since) : Earlier(since, r) = n - 1]

(* list_commits: the commits after since in the order of Before, starting  *)
(* after the cursor if it is listed.                                       *)
ListFrom(since, cursor) ==
  LET found == {i \in DOMAIN Listing(since) : Listing(since)[i].id = cursor}
  IN  IF found = {} THEN 1 ELSE 1 + CHOOSE i \in found : TRUE

(* How many entries of the chunk index come before entry i, by index.      *)
Ahead(d, i) ==
  Cardinality({j \in DOMAIN index[d] :
                 index[d][j] < index[d][i] \/ (index[d][j] = index[d][i] /\ j < i)})

(* get_chunks_for_commit: the indexed chunks, sorted by index.             *)
ChunkListing(d) ==
  [n \in DOMAIN index[d] |->
     LET i == CHOOSE i \in DOMAIN index[d] : Ahead(d, i) = n - 1 IN chunks[d][index[d][i]]]
=============================================================================
