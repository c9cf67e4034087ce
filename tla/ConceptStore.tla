---------------------------- MODULE ConceptStore ----------------------------
(***************************************************************************)
(* ConceptService over one shared store: saves, batches, restores,         *)
(* deletions, conversions and re-embeddings of several clients, each an    *)
(* optimistic writer that reads the rows it touches one await at a time,   *)
(* plans its writes (ConceptRules) and applies them in one conditional     *)
(* transaction, with the bounded retry of the service.                     *)
(*                                                                         *)
(* A client is one call in flight: a tool call in some process sharing the *)
(* store.  table and index are the store; everything else is local to a    *)
(* call, except life, a history variable.                                  *)
(***************************************************************************)
EXTENDS ConceptRules

CONSTANTS
  Clients,       \* concurrent calls
  ModelOf,       \* the embedding model of the process each call runs in
  Batches,       \* the saves clients may request: sequences of entries
  Restores,      \* the backups they may import, and how
  Conversions,   \* pairs of a source and a target representation
  Render,        \* the markdown that a ThoughtForm's text is laid out as
  MaxAttempts,   \* MAX_WRITE_ATTEMPTS
  MaxOps,        \* bound on the number of calls of a behaviour
  MaxClock       \* bound on the clock

(* A backup: its records and the model its header names; and the options   *)
(* of an import: what to do with concepts that exist, whether to derive    *)
(* the vectors anew, and the namespaces asked for and allowed.             *)
Backups == [records : Seq(Record) \ {<<>>}, model : Models, policy : Policies,
            reembed : BOOLEAN, scope : SUBSET Namespaces]

ASSUME StoreAssumption ==
  /\ ModelOf \in [Clients -> Models]
  /\ Batches \subseteq Seq(Entry) \ {<<>>}
  /\ Restores \subseteq Backups
  /\ Conversions \subseteq Reps \X Reps
  /\ Render \in [Texts -> Texts]
  /\ MaxAttempts \in Nat \ {0} /\ MaxOps \in Nat /\ MaxClock \in Nat

VARIABLES
  table,     \* the concepts table: a row or None per id
  index,     \* the vector index (concept_vectors)
  life,      \* history: how many times each id was inserted
  clock,     \* Date.now()
  pc,        \* where each call is
  work,      \* what each call was asked to do
  left,      \* the items this attempt has not read yet
  planned,   \* the writes planned in this attempt, in request order
  attempt,   \* the attempt counter of the retry loop
  started,   \* now of this attempt
  ops        \* number of calls so far

store == <<table, index, life>>
locals == <<pc, work, left, planned, attempt, started>>
vars == <<store, clock, locals, ops>>

Idle == [kind |-> "idle", items |-> <<>>, policy |-> "skip", source |-> None]

SaveOf(items) == [kind |-> "save", items |-> items, policy |-> "skip", source |-> None]
RestoreOf(records, policy) ==
  [kind |-> "restore", items |-> records, policy |-> policy, source |-> None]

(* A conversion or a re-embedding: one entry with what it was derived from *)
(* and whether the caller asked to overwrite authored content, which only  *)
(* the properties look at.                                                 *)
DerivedSave(entry, from, text, asked) ==
  [kind |-> "save", items |-> <<entry>>, policy |-> "skip",
   source |-> [rep |-> from, text |-> text, life |-> life[entry.id], asked |-> asked]]

(* A re-embedding that has listed concept i of namespace ns and not read   *)
(* it yet; its entry keeps what the caller asked.                          *)
ReembeddingOf(i, ns, overwrite) ==
  SaveOf(<<[id |-> i, ns |-> ns, expect |-> 0,
            rep |-> [r \in Reps |-> None], prov |-> [r \in Reps |-> None],
            auto |-> FALSE, overwrite |-> overwrite, tags |-> {}]>>)

DistinctIds(items) == \A i, j \in DOMAIN items : items[i].id = items[j].id => i = j

Init ==
  /\ table = [i \in Ids |-> None]
  /\ index = [i \in Ids |-> None]
  /\ life = [i \in Ids |-> 0]
  /\ clock = 0
  /\ pc = [c \in Clients |-> "idle"]
  /\ work = [c \in Clients |-> Idle]
  /\ left = [c \in Clients |-> <<>>]
  /\ planned = [c \in Clients |-> <<>>]
  /\ attempt = [c \in Clients |-> 0]
  /\ started = [c \in Clients |-> 0]
  /\ ops = 0

Tick == clock < MaxClock /\ clock' = clock + 1 /\ UNCHANGED <<store, locals, ops>>

-----------------------------------------------------------------------------
(* Mistake: what an earlier attempt planned is still there.                *)
BeginAttemptOnTop(c, n, items) ==
  /\ attempt' = [attempt EXCEPT ![c] = n]
  /\ started' = [started EXCEPT ![c] = clock]
  /\ left' = [left EXCEPT ![c] = items]
  /\ pc' = [pc EXCEPT ![c] = "plan"]
  /\ UNCHANGED planned

(* An attempt starts: it reads the clock and forgets what was planned.     *)
BeginAttempt(c, n, items) ==
  /\ attempt' = [attempt EXCEPT ![c] = n]
  /\ started' = [started EXCEPT ![c] = clock]
  /\ planned' = [planned EXCEPT ![c] = <<>>]
  /\ left' = [left EXCEPT ![c] = items]
  /\ pc' = [pc EXCEPT ![c] = "plan"]

(* A call returns or throws.                                               *)
Finish(c) ==
  /\ pc' = [pc EXCEPT ![c] = "idle"]
  /\ work' = [work EXCEPT ![c] = Idle]
  /\ left' = [left EXCEPT ![c] = <<>>]
  /\ planned' = [planned EXCEPT ![c] = <<>>]
  /\ attempt' = [attempt EXCEPT ![c] = 0]
  /\ started' = [started EXCEPT ![c] = 0]

(* A call arrives.                                                         *)
Accept(c, w) ==
  /\ pc[c] = "idle"
  /\ ops < MaxOps
  /\ ops' = ops + 1
  /\ work' = [work EXCEPT ![c] = w]
  /\ UNCHANGED <<store, clock>>

(* save and saveBatch up to the loop.  Automatic vectors are computed here *)
(* from the entries alone, so nothing of the store is read.                *)
SubmitSave(c) ==
  \E batch \in Batches :
    /\ DistinctIds(batch)
    /\ Accept(c, SaveOf(batch))
    /\ BeginAttempt(c, 1, batch)

(* The records that are restored: those in scope, but for the ones a       *)
(* re-embedding leaves without content.                                    *)
Kept(r) == {i \in DOMAIN r.records : /\ r.records[i].row.ns \in r.scope
                                     /\ r.reembed => HasText(r.records[i].row)}

(* The elements of a set of numbers in their order.                        *)
Orders(S) == {order \in [1 .. Cardinality(S) -> S] :
                \A j, k \in DOMAIN order : j < k => order[j] < order[k]}

(* import_backup and restore up to the loop: vectors of another model are  *)
(* refused, unless they are derived anew.                                  *)
SubmitRestore(c) ==
  \E r \in Restores :
    /\ \/ r.reembed \/ r.model = ModelOf[c]
       \/ \A i \in DOMAIN r.records : r.records[i].row.rep["vector"] = None
    /\ \E order \in Orders(Kept(r)) :
         LET records == [k \in DOMAIN order |->
                           [id  |-> r.records[order[k]].id,
                            row |-> Imported(r.records[order[k]].row, ModelOf[c], r.reembed)]]
         IN  /\ records # <<>> /\ DistinctIds(records)
             /\ Accept(c, RestoreOf(records, r.policy))
             /\ BeginAttempt(c, 1, records)

(* A derivation in progress: the concept was read, nothing else yet.       *)
Deriving(c) ==
  /\ pc' = [pc EXCEPT ![c] = "derive"]
  /\ UNCHANGED <<left, planned, attempt, started>>

(* Mistake: the save is not conditional on the version that was read.      *)
DerivedEntryUnconditional(i, row, to, text, from, overwrite) ==
  [id |-> i, ns |-> row.ns, expect |-> 0,
   rep |-> [r \in Reps |-> IF r = to THEN text ELSE None],
   prov |-> [r \in Reps |-> IF r = to THEN from ELSE None],
   auto |-> FALSE, overwrite |-> overwrite, tags |-> {}]

(* The save a derivation ends in, conditional on the version it read.      *)
DerivedEntry(i, row, to, text, from, overwrite) ==
  [id |-> i, ns |-> row.ns, expect |-> row.version,
   rep |-> [r \in Reps |-> IF r = to THEN text ELSE None],
   prov |-> [r \in Reps |-> IF r = to THEN from ELSE None],
   auto |-> FALSE, overwrite |-> overwrite, tags |-> {}]

(* derive: what a conversion may make of the content it reads.  A vector   *)
(* embeds the text, and a ThoughtForm is laid out as markdown.  What the   *)
(* LLM, or the NLP pipeline and its judge, find in a text is up to them,   *)
(* and so is what the LLM makes of the texts of a vector's neighbours.     *)
Derived(from, to, content) ==
  IF from = "vector" \/ to = "thoughtform" THEN Texts
  ELSE IF to = "vector" THEN {content} ELSE {Render[content]}

(* ConversionService.convert up to its save: read the concept, refuse what *)
(* the save would refuse, derive from what was read.                       *)
StartConversion(c) ==
  \E i \in Ids, conv \in Conversions, overwrite \in BOOLEAN :
    LET row == table[i]
        from == conv[1]
        to == conv[2]
    IN  /\ from # to
        /\ row # None
        /\ row.rep[from] # None
        /\ row.rep[to] = None \/ IsMachineMade(row.prov[to]) \/ overwrite
        /\ \E text \in Derived(from, to, row.rep[from]) :
             Accept(c, DerivedSave(DerivedEntry(i, row, to, text, from, overwrite),
                                   from, row.rep[from], overwrite))
        /\ Deriving(c)

(* ConceptService.reembed, for one concept: findForeignVectors finds a     *)
(* vector in the namespace that another model made.                        *)
ListForeign(c) ==
  \E i \in Ids, overwrite \in BOOLEAN :
    /\ table[i] # None
    /\ table[i].rep["vector"] # None
    /\ table[i].rep["vector"].model # ModelOf[c]
    /\ Accept(c, ReembeddingOf(i, table[i].ns, overwrite))
    /\ pc' = [pc EXCEPT ![c] = "find"]
    /\ UNCHANGED <<left, planned, attempt, started>>

(* Mistake: what is machine-made is decided from the listing alone.        *)
ReplaceableUnread(row, ns, overwrite) ==
  /\ row # None /\ row.ns = ns /\ row.rep["vector"] # None
  /\ HasText(row)

(* A row whose vector a re-embedding derives anew.                         *)
Replaceable(row, ns, overwrite) ==
  /\ row # None /\ row.ns = ns /\ row.rep["vector"] # None
  /\ HasText(row)
  /\ IsMachineMade(row.prov["vector"]) \/ overwrite

(* Then findConcept reads the row, which may have changed since.  The      *)
(* inner save overwrites always.                                           *)
ReadForeign(c) ==
  /\ pc[c] = "find"
  /\ LET asked == work[c].items[1]
         row == table[asked.id]
         from == TextRep(row)
     IN  IF Replaceable(row, asked.ns, asked.overwrite)
         THEN /\ work' = [work EXCEPT ![c] =
                   DerivedSave(DerivedEntry(asked.id, row, "vector", row.rep[from], from, TRUE),
                               from, row.rep[from], asked.overwrite)]
              /\ Deriving(c)
         ELSE Finish(c)
  /\ UNCHANGED <<store, clock, ops>>

(* The derivation is done: the call enters the save loop.                  *)
EndDerivation(c) ==
  /\ pc[c] = "derive"
  /\ BeginAttempt(c, 1, work[c].items)
  /\ UNCHANGED <<store, clock, work, ops>>

-----------------------------------------------------------------------------
(* The planning loop: one findConcept per item, in request order.  Once    *)
(* every item was read, the writes are applied; a restore that left every  *)
(* record alone has none and returns.                                      *)
Plan(c, plan) ==
  LET more == Len(left[c]) > 1
  IN  IF ~more /\ plan = <<>> THEN Finish(c)
      ELSE /\ planned' = [planned EXCEPT ![c] = plan]
           /\ left' = [left EXCEPT ![c] = Tail(@)]
           /\ pc' = [pc EXCEPT ![c] = IF more THEN "plan" ELSE "apply"]
           /\ UNCHANGED <<work, attempt, started>>

(* A planned write keeps the item it is for and the life of the row read.  *)
Planned(item, write) == [item |-> item, write |-> write, life |-> life[write.id]]

PlanSave(c) ==
  /\ pc[c] = "plan"
  /\ work[c].kind = "save"
  /\ LET e == Head(left[c])
         row == table[e.id]
     IN  IF Rejected(e, row)
         THEN Finish(c)
         ELSE Plan(c, Append(planned[c],
                             Planned(e, SaveWrite(e, row, ModelOf[c], started[c]))))
  /\ UNCHANGED <<store, clock, ops>>

PlanRestore(c) ==
  /\ pc[c] = "plan"
  /\ work[c].kind = "restore"
  /\ LET record == Head(left[c])
         row == table[record.id]
     IN  Plan(c, IF Skipped(record, row, work[c].policy) THEN planned[c]
                 ELSE Append(planned[c], Planned(record, RestoreWrite(record, row))))
  /\ UNCHANGED <<store, clock, ops>>

-----------------------------------------------------------------------------
(* applyWrites: every precondition holds and all writes are applied, or    *)
(* nothing is.                                                             *)
Failing(c) == {k \in DOMAIN planned[c] :
                 LET w == planned[c][k].write IN ~Applies(w, table[w.id])}

Commit(c) ==
  /\ pc[c] = "apply"
  /\ Failing(c) = {}
  /\ LET ws == planned[c]
         at(i) == {k \in DOMAIN ws : ws[k].write.id = i}
         write(i) == ws[CHOOSE k \in at(i) : TRUE].write
     IN  /\ table' = [i \in Ids |-> IF at(i) = {} THEN table[i]
                                   ELSE AppliedRow(write(i), table[i])]
         /\ index' = [i \in Ids |-> IF at(i) = {} THEN index[i]
                                   ELSE AppliedIndex(write(i), index[i])]
         /\ life' = [i \in Ids |-> IF at(i) # {} /\ table[i] = None
                                  THEN life[i] + 1 ELSE life[i]]
  /\ Finish(c)
  /\ UNCHANGED <<clock, ops>>

(* The first write that failed decides: a caller that named a version gets *)
(* the conflict, as does one that used up its attempts.                    *)
GivesUp(c) ==
  LET first == CHOOSE k \in Failing(c) : \A j \in Failing(c) : k <= j
  IN  \/ work[c].kind = "save" /\ planned[c][first].item.expect # 0
      \/ attempt[c] >= MaxAttempts

(* Mistake: the stale plan is applied again instead of planning anew.      *)
RetrySamePlan(c) ==
  /\ pc[c] = "apply"
  /\ Failing(c) # {}
  /\ IF GivesUp(c) THEN Finish(c)
     ELSE UNCHANGED locals
  /\ UNCHANGED <<store, clock, ops>>

Retry(c) ==
  /\ pc[c] = "apply"
  /\ Failing(c) # {}
  /\ IF GivesUp(c) THEN Finish(c)
     ELSE BeginAttempt(c, attempt[c] + 1, work[c].items) /\ UNCHANGED work
  /\ UNCHANGED <<store, clock, ops>>

(* Mistake: the row is deleted, its vector stays in the index.             *)
DeleteKeepsVector(c) ==
  /\ pc[c] = "idle"
  /\ ops < MaxOps
  /\ \E i \in Ids, ns \in Namespaces \cup {None} :
       /\ table[i] # None
       /\ ns = None \/ table[i].ns = ns
       /\ table' = [table EXCEPT ![i] = None]
  /\ ops' = ops + 1
  /\ UNCHANGED <<index, life, clock, locals>>

(* delete: one transaction, the row and its vector, only in the namespace  *)
(* that was named.                                                         *)
Delete(c) ==
  /\ pc[c] = "idle"
  /\ ops < MaxOps
  /\ \E i \in Ids, ns \in Namespaces \cup {None} :
       /\ table[i] # None
       /\ ns = None \/ table[i].ns = ns
       /\ table' = [table EXCEPT ![i] = None]
       /\ index' = [index EXCEPT ![i] = None]
  /\ ops' = ops + 1
  /\ UNCHANGED <<life, clock, locals>>

-----------------------------------------------------------------------------
(* The embedder, the LLM or the database throws, or the process dies: the  *)
(* call is over and nothing of it is persisted.                            *)
Fail(c) ==
  /\ pc[c] # "idle"
  /\ Finish(c)
  /\ UNCHANGED <<store, clock, ops>>

(* What a call does once it was accepted.                                  *)
Advance(c) ==
  \/ ReadForeign(c) \/ EndDerivation(c) \/ PlanSave(c) \/ PlanRestore(c) \/ Commit(c) \/ Retry(c)

Step(c) == Advance(c) \/ Fail(c)

Request(c) ==
  \/ SubmitSave(c) \/ SubmitRestore(c)
  \/ StartConversion(c) \/ ListForeign(c) \/ Delete(c)

Next == Tick \/ \E c \in Clients : Request(c) \/ Step(c)

(* The event loop and the database run every call that was accepted on;    *)
(* nothing forces a client to make another one, or a call to fail.         *)
Spec == Init /\ [][Next]_vars /\ \A c \in Clients : WF_vars(Advance(c))

-----------------------------------------------------------------------------
(* Every variable has its type, and no call makes more than MaxAttempts    *)
(* attempts: the retry loop of saveBatch and restore is bounded.           *)
Sources == [rep : Reps, text : Texts \cup Vectors, life : Nat, asked : BOOLEAN]
Works == [kind : {"idle", "save"}, items : Seq(Entry), policy : {"skip"},
          source : Sources \cup {None}]
         \cup [kind : {"restore"}, items : Seq(Record), policy : Policies,
               source : {None}]
Plans == [item : Entry \cup Record, write : Write, life : Nat]

StoreTyped ==
  /\ table \in [Ids -> Row \cup {None}]
  /\ index \in [Ids -> Indexed \cup {None}]
  /\ life \in [Ids -> Nat]
  /\ clock \in Nat
  /\ ops \in Nat

CallsTyped ==
  /\ pc \in [Clients -> {"idle", "find", "derive", "plan", "apply"}]
  /\ work \in [Clients -> Works]
  /\ left \in [Clients -> Seq(Entry \cup Record)]
  /\ planned \in [Clients -> Seq(Plans)]
  /\ attempt \in [Clients -> 0..MaxAttempts]
  /\ started \in [Clients -> Nat]

TypeOK == StoreTyped /\ CallsTyped

(* The index holds exactly the vectors of the concepts.                    *)
IndexInStep ==
  \A i \in Ids :
    index[i] = IF table[i] = None THEN None
               ELSE IndexEntry(table[i].ns, table[i].rep["vector"])

(* No concept is planned twice, or planned and still to be read.           *)
Apart(plan, rest) ==
  /\ \A j, k \in 1..Len(plan) : plan[j].item.id = plan[k].item.id => j = k
  /\ \A j, k \in 1..Len(rest) : rest[j].id = rest[k].id => j = k
  /\ \A j \in 1..Len(plan), k \in 1..Len(rest) : plan[j].item.id # rest[k].id

(* How the locals of a call belong together: a save has planned a write    *)
(* for each entry it has read and has the others still to read, in the     *)
(* order of the request.                                                   *)
Ordered(at, job, rest, plan) ==
  /\ at = "idle" => job = Idle
  /\ at # "idle" => job.kind # "idle" /\ job.items # <<>> /\ DistinctIds(job.items)
  /\ at \in {"find", "derive"} => job.kind = "save"
  /\ at \in {"idle", "find", "derive"} => rest = <<>> /\ plan = <<>>
  /\ at \in {"plan", "apply"} =>
       /\ at = "plan" <=> rest # <<>>
       /\ job.kind = "save" =>
            /\ Len(plan) + Len(rest) = Len(job.items)
            /\ \A k \in 1..Len(plan) : plan[k].item = job.items[k]
            /\ \A k \in 1..Len(rest) : rest[k] = job.items[Len(plan) + k]
       /\ job.kind = "restore" =>
            /\ \A k \in 1..Len(plan) : plan[k].item \in Record
            /\ \A k \in 1..Len(rest) : rest[k] \in Record
            /\ Apart(plan, rest)

OrderedCall(c) == Ordered(pc[c], work[c], left[c], planned[c])
InOrder == \A c \in Clients : OrderedCall(c)

(* A planned write is what the rules make of its item and the row it was   *)
(* read against, for a call asked to do job under model m since now.       *)
Ruled(p, job, m, now) ==
  LET base == p.write.base
  IN  IF job.kind = "save"
      THEN ~Rejected(p.item, base) /\ p.write = SaveWrite(p.item, base, m, now)
      ELSE ~Skipped(p.item, base, job.policy) /\ p.write = RestoreWrite(p.item, base)

PlannedByTheRules ==
  \A c \in Clients : \A k \in DOMAIN planned[c] :
    Ruled(planned[c][k], work[c], ModelOf[c], started[c])

(* Versions only grow while a concept lives: the row a write was planned   *)
(* against is the current one or an older one with a lower version, lives  *)
(* being the number of times that each concept was inserted.               *)
NotAhead(p, rows, lives) ==
  LET base == p.write.base
      current == rows[p.write.id]
  IN  /\ p.life <= lives[p.write.id]
      /\ base # None /\ current # None /\ p.life = lives[p.write.id] =>
           base = current \/ base.version < current.version

VersionsGrow ==
  \A c \in Clients : \A k \in DOMAIN planned[c] : NotAhead(planned[c][k], table, life)

(* The content that an entry gives replaces nothing a user authored.       *)
SparesAuthored(entry, row) ==
  \A r \in Reps : entry.rep[r] # None /\ row.rep[r] # None => IsMachineMade(row.prov[r])

(* The version a derivation is conditional on is not ahead of its concept, *)
(* and while it is the current one, its source still is what was read and  *)
(* it replaces nothing authored, unless the caller asked for that.         *)
SourceNotAhead(job, rows, lives) ==
  job.source # None =>
    LET entry == job.items[1]
        row == rows[entry.id]
    IN  /\ job.kind = "save" /\ entry.expect # 0 /\ Len(job.items) = 1
        /\ job.source.life <= lives[entry.id]
        /\ row # None /\ job.source.life = lives[entry.id] =>
             \/ entry.expect < row.version
             \/ /\ entry.expect = row.version
                /\ row.rep[job.source.rep] = job.source.text
                /\ job.source.asked \/ SparesAuthored(entry, row)

SourcesGrow == \A c \in Clients : SourceNotAhead(work[c], table, life)

(* The inductive invariant.                                                *)
ConceptInv == TypeOK /\ IndexInStep /\ InOrder /\ PlannedByTheRules /\ VersionsGrow

(* A version names one row of one life of a concept: a planned write whose *)
(* precondition (version and namespace) still holds finds exactly the row  *)
(* it was planned on, unless the concept was deleted and created again in  *)
(* between.  This is what makes the UPDATE ... WHERE version = ? of the    *)
(* adapters a compare-and-swap of the whole row.                           *)
VersionNamesRow ==
  \A c \in Clients : \A k \in DOMAIN planned[c] :
    LET p == planned[c][k]
        current == table[p.write.id]
    IN  /\ p.write.base # None
        /\ p.life = life[p.write.id]
        /\ Applies(p.write, current)
        => current = p.write.base

(* The step in which call c commits its transaction.  Every committed      *)
(* write changes its row, so a call that ends without one leaves table.    *)
Commits(c) == pc[c] = "apply" /\ pc'[c] = "idle" /\ table' # table

(* The write planned for item k still is about the row it was read from:   *)
(* an insert, or an update of a concept that was not recreated since.      *)
SameLife(c, k) ==
  LET p == planned[c][k] IN p.write.base = None \/ p.life = life[p.write.id]

(* A save of several concepts is atomic and as if it ran at the moment it  *)
(* commits: no entry would be rejected there, every entry leaves the row   *)
(* that saving it at that moment gives, and no other concept changes.  So  *)
(* a save that merges on top of a concurrent writer never undoes it.       *)
SaveActsAtOnce ==
  [][\A c \in Clients : Commits(c) /\ work[c].kind = "save" =>
       LET items == work[c].items
       IN  /\ \A k \in DOMAIN items : SameLife(c, k) =>
                LET e == items[k]
                IN  /\ ~Rejected(e, table[e.id])
                    /\ table'[e.id] = SavedRow(e, table[e.id], ModelOf[c], started[c])
           /\ \A i \in Ids \ {items[k].id : k \in DOMAIN items} :
                table'[i] = table[i]]_vars

(* A restore under the policy "newer" replaces a concept only by a record  *)
(* that is newer than the row at the moment of the commit, and updated_at  *)
(* never moves backwards, whatever concurrent writers did since it read.   *)
RestoreIsNewer ==
  [][\A c \in Clients : Commits(c) /\ work[c].kind = "restore" =>
       \A k \in DOMAIN planned[c] :
         LET p == planned[c][k]
             i == p.write.id
         IN  table[i] # None /\ SameLife(c, k) =>
               /\ table'[i].updated > table[i].updated
               /\ work[c].policy = "newer" => p.item.row.updated > table[i].updated]_vars

(* What the caller named holds of the row that is overwritten, even if the *)
(* concept was deleted and created again: the namespace it asked for, and  *)
(* the version it expected.                                                *)
CallerGuardsHold ==
  [][\A c \in Clients : Commits(c) =>
       \A k \in DOMAIN planned[c] :
         LET item == planned[c][k].item
             row == table[item.id]
         IN  IF work[c].kind = "restore"
             THEN row # None => row.ns = item.row.ns
             ELSE /\ item.expect # 0 => row # None /\ row.version = item.expect
                  /\ item.ns # None /\ row # None => row.ns = item.ns]_vars

(* The caller of call c asked that entry e replaces authored content: a    *)
(* save or conversion says so in its entry, a re-embedding in its options. *)
(* A derivation from an earlier life of the concept is not judged.         *)
AskedToOverwrite(c, e) ==
  /\ e.overwrite
  /\ LET source == work[c].source
     IN  source # None => source.asked \/ source.life # life[e.id]

(* Content a user authored becomes machine-made only through a call whose  *)
(* caller asked to overwrite it, also when the authored content arrived    *)
(* while that call was running.                                            *)
AuthoredContentKept ==
  [][\A c \in Clients : Commits(c) /\ work[c].kind = "save" =>
       \A k \in DOMAIN planned[c], r \in Reps :
         LET e == planned[c][k].item
             row == table[e.id]
         IN  /\ row # None /\ SameLife(c, k)
             /\ row.rep[r] # None /\ ~IsMachineMade(row.prov[r])
             /\ IsMachineMade(table'[e.id].prov[r])
             => AskedToOverwrite(c, e)]_vars

(* A conversion or a re-embedding commits only while its source still is   *)
(* the text it derived from: a concurrent edit of the source surfaces as a *)
(* version conflict, never as a stale derivation.                          *)
FreshDerivation ==
  [][\A c \in Clients : Commits(c) /\ work[c].source # None =>
       LET i == work[c].items[1].id
           source == work[c].source
       IN  source.life = life[i] =>
             table[i] # None /\ table[i].rep[source.rep] = source.text]_vars

(* Every call that was accepted returns, whatever the other clients do.    *)
EveryCallReturns == \A c \in Clients : pc[c] # "idle" ~> pc[c] = "idle"

-----------------------------------------------------------------------------
(* What the store promises to its readers: AtomicStore, with the vectors   *)
(* a search of a namespace ranks read from the index.                      *)
Contract == INSTANCE AtomicStore WITH
  concepts   <- table,
  searchable <- {[id |-> i, ns |-> index[i].ns, vector |-> index[i].vector] :
                   i \in {j \in Ids : index[j] # None}}

StoreContract == Contract!Spec
=============================================================================
