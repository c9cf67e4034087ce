----------------------------- MODULE VaultStore -----------------------------
(***************************************************************************)
(* The concept store at the two ends of PolyVault: runRestoreE2E writes    *)
(* restored ThoughtForms into it one by one, each read first and written   *)
(* unconditionally, and runBackupE2E reads it page by page, both while     *)
(* servers save and delete concepts.                                       *)
(*                                                                         *)
(* Abstracted: a concept is its updated_at and its ThoughtForm (versions,  *)
(* tags and vectors follow), and namespaces and filters leave all concepts *)
(* in.                                                                     *)
(***************************************************************************)
EXTENDS Integers, Sequences, FiniteSets, SequencesExt

CONSTANTS
  Ids, Texts,
  Bundles,     \* the restored files to consider, sequences of ThoughtForms
  PageSize,    \* 100 in readThoughtformsFromDb
  MaxClock,    \* bound on the clock
  MaxEdits,    \* bound on saves and deletions by servers
  MaxImports,  \* bound on restores, crashes included
  None

(* A ThoughtForm, with its metadata.updatedAtMs.                           *)
Form == [id : Ids, stamp : 1..MaxClock, text : Texts]

Row == [updated : 1..MaxClock, form : Form \cup {None}]

ASSUME VaultStoreAssumption ==
  /\ Texts # {}
  /\ Bundles \subseteq Seq(Form)
  /\ PageSize \in Nat \ {0} /\ MaxClock \in Nat \ {0}
  /\ MaxEdits \in Nat /\ MaxImports \in Nat
  /\ None \notin Row \cup Form

VARIABLES
  rows,
  clock,
  bundle,    \* the file that is restored
  at,        \* how many of its ThoughtForms are done
  importer,  \* "idle", "find", "write", or "done"
  existing,  \* what the importer read of the concept it is at
  offset,    \* where the backup reads next
  reader,    \* "idle", "list", "page", "fetch", or "done"
  page,      \* the listed ThoughtForms still to be fetched
  total,     \* how many concepts were counted for the last page
  taken,     \* the ThoughtForms in the backup
  before,    \* history: the store when the first restore began
  changed,   \* history: concepts servers wrote since then
  missed,    \* history: concepts they wrote since the importer's last read
  moved,     \* history: concepts written since the backup began
  slid,      \* history: whether one left its place to those behind it
  split,     \* history: concepts of an updated_at that a page ended within
  grown,     \* history: whether the last page was cut from more than counted
  edits, imports      \* what the bounds count

import == <<bundle, at, importer, existing, imports>>
paging == <<offset, reader, page, total, taken, split, grown>>
vars == <<rows, clock, import, paging, before, changed, missed, moved, slid, edits>>

Init ==
  /\ clock \in 1..MaxClock
  /\ \E present \in SUBSET Ids, since \in [Ids -> 1..clock] :
       /\ IsFiniteSet(present)
       /\ rows = [i \in Ids |-> IF i \in present
            THEN [updated |-> since[i],
                  form |-> [id |-> i, stamp |-> since[i], text |-> CHOOSE t \in Texts : TRUE]]
            ELSE None]
  /\ bundle \in Bundles /\ at = 0 /\ importer = "idle" /\ existing = None
  /\ offset = 0 /\ reader = "idle" /\ page = {} /\ total = 0 /\ taken = {}
  /\ before = rows /\ changed = {} /\ missed = {} /\ moved = {}
  /\ slid = FALSE /\ split = {} /\ grown = FALSE
  /\ edits = 0 /\ imports = 0

-----------------------------------------------------------------------------
(* Whether a concept leaves its place in the list to those behind it.      *)
LeavesPlace(i) ==
  rows[i] # None /\ (rows'[i] = None \/ rows'[i].updated < rows[i].updated)

(* ConceptService.save and delete, which commit at once.                   *)
Put(i, row) ==
  /\ edits < MaxEdits /\ edits' = edits + 1
  /\ rows' = [rows EXCEPT ![i] = row]
  /\ clock' = IF row = None THEN clock ELSE row.updated
  /\ changed' = changed \cup {i}
  /\ missed' = missed \cup {i}
  /\ moved' = moved \cup {i}
  /\ slid' = (slid \/ LeavesPlace(i))
  /\ UNCHANGED <<import, paging, before>>

(* A save stamps the concept, as its author did the ThoughtForm.           *)
Save(i) ==
  \E now \in clock..MaxClock :
    \E f \in {g \in Form : g.id = i /\ g.stamp = now} \cup {None} :
      Put(i, [updated |-> now, form |-> f])

Delete(i) == rows[i] # None /\ Put(i, None)

-----------------------------------------------------------------------------
(* upsertThoughtforms                                                      *)

BeginImport ==
  /\ importer \in {"idle", "done"} /\ imports < MaxImports
  /\ importer' = (IF bundle = <<>> THEN "done" ELSE "find")
  /\ at' = 0 /\ existing' = None /\ imports' = imports + 1
  /\ UNCHANGED <<rows, clock, bundle, paging, before, changed, missed, moved, slid, edits>>

Current == bundle[at + 1]

(* Mistake: equals count as newer.                                         *)
NewerOrEqual(row, form) == row.updated >= form.stamp

(* Mistake: what is stored is always replaced.                             *)
NewerNever(row, form) == FALSE

(* Local-first: newer local data is skipped.                               *)
Newer(row, form) == row.updated > form.stamp

Advanced ==
  /\ at' = at + 1
  /\ importer' = (IF at + 1 = Len(bundle) THEN "done" ELSE "find")

(* findConcept, and whether to skip.                                       *)
Find ==
  /\ importer = "find"
  /\ existing' = rows[Current.id]
  /\ missed' = missed \ {Current.id}
  /\ IF rows[Current.id] # None /\ Newer(rows[Current.id], Current)
     THEN Advanced
     ELSE importer' = "write" /\ UNCHANGED at
  /\ UNCHANGED <<rows, clock, bundle, imports, paging, before, changed, moved, slid, edits>>

(* UPDATE ... WHERE id = ?, with no further condition, and INSERT.         *)
UpdateConcept(i, row) ==
  rows' = IF rows[i] = None THEN rows ELSE [rows EXCEPT ![i] = row]

InsertConcept(i, row) == rows' = [rows EXCEPT ![i] = row]

(* The bundle's ThoughtForm and time take the place of what is there;      *)
(* nothing happens if the concept was deleted since.                       *)
Update ==
  /\ importer = "write" /\ existing # None
  /\ UpdateConcept(Current.id, [updated |-> Current.stamp, form |-> Current])
  /\ moved' = moved \cup {Current.id}
  /\ slid' = (slid \/ LeavesPlace(Current.id))
  /\ Advanced
  /\ UNCHANGED <<clock, bundle, existing, imports, paging, before, changed, missed, edits>>

(* If the concept was created since, the restore fails, and what it wrote  *)
(* before stays.                                                           *)
Insert ==
  /\ importer = "write" /\ existing = None
  /\ IF rows[Current.id] # None
     THEN importer' = "idle" /\ UNCHANGED <<rows, at, moved>>
     ELSE /\ InsertConcept(Current.id, [updated |-> Current.stamp, form |-> Current])
          /\ moved' = moved \cup {Current.id}
          /\ Advanced
  /\ UNCHANGED <<clock, bundle, existing, imports, paging, before, changed, missed, slid, edits>>

(* The process dies; a restore is run again from the start.                *)
Crash ==
  /\ importer \in {"find", "write"}
  /\ importer' = "idle"
  /\ UNCHANGED <<rows, clock, bundle, at, existing, imports, paging, before, changed, missed,
                 moved, slid, edits>>

-----------------------------------------------------------------------------
(* readThoughtformsFromDb                                                  *)

Stored == {i \in Ids : rows[i] # None}

(* Mistake: the oldest come first.                                         *)
OldestFirst(n) ==
  {first \in SUBSET Stored :
     /\ Cardinality(first) = (IF n < Cardinality(Stored) THEN n ELSE Cardinality(Stored))
     /\ \A i \in first, j \in Stored \ first : rows[i].updated <= rows[j].updated}

(* ORDER BY updated_at DESC LIMIT n: any n concepts with none older than   *)
(* the rest.  The order of equals is open, and each query may choose anew. *)
Newest(n) ==
  {first \in SUBSET Stored :
     /\ Cardinality(first) = (IF n < Cardinality(Stored) THEN n ELSE Cardinality(Stored))
     /\ \A i \in first, j \in Stored \ first : rows[i].updated >= rows[j].updated}

Ahead(i) == {j \in Stored : rows[j].updated > rows[i].updated}
NotBehind(i) == {j \in Stored : rows[j].updated >= rows[i].updated}

(* Those that a page that ends after n concepts may or may not reach.      *)
Split(n) ==
  {i \in Stored : Cardinality(Ahead(i)) < n /\ n < Cardinality(NotBehind(i))}

BeginBackup ==
  /\ reader = "idle"
  /\ reader' = "list"
  /\ moved' = {} /\ slid' = FALSE
  /\ UNCHANGED <<rows, clock, import, offset, page, total, taken, split, grown, before, changed,
                 missed, edits>>

(* listConcepts: a query counts the concepts, and another, with the same   *)
(* filters, reads the page.                                                *)
Count ==
  /\ reader = "list"
  /\ reader' = "page"
  /\ total' = Cardinality(Stored)
  /\ UNCHANGED <<rows, clock, import, offset, page, taken, split, grown, before, changed, missed,
                 moved, slid, edits>>

NextOffset == offset + PageSize

(* What comes when `left` of the page is still to be fetched.              *)
Onwards(left, from) ==
  IF left # {} THEN "fetch" ELSE IF from < total THEN "list" ELSE "done"

(* LIMIT and OFFSET; concepts without a ThoughtForm are passed over.       *)
ReadPage ==
  /\ reader = "page"
  /\ \E skipped \in Newest(offset), reached \in Newest(NextOffset) :
       /\ skipped \subseteq reached
       /\ page' = {i \in reached \ skipped : rows[i].form # None}
  /\ offset' = NextOffset
  /\ reader' = Onwards(page', NextOffset)
  /\ split' = split \cup Split(NextOffset)
  /\ grown' = (Cardinality(Stored) > total)
  /\ UNCHANGED <<rows, clock, import, total, taken, before, changed, missed, moved, slid, edits>>

(* findConcept: the ThoughtForm, if the concept still is and has one.      *)
Fetch(i) ==
  /\ reader = "fetch" /\ i \in page
  /\ taken' = taken \cup (IF rows[i] = None THEN {} ELSE {rows[i].form} \ {None})
  /\ page' = page \ {i}
  /\ reader' = Onwards(page', offset)
  /\ UNCHANGED <<rows, clock, import, offset, total, split, grown, before, changed, missed, moved,
                 slid, edits>>

-----------------------------------------------------------------------------
Import == Find \/ Update \/ Insert
Backup == Count \/ ReadPage \/ \E i \in page : Fetch(i)

Next ==
  \/ BeginImport \/ Import \/ Crash \/ BeginBackup \/ Backup
  \/ \E i \in Ids : Save(i) \/ Delete(i)

Spec == Init /\ [][Next]_vars

-----------------------------------------------------------------------------
TypeOK ==
  /\ rows \in [Ids -> Row \cup {None}] /\ before \in [Ids -> Row \cup {None}]
  /\ clock \in 1..MaxClock
  /\ bundle \in Bundles /\ at \in 0..Len(bundle)
  /\ importer \in {"idle", "find", "write", "done"}
  /\ existing \in Row \cup {None}
  /\ importer \in {"find", "write"} => at < Len(bundle)
  /\ reader \in {"idle", "list", "page", "fetch", "done"}
  /\ offset \in Nat /\ total \in Nat
  /\ page \subseteq Ids
  /\ taken \subseteq Form
  /\ changed \subseteq Ids /\ missed \subseteq Ids /\ moved \subseteq Ids
  /\ split \subseteq Ids /\ slid \in BOOLEAN /\ grown \in BOOLEAN
  /\ edits \in 0..MaxEdits /\ imports \in 0..MaxImports

(* The last of the newest ThoughtForms the bundle has of a concept.        *)
Latest(i) ==
  CHOOSE f \in Range(bundle) :
    /\ f.id = i
    /\ \E n \in DOMAIN bundle :
         /\ bundle[n] = f
         /\ \A m \in DOMAIN bundle :
              bundle[m].id = i =>
                bundle[m].stamp < f.stamp \/ (bundle[m].stamp = f.stamp /\ m <= n)

InBundle(i) == \E n \in DOMAIN bundle : bundle[n].id = i

(* A restore that ended, however often others were cut off before it, has  *)
(* left every concept that no server wrote since as its bundle has it      *)
(* last, or as it was when it was newer (sqlite-upsert.ts: idempotent).    *)
RestoreConverges ==
  importer = "done" =>
    \A i \in Ids \ changed :
      IF InBundle(i) /\ (before[i] = None \/ ~(before[i].updated > Latest(i).stamp))
      THEN rows[i] = [updated |-> Latest(i).stamp, form |-> Latest(i)]
      ELSE rows[i] = before[i]

(* The importer replaces a newer concept only if a server saved it after   *)
(* the importer read that one concept.                                     *)
NewerKept ==
  [][\A i \in Ids :
       (/\ edits' = edits /\ rows'[i] # rows[i] /\ rows[i] # None
        /\ rows[i].updated > rows'[i].updated)
         => i \in missed]_vars

(* A concept nobody wrote while the backup read the store is in the        *)
(* backup, whatever else was saved meanwhile, unless one was deleted or    *)
(* stamped back (those behind it move up, past the page that lists them),  *)
(* or created between the last page and its count (the paging ends too     *)
(* early), or the concept has its updated_at in common with others and a   *)
(* page ended among them (each page may list equals in another order).     *)
UntouchedInBackup ==
  (reader = "done" /\ ~slid /\ ~grown) =>
    \A i \in Stored \ (moved \cup split) : rows[i].form # None => rows[i].form \in taken
=============================================================================
