---------------------------- MODULE ConceptRules ----------------------------
(***************************************************************************)
(* The rules by which ConceptService turns a request and the row it was    *)
(* read against into one conditional write (ConceptService.plan and the    *)
(* planning half of ConceptService.restore), and what the adapters'        *)
(* applyWrite does with that write.  Everything here is a pure function of *)
(* its arguments; ConceptStore interleaves them.                           *)
(*                                                                         *)
(* Abstracted: contents are members of a small set Texts, a vector is the  *)
(* text it was computed from together with the embedding model, and the    *)
(* assertion status and the ledger reference, which follow the same        *)
(* "omitted keeps, given replaces" rule as a text, are left out.           *)
(***************************************************************************)
EXTENDS Integers, Sequences, FiniteSets

CONSTANTS
  Ids,          \* concept ids
  Namespaces,   \* namespaces the server serves
  Tags,         \* tags a request can carry
  Texts,        \* contents of a markdown or thoughtform representation
  Models,       \* embedding models (POLYTICIAN_EMBEDDING_MODEL)
  DefaultNs,    \* the namespace of a new concept that names none
  MaxTags,      \* LIMITS.tags
  None          \* no row, no representation, an option that was not given

(* RepresentationType.  The two text representations are the sources a     *)
(* vector can be derived from.                                             *)
Reps == {"vector", "markdown", "thoughtform"}

(* A vector is known by the text it embeds and the model that made it:     *)
(* concepts.embedding and concepts.embedding_model always change together. *)
Vectors == [of : Texts, model : Models]
Contents == Texts \cup Vectors \cup {None}

(* A provenance entry: absent, authored (origin user or import), or made   *)
(* by Polytician from another representation (origin derived or llm), in   *)
(* which case it is that representation (derivedFrom).                     *)
Origins == {"unset", "authored"} \cup Reps
IsMachineMade(p) == p \in Reps

(* The representations a row holds.                                        *)
Holdings == {held \in [Reps -> Contents] :
               \A r \in Reps : held[r] \in {None} \cup (IF r = "vector" THEN Vectors ELSE Texts)}

Row == [ns : Namespaces, version : Nat \ {0}, updated : Nat, tags : SUBSET Tags,
        rep : Holdings, prov : [Reps -> Origins]]

(* What the vector index holds of a concept.                               *)
Indexed == [ns : Namespaces, vector : Vectors]

ASSUME RulesAssumption ==
  /\ DefaultNs \in Namespaces
  /\ MaxTags \in Nat
  /\ None \notin Ids \cup Namespaces \cup Texts \cup Reps
  /\ None \notin Vectors /\ None \notin Row /\ None \notin Indexed

(* One entry of a save: SaveParams.  expect = 0 when expectedVersion is    *)
(* omitted; prov[r] = None when the entry leaves r's provenance to what    *)
(* the caller declares, which is always an authored origin.                *)
Entry == [id : Ids, ns : Namespaces \cup {None}, expect : Nat,
          rep : [Reps -> Texts \cup {None}], prov : [Reps -> Origins \cup {None}],
          auto : BOOLEAN, overwrite : BOOLEAN, tags : SUBSET Tags]

(* One record of a backup: RestoreRecord.                                  *)
Record == [id : Ids, row : Row]

(* A conditional write.  base is the row it was planned against (None for  *)
(* an insert), row the row as planned, set the representations it assigns; *)
(* an update leaves the others as it finds them.                           *)
Write == [id : Ids, base : Row \cup {None}, set : SUBSET Reps, row : Row]

-----------------------------------------------------------------------------
(* ConceptService.plan                                                     *)

Given(e) == {r \in Reps : e.rep[r] # None}

(* autoEmbedSource: the representation an automatic vector is derived from *)
(* (None: no vector is derived for this entry).                            *)
AutoSource(e) ==
  IF ~e.auto \/ e.rep["vector"] # None THEN None
  ELSE IF e.rep["markdown"] # None THEN "markdown"
  ELSE IF e.rep["thoughtform"] # None THEN "thoughtform" ELSE None

Denied(e, row) == row # None /\ e.ns # None /\ e.ns # row.ns

(* Mistake: a missing concept is never a version conflict.                 *)
StaleOnlyIfPresent(e, row) == e.expect # 0 /\ row # None /\ e.expect # row.version

Stale(e, row) == e.expect # 0 /\ (row = None \/ e.expect # row.version)

NextOrigin(e, r) == IF e.prov[r] = None THEN "authored" ELSE e.prov[r]

(* OverwriteRefusedError: machine-made content may not replace authored    *)
(* content unless the request says so.                                     *)
Refused(e, row) ==
  /\ row # None
  /\ ~e.overwrite
  /\ \E r \in Given(e) : /\ IsMachineMade(NextOrigin(e, r))
                         /\ row.rep[r] # None
                         /\ ~IsMachineMade(row.prov[r])

KeptTags(row) == IF row = None THEN {} ELSE row.tags

(* ValidationError: a new concept without content, or too many tags.       *)
Invalid(e, row) ==
  \/ row = None /\ Given(e) = {}
  \/ Cardinality(KeptTags(row) \cup e.tags) > MaxTags

Rejected(e, row) ==
  Denied(e, row) \/ Stale(e, row) \/ Refused(e, row) \/ Invalid(e, row)

(* Mistake: a vector the user supplied is re-derived like any other.       *)
AutoEmbedsOverAuthored(e, row) ==
  /\ AutoSource(e) # None
  /\ AutoSource(e) = "markdown" \/ row = None \/ row.rep["markdown"] = None

(* The vector is re-derived only if this write changes its source text and *)
(* never over an authored vector.                                          *)
AutoEmbeds(e, row) ==
  /\ AutoSource(e) # None
  /\ AutoSource(e) = "markdown" \/ row = None \/ row.rep["markdown"] = None
  /\ row = None \/ row.rep["vector"] = None \/ IsMachineMade(row.prov["vector"])

SetBy(e, row) == Given(e) \cup (IF AutoEmbeds(e, row) THEN {"vector"} ELSE {})

(* The content a save gives representation r, for a server configured with *)
(* embedding model m.                                                      *)
NewContent(e, r, m) ==
  IF r # "vector" THEN e.rep[r]
  ELSE [of |-> IF e.rep["vector"] # None THEN e.rep["vector"] ELSE e.rep[AutoSource(e)],
        model |-> m]

NewOrigin(e, row, r) ==
  IF e.rep[r] # None THEN NextOrigin(e, r)
  ELSE IF r = "vector" /\ AutoEmbeds(e, row) THEN AutoSource(e)
  ELSE IF row = None THEN "unset" ELSE row.prov[r]

(* Mistake: a save that only adds tags keeps the version.                  *)
SavedRowUncounted(e, row, m, now) ==
  [ns      |-> IF row # None THEN row.ns
               ELSE IF e.ns # None THEN e.ns ELSE DefaultNs,
   version |-> IF row = None THEN 1
               ELSE IF Given(e) = {} THEN row.version ELSE row.version + 1,
   updated |-> now,
   tags    |-> KeptTags(row) \cup e.tags,
   rep     |-> [r \in Reps |-> IF r \in SetBy(e, row) THEN NewContent(e, r, m)
                               ELSE IF row = None THEN None ELSE row.rep[r]],
   prov    |-> [r \in Reps |-> NewOrigin(e, row, r)]]

SavedRow(e, row, m, now) ==
  [ns      |-> IF row # None THEN row.ns
               ELSE IF e.ns # None THEN e.ns ELSE DefaultNs,
   version |-> IF row # None THEN row.version + 1 ELSE 1,
   updated |-> now,
   tags    |-> KeptTags(row) \cup e.tags,
   rep     |-> [r \in Reps |-> IF r \in SetBy(e, row) THEN NewContent(e, r, m)
                               ELSE IF row = None THEN None ELSE row.rep[r]],
   prov    |-> [r \in Reps |-> NewOrigin(e, row, r)]]

SaveWrite(e, row, m, now) ==
  [id |-> e.id, base |-> row, set |-> SetBy(e, row), row |-> SavedRow(e, row, m, now)]

-----------------------------------------------------------------------------
(* The planning half of ConceptService.restore                             *)

Policies == {"newer", "overwrite", "skip"}

(* A record that leaves an existing concept alone.                         *)
Skipped(record, row, policy) ==
  /\ row # None
  /\ \/ row.ns # record.row.ns
     \/ policy = "skip"
     \/ policy = "newer" /\ record.row.updated <= row.updated

Later(a, b) == IF a > b THEN a ELSE b

(* Mistake: an overwritten concept takes the backup's updated_at as it is. *)
RestoredRowBackdated(record, row) ==
  IF row = None THEN record.row ELSE [record.row EXCEPT !.version = row.version + 1]

RestoredRow(record, row) ==
  IF row = None THEN record.row
  ELSE [record.row EXCEPT !.version = row.version + 1,
                          !.updated = Later(record.row.updated, row.updated + 1)]

RestoreWrite(record, row) ==
  [id |-> record.id, base |-> row, set |-> Reps, row |-> RestoredRow(record, row)]

-----------------------------------------------------------------------------
(* What import_backup makes of a record                                    *)

HasText(row) == row.rep["markdown"] # None \/ row.rep["thoughtform"] # None

(* The text a row's vector can be derived from.                            *)
TextRep(row) == IF row.rep["markdown"] # None THEN "markdown" ELSE "thoughtform"

(* reembedRecords: the vector of the file gives way to one that model m    *)
(* makes of the text, or to none.                                          *)
Reembedded(row, m) ==
  [row EXCEPT !.rep["vector"] = IF HasText(row) THEN [of |-> row.rep[TextRep(row)], model |-> m]
                                ELSE None,
              !.prov["vector"] = IF HasText(row) THEN TextRep(row) ELSE "unset"]

(* Otherwise it is taken for one of model m, as a record has no model.     *)
Stamped(row, m) ==
  [row EXCEPT !.rep["vector"] = IF @ = None THEN None ELSE [of |-> @.of, model |-> m]]

Imported(row, m, reembed) == IF reembed THEN Reembedded(row, m) ELSE Stamped(row, m)

-----------------------------------------------------------------------------
(* applyWrite of both adapters: INSERT ... ON CONFLICT DO NOTHING, and     *)
(* UPDATE ... WHERE id = ? AND version = ? AND namespace = ?.              *)

(* Mistake: an UPDATE that names the id and the namespace alone.           *)
AppliesToAnyVersion(w, current) ==
  IF w.base = None THEN current = None
  ELSE current # None /\ current.ns = w.base.ns

Applies(w, current) ==
  IF w.base = None THEN current = None
  ELSE /\ current # None
       /\ current.version = w.base.version
       /\ current.ns = w.base.ns

(* An UPDATE assigns version, updated_at, tags and provenance, and of the  *)
(* representations only the ones that were given.                          *)
AppliedRow(w, current) ==
  IF w.base = None THEN w.row
  ELSE [w.row EXCEPT !.ns = current.ns,
                     !.rep = [r \in Reps |-> IF r \in w.set THEN w.row.rep[r]
                                             ELSE current.rep[r]]]

(* The entry of the vector index (concept_vectors), partitioned by         *)
(* namespace, that the same transaction leaves behind.                     *)
IndexEntry(ns, vector) == IF vector = None THEN None ELSE [ns |-> ns, vector |-> vector]

AppliedIndex(w, entry) ==
  IF "vector" \notin w.set \/ (w.base = None /\ w.row.rep["vector"] = None) THEN entry
  ELSE IndexEntry(IF w.base = None THEN w.row.ns ELSE w.base.ns, w.row.rep["vector"])
=============================================================================
