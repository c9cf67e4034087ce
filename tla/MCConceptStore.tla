--------------------------- MODULE MCConceptStore ---------------------------
(***************************************************************************)
(* Small instances of ConceptStore.                                        *)
(***************************************************************************)
EXTENDS ConceptStore, TLC

CONSTANTS a, b, x, y, ns1, ns2, t1, m1, m2, c1, c2

Nothing == [r \in Reps |-> None]
Only(r, text) == [Nothing EXCEPT ![r] = text]

(* A save of text as representation r that asks for nothing else.          *)
Plain(i, r, text) ==
  [id |-> i, ns |-> None, expect |-> 0, rep |-> Only(r, text), prov |-> Nothing,
   auto |-> FALSE, overwrite |-> FALSE, tags |-> {}]
Tagging(i, ts) == [Plain(i, "markdown", x) EXCEPT !.rep = Nothing, !.tags = ts]

(* Saves that meet: merges, expected versions, namespaces, a batch.        *)
WriteBatches ==
  { <<Plain(a, "markdown", x), [Plain(b, "thoughtform", x) EXCEPT !.tags = {t1}]>>,
    <<[Plain(a, "markdown", y) EXCEPT !.expect = 1, !.ns = ns2]>>,
    <<[Plain(a, "markdown", y) EXCEPT !.auto = TRUE, !.ns = ns2, !.tags = {t1}]>>,
    <<Tagging(a, {t1})>> }

BackupRow(version, updated) ==
  [ns |-> ns1, version |-> version, updated |-> updated, tags |-> {},
   rep |-> [Only("markdown", x) EXCEPT !["vector"] = [of |-> x, model |-> m1]],
   prov |-> [r \in Reps |-> IF r = "vector" THEN "markdown" ELSE "unset"]]
VectorRow == [BackupRow(1, 1) EXCEPT !.rep["markdown"] = None]

Import(records, model, policy) ==
  [records |-> records, model |-> model, policy |-> policy, reembed |-> FALSE, scope |-> {ns1}]

(* A backup of this model, and one of another, whose vectors are derived   *)
(* anew or dropped.                                                        *)
WriteRestores ==
  { Import(<< [id |-> a, row |-> BackupRow(2, 1)] >>, m1, "newer"),
    [Import(<< [id |-> b, row |-> VectorRow], [id |-> a, row |-> BackupRow(2, 1)] >>, m2, "overwrite")
       EXCEPT !.reembed = TRUE] }

DeriveRestores ==
  { [Import(<< [id |-> a, row |-> BackupRow(2, 1)] >>, m1, "newer") EXCEPT !.reembed = TRUE] }

(* Sources and targets of derivations, authored vectors, a second model.   *)
DeriveBatches ==
  { <<[Plain(a, "markdown", x) EXCEPT !.auto = TRUE]>>,
    <<Plain(a, "markdown", y)>>,
    <<[Plain(a, "vector", y) EXCEPT !.rep["thoughtform"] = x]>> }

DeriveConversions == {<<"markdown", "vector">>, <<"vector", "markdown">>, <<"markdown", "thoughtform">>}

NoConversions == {}
SameText == [text \in Texts |-> text]
OneModel == [c \in Clients |-> m1]
TwoModels == [c \in Clients |-> IF c = c1 THEN m1 ELSE m2]

Symmetric == Permutations(Clients)
=============================================================================
