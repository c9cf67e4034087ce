---------------------------- MODULE MCVaultStore ----------------------------
(* Instances of VaultStore for TLC. *)
EXTENDS VaultStore

(* Two ThoughtForms, of one concept or of two.                             *)
Pairs ==
  {<<f, g>> : f \in {h \in Form : h.id = 1 /\ h.text = "x"},
              g \in {h \in Form : h.id = 1 \/ (h.id = 2 /\ h.text = "x")}}

=============================================================================
