------------------------------ MODULE MCRebase ------------------------------
(* Instances of Rebase for TLC. *)
EXTENDS Rebase, TLC

CONSTANTS d1, d2, d3

(* Two devices go by the order of edits alone, one keeps its own.          *)
TwoPlain ==
  [d \in Devices |->
     IF d = d3 THEN [policy |-> "updatedAt", prefer |-> "local", skew |-> 0]
     ELSE [policy |-> "updatedAt", prefer |-> None, skew |-> 0]]

Alike == Permutations({d1, d2})

=============================================================================
