----------------------------- MODULE MCPolyVault -----------------------------
(***************************************************************************)
(* Small instances of PolyVault.                                           *)
(***************************************************************************)
EXTENDS PolyVault, TLC

(* Three versions of one ThoughtForm and one of another, in three data     *)
(* sets; the first is the one with two chunks.                             *)
Version(i, at, hash) == [id |-> i, at |-> at, hash |-> hash]
ThreeContents ==
  [d \in DataSets |-> IF d = 1 THEN {Version("a", 2, 1)}
                      ELSE IF d = 2 THEN {Version("a", 1, 2)}
                      ELSE {Version("a", 2, 2), Version("b", 1, 1)}]
Chunked == [d \in DataSets |-> IF d = 1 THEN 2 ELSE 1]

Swapped == Permutations(Runs)
=============================================================================
