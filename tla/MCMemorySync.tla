---------------------------- MODULE MCMemorySync ----------------------------
(***************************************************************************)
(* A small instance of MemorySync: a server that pushes and pulls one of   *)
(* the namespaces, when it starts, and one that serves both and only       *)
(* pulls, by a timer too.                                                  *)
(***************************************************************************)
EXTENDS MemorySync

Follower == [s \in Servers |-> IF s = "s1" THEN "bidirectional" ELSE "pull"]
Served == [s \in Servers |-> IF s = "s1" THEN {"ns1"} ELSE Namespaces]
=============================================================================
