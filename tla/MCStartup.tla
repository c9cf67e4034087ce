----------------------------- MODULE MCStartup ------------------------------
(* Instances of Startup for TLC. *)
EXTENDS Startup

(* Servers of one deployment that were given different models.             *)
OwnModel == [s \in Servers |-> IF s = "s1" THEN "m1" ELSE "m2"]

=============================================================================
