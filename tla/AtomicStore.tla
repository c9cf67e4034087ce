---------------------------- MODULE AtomicStore ----------------------------
(***************************************************************************)
(* What the concept store promises whoever reads it, without saying how    *)
(* writers get there: transactions take effect at once; a concept stays in *)
(* its namespace and its version counts its changes for as long as it      *)
(* lives; and the vectors a search ranks are at every moment exactly those *)
(* of the concepts, each under its concept's namespace.                    *)
(***************************************************************************)
EXTENDS Integers

CONSTANTS Ids, Row, None

VARIABLES concepts, searchable

(* The vectors a search can find while the concepts are cs.                *)
VectorsOf(cs) ==
  {[id |-> i, ns |-> cs[i].ns, vector |-> cs[i].rep["vector"]] :
     i \in {j \in Ids : cs[j] # None /\ cs[j].rep["vector"] # None}}

Init ==
  /\ concepts = [i \in Ids |-> None]
  /\ searchable = {}

(* A transaction: new concepts appear, others change in place.             *)
Write ==
  /\ \A i \in Ids :
       \/ concepts'[i] = concepts[i]
       \/ concepts[i] = None /\ concepts'[i] \in Row
       \/ /\ concepts[i] # None
          /\ concepts'[i] \in Row
          /\ concepts'[i].ns = concepts[i].ns
          /\ concepts'[i].version = concepts[i].version + 1
  /\ searchable' = VectorsOf(concepts')

Delete(i) ==
  /\ concepts[i] # None
  /\ concepts' = [concepts EXCEPT ![i] = None]
  /\ searchable' = VectorsOf(concepts')

Next == Write \/ \E i \in Ids : Delete(i)

Spec == Init /\ [][Next]_<<concepts, searchable>>
=============================================================================
