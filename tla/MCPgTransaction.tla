--------------------------- MODULE MCPgTransaction ---------------------------
(***************************************************************************)
(* Small instances of PgTransaction.                                       *)
(***************************************************************************)
EXTENDS PgTransaction

CONSTANTS a, b

(* Batches that lock the same rows in either order.                        *)
EitherOrder == {<<a, b>>, <<b, a>>}
=============================================================================
