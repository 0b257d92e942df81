------------------------------- MODULE MCMap -------------------------------
(***************************************************************************)
(* Keys for CMap: two that share a hash, one that is at home in the entry  *)
(* behind it, and one whose probing goes round the end of the table.       *)
(***************************************************************************)
EXTENDS CMap

CONSTANTS a, b, c, d

MCHash == [k \in {a, b, c, d} |->
             CASE k \in {a, b} -> Capacity [] k = c -> 1 [] k = d -> 2 * Capacity - 1]
=============================================================================
