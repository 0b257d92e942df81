------------------------------- MODULE MCSet -------------------------------
(***************************************************************************)
(* Elements for CSet: two of them are equivalent, the others differ.       *)
(***************************************************************************)
EXTENDS CSet

CONSTANT NElements     \* bound: how many elements there are

MCData  == 1 .. NElements
MCKeyOf == [d \in MCData |-> IF d = NElements THEN 3 ELSE d]
=============================================================================
