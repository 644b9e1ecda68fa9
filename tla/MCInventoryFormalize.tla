------------------------ MODULE MCInventoryFormalize ------------------------
(***************************************************************************)
(* Claims of an inventory for TLC: the labels of b and c differ in         *)
(* punctuation only, so that the two share a directory.                    *)
(***************************************************************************)
EXTENDS InventoryFormalize

CONSTANTS a, b, c

Shared == [claim \in {a, b, c} |-> IF claim = a THEN "thm_a" ELSE "thm_b"]
=============================================================================
