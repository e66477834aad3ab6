------------------------------ MODULE MCGCHeap ------------------------------
(***************************************************************************)
(* Constants for GCHeap: the objects the program creates.                  *)
(***************************************************************************)
EXTENDS GCHeapInvariant, TLC

Cell == [pages |-> 1, fields |-> 1]
Pair == [pages |-> 2, fields |-> 2]

Small == {Cell}
Mixed == {Cell, Pair}

Symmetry == Permutations(Objects)
=============================================================================
