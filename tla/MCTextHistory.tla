---------------------------- MODULE MCTextHistory ----------------------------
(***************************************************************************)
(* The instance of TextHistory for TLC.                                    *)
(***************************************************************************)
EXTENDS TextHistory, TLC

Symmetry == Permutations(Letters)
=============================================================================
