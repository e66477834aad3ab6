-------------------------- MODULE MCPermVectorTable --------------------------
(***************************************************************************)
(* Instances of PermVectorTable for TLC: which client registers which      *)
(* object.                                                                 *)
(***************************************************************************)
EXTENDS PermVectorTable, TLC

CONSTANTS k1, k2, k3, k4, o1, o2, o3

\* k1 and k2 register the same object
SharedObject == k1 :> o1 @@ k2 :> o1 @@ k3 :> o2 @@ k4 :> o3
=============================================================================
