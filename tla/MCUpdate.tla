------------------------------ MODULE MCUpdate ------------------------------
(***************************************************************************)
(* A small instance of Update: three ROM blocks in three regions (region 1 *)
(* is empty), parameter areas of two sectors.                              *)
(***************************************************************************)
EXTENDS Update, TLC

SmallEntry == 0 :> 1 @@ 1 :> 0 @@ 2 :> 1 @@ 3 :> 1
=============================================================================
