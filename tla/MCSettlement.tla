---------------------------- MODULE MCSettlement ----------------------------
(***************************************************************************)
(* A small instance of Settlement.                                         *)
(***************************************************************************)
EXTENDS Settlement

NoWindow    == {}
AtTotals    == {"totals"}
=============================================================================
