----------------------------- MODULE MCPktLink -----------------------------
(* Small instances of PktLink: up to two log records of different kinds, up *)
(* to two commands, and a few failures of the network and of the LCD board. *)
EXTENDS PktLink, TLC

CONSTANTS r1, r2, c1, c2, id1, id2

PayThenQr == <<PAY, QR>>
OnlyPay   == <<PAY>>
NoKinds   == <<>>

PayAndQr  == (r1 :> PAY) @@ (r2 :> QR)
OnePay    == r1 :> PAY
OneId     == r1 :> id1
NoRecords    == <<>>

(* The records belong to two payments. *)
OwnIds == (r1 :> id1) @@ (r2 :> id2)

ResponseTimer == {RES_WT}
=============================================================================
