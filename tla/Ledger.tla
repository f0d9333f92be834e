------------------------------- MODULE Ledger -------------------------------
(***************************************************************************)
(* What the settlement promises to whoever reads its totals and its log,   *)
(* with no phase, no work copy and no power cut in sight: a payment is in  *)
(* the totals and in the log at once, under the next number, and a T close *)
(* moves all of the T totals to the GT totals and logs a T total at once.  *)
(***************************************************************************)
EXTENDS Naturals, Sequences

VARIABLES
    day,        \* payments in the totals of the day
    t, gt,      \* payments in the T totals, and in the GT totals
    payments,   \* numbers of the payments logged
    closings    \* numbers of the T totals logged

books == <<day, t, gt, payments, closings>>

Init == day = 0 /\ t = 0 /\ gt = 0 /\ payments = <<>> /\ closings = <<>>

Pay ==
    /\ day' = day + 1
    /\ t' = t + 1
    /\ payments' = Append(payments, Len(payments) + 1)
    /\ UNCHANGED <<gt, closings>>

Close ==
    /\ gt' = gt + t
    /\ t' = 0
    /\ closings' = Append(closings, Len(closings) + 1)
    /\ UNCHANGED <<day, payments>>

Next == Pay \/ Close

Spec == Init /\ [][Next]_books
=============================================================================
