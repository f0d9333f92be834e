-------------------------- MODULE SettlementProofs --------------------------
(***************************************************************************)
(* What Settlement guarantees for every number of payments, T closes and   *)
(* power cuts.                                                             *)
(*                                                                         *)
(* The totals and the numbers are right only where nothing is going on;    *)
(* between, they are right for the phase that battery-backed memory holds. *)
(* The inductive invariant says so, phase by phase: PhaseInv where the     *)
(* operation task can be in a phase, TotalsInv what the totals and their   *)
(* work copies hold in it, NumbersInv how far the numbers have come.  The  *)
(* windows a power cut may not use are exactly where a step leaves the     *)
(* totals or the numbers without the phase that describes them.            *)
(***************************************************************************)
EXTENDS Settlement, SequenceTheorems, TLAPS

Going == {"idle", "close", "summed", "taken", "tcount", "treturn",
          "reclose", "retake", "resub"}

\* Where the operation task can be in each phase.
PhaseInv ==
    /\ pc \in {"data", "save", "mark"} => cycl = 13
    /\ pc \in {"add", "restore"} => cycl = 14
    /\ pc \in {"log", "boot15"} => cycl = 15
    /\ pc \in {"copy", "stage", "store", "put", "settled"} => cycl = 16
    /\ pc \in {"count", "return", "counted"} => cycl = 19
    /\ pc = "money" => cycl = 17
    /\ pc \in Going => cycl = 0
    /\ cycl # 0 \/ pc = "idle" => syu \in {0, 18}
    /\ pc = "close" => syu \in 12..17
    /\ pc = "summed" => syu = 13
    /\ pc \in {"resub", "taken"} => syu = 17
    /\ pc \in {"tcount", "treturn"} => syu = 18
    /\ pc = "reclose" => syu \in {14, 15}
    /\ pc = "retake" => syu = 16
    /\ syu # 11
    /\ report => pc = "idle" /\ closes < MaxCloses
    /\ cycl # 0 => paid >= 1

\* n payments in the totals x, with g of them in the GT totals.
Hold(x, g, n) ==
    /\ x["day"] = n
    /\ x["t"] + g = n
    /\ x["t"] <= x["place"] /\ x["place"] <= n

PaymentIn == cycl \in {15, 16, 17, 19} \/ (cycl = 0 /\ syu \in {0, 12, 18})

Taking == cycl = 0 /\ syu \in 14..17

TotalsInv ==
    /\ cycl = 13 => Hold(total, gt, paid - 1)
    /\ pc = "mark" => work = total /\ added = {}
    /\ cycl = 14 => /\ Hold(work, gt, paid - 1)
                    /\ IF pc = "add"
                       THEN \A a \in Areas :
                              total[a] = IF a \in added THEN work[a] + 1 ELSE work[a]
                       ELSE total["t"] = work["t"]
    /\ PaymentIn => Hold(total, gt, paid)
    /\ report \/ syu = 12 => skyprn = total["t"]
    /\ cycl = 0 /\ syu = 13 =>
          /\ skyprn = total["t"]
          /\ Hold(total, work["t"], paid)
          /\ pc = "close"  => gt = work["t"]
          /\ pc = "summed" => gt = paid
    /\ Taking => /\ gt = paid /\ total["day"] = paid /\ total["place"] <= paid
                 /\ total["t"] = IF pc = "taken" THEN 0 ELSE skyprn
                 /\ total["t"] <= total["place"]

\* The payments logged, and what is lent of the next number.
NumbersInv ==
    /\ \A i \in DOMAIN paylog : paylog[i] = i
    /\ Len(paylog) = IF cycl \in {13, 14, 15} THEN paid - 1 ELSE paid
    /\ cycl \in {13, 14, 15} => number = paid /\ lent \in {0, paid}
    /\ pc \in {"save", "mark", "add", "log"} \/ cycl = 16 => number = paid /\ lent = paid
    /\ cycl = 19 => \/ lent = paid /\ number \in {paid, paid + 1}
                    \/ lent = 0 /\ number = paid + 1
    /\ pc \in {"return", "counted"} => number = paid + 1
    /\ pc = "counted" \/ cycl \in {0, 17} => lent = 0 /\ number = paid + 1

\* The T totals logged, and what is lent of the next number.
TNumbersInv ==
    /\ \A i \in DOMAIN tlog : tlog[i] = i
    /\ tnumber >= 1
    /\ cycl # 0 \/ (pc = "idle" /\ ~report) => tlent = 0
    /\ syu \notin 12..17 /\ pc # "tcount" => tnumber = Len(tlog) + 1
    /\ pc = "idle" => tlent \in {0, tnumber}
    /\ report \/ syu \in 12..17 \/ pc = "tcount" => tlent = tnumber
    /\ syu \in 12..14 => tnumber = Len(tlog) + 1
    /\ syu \in 15..17 \/ pc = "tcount" => tnumber = Len(tlog)

\* The T totals logged, when the power may go before their number is raised.
TSteadyInv ==
    /\ TNumbersSteady
    /\ cycl # 0 \/ (pc = "idle" /\ ~report) => tlent = 0
    /\ pc = "idle" => tlent \in {0, tnumber}
    /\ report \/ syu \in 12..17 \/ pc = "tcount" => tlent = tnumber
    /\ IF syu \in 15..17 \/ pc = "tcount"
       THEN tlog # <<>> /\ tnumber = tlog[Len(tlog)]
       ELSE IF tlog = <<>> THEN tnumber = 1
            ELSE tnumber - tlog[Len(tlog)] \in {0, 1}

\* What holds wherever the power is cut, the windows included.
PInv == PhaseTypeOK /\ PhaseInv /\ NumbersInv

IInv == PInv /\ TotalsTypeOK /\ TotalsInv /\ TNumbersInv

\* No power cut may use a window of the totals or of the numbers.
Shut == CutIn \cap {"totals", "taken", "tnumber"} = {}

LEMMA WindowsShut ==
    ASSUME Shut, Cut
    PROVE  ~TotalsAdded /\ ~TotalsTaken /\ ~TNumberKept
<1>1. {"totals", "taken", "tnumber"} \subseteq DOMAIN Window
  BY DEF Window
<1>2. /\ Window["totals"] = TotalsAdded
      /\ Window["taken"] = TotalsTaken
      /\ Window["tnumber"] = TNumberKept
  BY DEF Window
<1> QED BY <1>1, <1>2 DEF Cut, Shut

LEMMA TNumberShut == ASSUME "tnumber" \notin CutIn, Cut PROVE ~TNumberKept
<1>1. "tnumber" \in DOMAIN Window /\ Window["tnumber"] = TNumberKept
  BY DEF Window
<1> QED BY <1>1 DEF Cut

PayStep ==
    \/ PayoutComplete
    \/ PayDataSet
    \/ SaveTotals
    \/ MarkSaved
    \/ \E a \in Areas : AddTo(a)
    \/ MarkAdded
    \/ LogPayment
    \/ AskReceipt
    \/ AskStage
    \/ AskStore
    \/ AskPut
    \/ MarkLogged
    \/ CountUp
    \/ CountReturn
    \/ MarkCounted
    \/ LogMoney

CloseStep ==
    \/ PrintReport
    \/ ReportPrinted
    \/ CloseSave
    \/ CloseAdd
    \/ CloseMarkAdded
    \/ CloseLog
    \/ CloseLogged
    \/ CloseSaveT
    \/ CloseTake
    \/ CloseMarkTaken
    \/ TCountUp
    \/ TCountReturn

StartStep ==
    \/ Fukuden
    \/ FukudenRestore
    \/ FukudenClose
    \/ FukudenRelog
    \/ FukudenResave
    \/ FukudenRetake
    \/ FukudenNone
    \/ Cut

\* A payment: the types of the phases and of the numbers.
LEMMA PhaseTypePay ==
    ASSUME PInv, PayStep
    PROVE  PhaseTypeOK'
<1> USE DEF PInv, PhaseTypeOK, Payments
<1>1. CASE PayoutComplete
  BY <1>1 DEF PayoutComplete, phases, sums, numbers, logs, volatile
<1>2. CASE PayDataSet
  BY <1>2 DEF PayDataSet, CountGet, phases, sums, numbers, logs, volatile
<1>3. CASE SaveTotals
  BY <1>3 DEF SaveTotals, phases, sums, numbers, logs, volatile
<1>4. CASE MarkSaved
  BY <1>4 DEF MarkSaved, phases, sums, numbers, logs, volatile
<1>5. CASE \E a \in Areas : AddTo(a)
  BY <1>5 DEF AddTo, phases, sums, numbers, logs, volatile
<1>6. CASE MarkAdded
  BY <1>6 DEF MarkAdded, phases, sums, numbers, logs, volatile
<1>7. CASE LogPayment
  BY <1>7 DEF LogPayment, phases, sums, numbers, logs, volatile
<1>8. CASE AskReceipt
  BY <1>8 DEF AskReceipt, phases, sums, numbers, logs, volatile
<1>9. CASE AskStage
  BY <1>9 DEF AskStage, phases, sums, numbers, logs, volatile
<1>10. CASE AskStore
  BY <1>10 DEF AskStore, phases, sums, numbers, logs, volatile
<1>11. CASE AskPut
  BY <1>11 DEF AskPut, phases, sums, numbers, logs, volatile
<1>12. CASE MarkLogged
  BY <1>12 DEF MarkLogged, phases, sums, numbers, logs, volatile
<1>13. CASE CountUp
  BY <1>13 DEF CountUp, phases, sums, numbers, logs, volatile
<1>14. CASE CountReturn
  BY <1>14 DEF CountReturn, phases, sums, numbers, logs, volatile
<1>15. CASE MarkCounted
  BY <1>15 DEF MarkCounted, phases, sums, numbers, logs, volatile
<1>16. CASE LogMoney
  BY <1>16 DEF LogMoney, phases, sums, numbers, logs, volatile
<1> QED BY <1>1, <1>2, <1>3, <1>4, <1>5, <1>6, <1>7, <1>8, <1>9, <1>10, <1>11, <1>12, <1>13, <1>14, <1>15, <1>16 DEF PayStep

\* A T close: the same.
LEMMA PhaseTypeClose ==
    ASSUME PInv, CloseStep
    PROVE  PhaseTypeOK'
<1> USE DEF PInv, PhaseTypeOK, Payments
<1>1. CASE PrintReport
  BY <1>1 DEF PrintReport, phases, sums, numbers, logs, volatile
<1>2. CASE ReportPrinted
  <2>1. report
    BY <1>2 DEF ReportPrinted
  <2>2. closes < MaxCloses
    BY <2>1 DEF PhaseInv
  <2>3. closes + 1 \in 0..MaxCloses
    BY <2>2, BoundsAssumption
  <2>4. closes' \in 0..MaxCloses
    BY <1>2, <2>3 DEF ReportPrinted
  <2>5. /\ syu' = 12 /\ pc' = "close"
        /\ UNCHANGED <<cycl, paid, number, lent, tnumber, tlent, paylog, tlog, cuts>>
    BY <1>2 DEF ReportPrinted, phases, sums, numbers, logs
  <2>6. report' \in BOOLEAN
    BY Zenon, <1>2 DEF ReportPrinted
  <2> QED BY <2>4, <2>5, <2>6
<1>3. CASE CloseSave
  BY <1>3 DEF CloseSave, phases, sums, numbers, logs, volatile
<1>4. CASE CloseAdd
  BY <1>4 DEF CloseAdd, phases, sums, numbers, logs, volatile
<1>5. CASE CloseMarkAdded
  BY <1>5 DEF CloseMarkAdded, phases, sums, numbers, logs, volatile
<1>6. CASE CloseLog
  BY <1>6 DEF CloseLog, phases, sums, numbers, logs, volatile
<1>7. CASE CloseLogged
  BY <1>7 DEF CloseLogged, phases, sums, numbers, logs, volatile
<1>8. CASE CloseSaveT
  BY <1>8 DEF CloseSaveT, phases, sums, numbers, logs, volatile
<1>9. CASE CloseTake
  BY <1>9 DEF CloseTake, phases, sums, numbers, logs, volatile
<1>10. CASE CloseMarkTaken
  BY <1>10 DEF CloseMarkTaken, phases, sums, numbers, logs, volatile
<1>11. CASE TCountUp
  BY <1>11 DEF TCountUp, phases, sums, numbers, logs, volatile
<1>12. CASE TCountReturn
  BY <1>12 DEF TCountReturn, phases, sums, numbers, logs, volatile
<1> QED BY <1>1, <1>2, <1>3, <1>4, <1>5, <1>6, <1>7, <1>8, <1>9, <1>10, <1>11, <1>12 DEF CloseStep

\* Start-up and a power cut: the same.
LEMMA PhaseTypeStart ==
    ASSUME PInv, StartStep
    PROVE  PhaseTypeOK'
<1> USE DEF PInv, PhaseTypeOK, Payments
<1>1. CASE Fukuden
  BY <1>1 DEF Fukuden, FukudenPay, phases, sums, numbers, logs, volatile
<1>2. CASE FukudenRestore
  BY <1>2 DEF FukudenRestore, phases, sums, numbers, logs, volatile
<1>3. CASE FukudenClose
  BY <1>3 DEF FukudenClose, FukudenGT, phases, sums, numbers, logs, volatile
<1>4. CASE FukudenRelog
  BY <1>4 DEF FukudenRelog, phases, sums, numbers, logs, volatile
<1>5. CASE FukudenResave
  BY <1>5 DEF FukudenResave, phases, sums, numbers, logs, volatile
<1>6. CASE FukudenRetake
  BY <1>6 DEF FukudenRetake, phases, sums, numbers, logs, volatile
<1>7. CASE FukudenNone
  BY <1>7 DEF FukudenNone, phases, sums, numbers, logs, volatile
<1>8. CASE Cut
  <2>1. cuts + 1 \in 0..MaxCuts
    BY <1>8, BoundsAssumption DEF Cut
  <2>2. cuts' \in 0..MaxCuts
    BY <1>8, <2>1 DEF Cut
  <2> QED BY <1>8, <2>2 DEF Cut, phases, sums, numbers, logs, volatile
<1> QED BY <1>1, <1>2, <1>3, <1>4, <1>5, <1>6, <1>7, <1>8 DEF StartStep

\* A payment: the types of the totals.
LEMMA TypePay ==
    ASSUME IInv, PayStep
    PROVE  TotalsTypeOK'
<1> USE DEF IInv, PInv, PhaseTypeOK, TotalsTypeOK, Areas, Payments
<1>1. CASE PayoutComplete
  BY <1>1 DEF PayoutComplete, phases, sums, numbers, logs, volatile
<1>2. CASE PayDataSet
  BY <1>2 DEF PayDataSet, CountGet, phases, sums, numbers, logs, volatile
<1>3. CASE SaveTotals
  BY <1>3 DEF SaveTotals, phases, sums, numbers, logs, volatile
<1>4. CASE MarkSaved
  BY <1>4 DEF MarkSaved, phases, sums, numbers, logs, volatile
<1>5. CASE \E a \in Areas : AddTo(a)
  <2>1. PICK a \in Areas : AddTo(a)
    BY <1>5
  <2>2. total[a] + 1 \in Nat
    BY <2>1
  <2>3. total' = [total EXCEPT ![a] = total[a] + 1] /\ added' = added \cup {a}
    BY <2>1 DEF AddTo
  <2>4. total' \in [Areas -> Nat] /\ added' \in SUBSET Areas
    BY <2>2, <2>3
  <2> QED BY <2>1, <2>4 DEF AddTo, phases, sums, numbers, logs, volatile
<1>6. CASE MarkAdded
  BY <1>6 DEF MarkAdded, phases, sums, numbers, logs, volatile
<1>7. CASE LogPayment
  BY <1>7 DEF LogPayment, phases, sums, numbers, logs, volatile
<1>8. CASE AskReceipt
  BY <1>8 DEF AskReceipt, phases, sums, numbers, logs, volatile
<1>9. CASE AskStage
  BY <1>9 DEF AskStage, phases, sums, numbers, logs, volatile
<1>10. CASE AskStore
  BY <1>10 DEF AskStore, phases, sums, numbers, logs, volatile
<1>11. CASE AskPut
  BY <1>11 DEF AskPut, phases, sums, numbers, logs, volatile
<1>12. CASE MarkLogged
  BY <1>12 DEF MarkLogged, phases, sums, numbers, logs, volatile
<1>13. CASE CountUp
  BY <1>13 DEF CountUp, phases, sums, numbers, logs, volatile
<1>14. CASE CountReturn
  BY <1>14 DEF CountReturn, phases, sums, numbers, logs, volatile
<1>15. CASE MarkCounted
  BY <1>15 DEF MarkCounted, phases, sums, numbers, logs, volatile
<1>16. CASE LogMoney
  BY <1>16 DEF LogMoney, phases, sums, numbers, logs, volatile
<1> QED BY <1>1, <1>2, <1>3, <1>4, <1>5, <1>6, <1>7, <1>8, <1>9, <1>10, <1>11, <1>12, <1>13, <1>14, <1>15, <1>16 DEF PayStep

\* A T close: the types of the totals.
LEMMA TypeClose ==
    ASSUME IInv, CloseStep
    PROVE  TotalsTypeOK'
<1> USE DEF IInv, PInv, PhaseTypeOK, TotalsTypeOK, Areas, Payments
<1>1. CASE PrintReport
  BY <1>1 DEF PrintReport, phases, sums, numbers, logs, volatile
<1>2. CASE ReportPrinted
  <2>1. report
    BY <1>2 DEF ReportPrinted
  <2>2. closes < MaxCloses
    BY <2>1 DEF PhaseInv
  <2>3. closes + 1 \in 0..MaxCloses
    BY <2>2, BoundsAssumption
  <2>4. closes' \in 0..MaxCloses
    BY <1>2, <2>3 DEF ReportPrinted
  <2>5. /\ syu' = 12 /\ pc' = "close"
        /\ UNCHANGED <<cycl, total, work, gt, skyprn, paid, number, lent, tnumber,
                       tlent, paylog, tlog, added, cuts>>
    BY <1>2 DEF ReportPrinted, phases, sums, numbers, logs
  <2>6. report' \in BOOLEAN
    BY Zenon, <1>2 DEF ReportPrinted
  <2> QED BY <2>4, <2>5, <2>6
<1>3. CASE CloseSave
  BY <1>3 DEF CloseSave, phases, sums, numbers, logs, volatile
<1>4. CASE CloseAdd
  BY <1>4 DEF CloseAdd, phases, sums, numbers, logs, volatile
<1>5. CASE CloseMarkAdded
  BY <1>5 DEF CloseMarkAdded, phases, sums, numbers, logs, volatile
<1>6. CASE CloseLog
  BY <1>6 DEF CloseLog, phases, sums, numbers, logs, volatile
<1>7. CASE CloseLogged
  BY <1>7 DEF CloseLogged, phases, sums, numbers, logs, volatile
<1>8. CASE CloseSaveT
  BY <1>8 DEF CloseSaveT, phases, sums, numbers, logs, volatile
<1>9. CASE CloseTake
  <2>1. syu = 17 /\ pc = "close" /\ cycl = 0
    BY <1>9 DEF CloseTake, PhaseInv, Going
  <2>2. total["t"] - skyprn = 0
    BY <2>1 DEF TotalsInv, Taking
  <2>3. total' = [total EXCEPT !["t"] = 0, !["place"] = 0]
    BY <1>9, <2>2 DEF CloseTake
  <2>4. total' \in [Areas -> Nat]
    BY <2>3
  <2>5. /\ pc' = "taken"
        /\ UNCHANGED <<cycl, syu, work, gt, skyprn, paid, number, lent, tnumber,
                       tlent, paylog, tlog, added, report, cuts, closes>>
    BY <1>9 DEF CloseTake, phases, sums, numbers, logs, volatile
  <2> QED BY <2>4, <2>5
<1>10. CASE CloseMarkTaken
  BY <1>10 DEF CloseMarkTaken, phases, sums, numbers, logs, volatile
<1>11. CASE TCountUp
  BY <1>11 DEF TCountUp, phases, sums, numbers, logs, volatile
<1>12. CASE TCountReturn
  BY <1>12 DEF TCountReturn, phases, sums, numbers, logs, volatile
<1> QED BY <1>1, <1>2, <1>3, <1>4, <1>5, <1>6, <1>7, <1>8, <1>9, <1>10, <1>11, <1>12 DEF CloseStep

\* Start-up and a power cut: the types of the totals.
LEMMA TypeStart ==
    ASSUME IInv, StartStep, Shut
    PROVE  TotalsTypeOK'
<1> USE DEF IInv, PInv, PhaseTypeOK, TotalsTypeOK, Areas, Payments
<1>1. CASE Fukuden
  BY <1>1 DEF Fukuden, FukudenPay, phases, sums, numbers, logs, volatile
<1>2. CASE FukudenRestore
  BY <1>2 DEF FukudenRestore, phases, sums, numbers, logs, volatile
<1>3. CASE FukudenClose
  BY <1>3 DEF FukudenClose, FukudenGT, phases, sums, numbers, logs, volatile
<1>4. CASE FukudenRelog
  BY <1>4 DEF FukudenRelog, phases, sums, numbers, logs, volatile
<1>5. CASE FukudenResave
  BY <1>5 DEF FukudenResave, phases, sums, numbers, logs, volatile
<1>6. CASE FukudenRetake
  <2>1. syu = 17 /\ pc = "resub" /\ cycl = 0
    BY <1>6 DEF FukudenRetake, PhaseInv, Going
  <2>2. total["t"] - skyprn = 0
    BY <2>1 DEF TotalsInv, Taking
  <2>3. total' = [total EXCEPT !["t"] = 0]
    BY <1>6, <2>2 DEF FukudenRetake
  <2>4. total' \in [Areas -> Nat]
    BY <2>3
  <2>5. /\ pc' = "taken"
        /\ UNCHANGED <<cycl, syu, work, gt, skyprn, paid, number, lent, tnumber,
                       tlent, paylog, tlog, added, report, cuts, closes>>
    BY <1>6 DEF FukudenRetake, phases, sums, numbers, logs, volatile
  <2> QED BY <2>4, <2>5
<1>7. CASE FukudenNone
  BY <1>7 DEF FukudenNone, phases, sums, numbers, logs, volatile
<1>8. CASE Cut
  <2>1. cuts + 1 \in 0..MaxCuts
    BY <1>8, BoundsAssumption DEF Cut
  <2>2. cuts' \in 0..MaxCuts
    BY <1>8, <2>1 DEF Cut
  <2> QED BY <1>8, <2>2 DEF Cut, phases, sums, numbers, logs, volatile
<1> QED BY <1>1, <1>2, <1>3, <1>4, <1>5, <1>6, <1>7, <1>8 DEF StartStep

\* A payment: the place of each phase.
LEMMA PhasePay ==
    ASSUME PInv, PayStep
    PROVE  PhaseInv'
<1> USE DEF PInv, PhaseTypeOK, Going, Payments, PhaseInv
<1>1. CASE PayoutComplete
  BY <1>1 DEF PayoutComplete, phases, sums, numbers, logs, volatile
<1>2. CASE PayDataSet
  BY <1>2 DEF PayDataSet, CountGet, phases, sums, numbers, logs, volatile
<1>3. CASE SaveTotals
  BY <1>3 DEF SaveTotals, phases, sums, numbers, logs, volatile
<1>4. CASE MarkSaved
  BY <1>4 DEF MarkSaved, phases, sums, numbers, logs, volatile
<1>5. CASE \E a \in Areas : AddTo(a)
  BY <1>5 DEF AddTo, phases, sums, numbers, logs, volatile
<1>6. CASE MarkAdded
  BY <1>6 DEF MarkAdded, phases, sums, numbers, logs, volatile
<1>7. CASE LogPayment
  BY <1>7 DEF LogPayment, phases, sums, numbers, logs, volatile
<1>8. CASE AskReceipt
  BY <1>8 DEF AskReceipt, phases, sums, numbers, logs, volatile
<1>9. CASE AskStage
  BY <1>9 DEF AskStage, phases, sums, numbers, logs, volatile
<1>10. CASE AskStore
  BY <1>10 DEF AskStore, phases, sums, numbers, logs, volatile
<1>11. CASE AskPut
  BY <1>11 DEF AskPut, phases, sums, numbers, logs, volatile
<1>12. CASE MarkLogged
  BY <1>12 DEF MarkLogged, phases, sums, numbers, logs, volatile
<1>13. CASE CountUp
  BY <1>13 DEF CountUp, phases, sums, numbers, logs, volatile
<1>14. CASE CountReturn
  BY <1>14 DEF CountReturn, phases, sums, numbers, logs, volatile
<1>15. CASE MarkCounted
  BY <1>15 DEF MarkCounted, phases, sums, numbers, logs, volatile
<1>16. CASE LogMoney
  BY <1>16 DEF LogMoney, phases, sums, numbers, logs, volatile
<1> QED BY <1>1, <1>2, <1>3, <1>4, <1>5, <1>6, <1>7, <1>8, <1>9, <1>10, <1>11, <1>12, <1>13, <1>14, <1>15, <1>16 DEF PayStep

\* A T close: the place of each phase.
LEMMA PhaseClose ==
    ASSUME PInv, CloseStep
    PROVE  PhaseInv'
<1> USE DEF PInv, PhaseTypeOK, Going, Payments, PhaseInv
<1>1. CASE PrintReport
  BY <1>1 DEF PrintReport, phases, sums, numbers, logs, volatile
<1>2. CASE ReportPrinted
  BY <1>2 DEF ReportPrinted, phases, sums, numbers, logs, volatile
<1>3. CASE CloseSave
  BY <1>3 DEF CloseSave, phases, sums, numbers, logs, volatile
<1>4. CASE CloseAdd
  BY <1>4 DEF CloseAdd, phases, sums, numbers, logs, volatile
<1>5. CASE CloseMarkAdded
  BY <1>5 DEF CloseMarkAdded, phases, sums, numbers, logs, volatile
<1>6. CASE CloseLog
  BY <1>6 DEF CloseLog, phases, sums, numbers, logs, volatile
<1>7. CASE CloseLogged
  BY <1>7 DEF CloseLogged, phases, sums, numbers, logs, volatile
<1>8. CASE CloseSaveT
  BY <1>8 DEF CloseSaveT, phases, sums, numbers, logs, volatile
<1>9. CASE CloseTake
  BY <1>9 DEF CloseTake, phases, sums, numbers, logs, volatile
<1>10. CASE CloseMarkTaken
  BY <1>10 DEF CloseMarkTaken, phases, sums, numbers, logs, volatile
<1>11. CASE TCountUp
  BY <1>11 DEF TCountUp, phases, sums, numbers, logs, volatile
<1>12. CASE TCountReturn
  BY <1>12 DEF TCountReturn, phases, sums, numbers, logs, volatile
<1> QED BY <1>1, <1>2, <1>3, <1>4, <1>5, <1>6, <1>7, <1>8, <1>9, <1>10, <1>11, <1>12 DEF CloseStep

\* Start-up and a power cut: the place of each phase.
LEMMA PhaseStart ==
    ASSUME PInv, StartStep
    PROVE  PhaseInv'
<1> USE DEF PInv, PhaseTypeOK, Going, Payments, PhaseInv
<1>1. CASE Fukuden
  <2>1. pc = "boot" /\ cycl # 0 /\ pc' = FukudenPay
            /\ UNCHANGED <<cycl, syu, paid, report, closes>>
    BY <1>1 DEF Fukuden, phases, sums, numbers, logs, volatile
  <2>2. <<cycl, pc'>> \in {<<13, "data">>, <<14, "restore">>, <<15, "boot15">>,
                         <<16, "copy">>, <<19, "count">>, <<17, "money">>}
    BY <2>1 DEF FukudenPay
  <2> QED BY <2>1, <2>2
<1>2. CASE FukudenRestore
  BY <1>2 DEF FukudenRestore, phases, sums, numbers, logs, volatile
<1>3. CASE FukudenClose
  BY <1>3 DEF FukudenClose, FukudenGT, phases, sums, numbers, logs, volatile
<1>4. CASE FukudenRelog
  BY <1>4 DEF FukudenRelog, phases, sums, numbers, logs, volatile
<1>5. CASE FukudenResave
  BY <1>5 DEF FukudenResave, phases, sums, numbers, logs, volatile
<1>6. CASE FukudenRetake
  BY <1>6 DEF FukudenRetake, phases, sums, numbers, logs, volatile
<1>7. CASE FukudenNone
  BY <1>7 DEF FukudenNone, phases, sums, numbers, logs, volatile
<1>8. CASE Cut
  BY <1>8 DEF Cut, phases, sums, numbers, logs, volatile
<1> QED BY <1>1, <1>2, <1>3, <1>4, <1>5, <1>6, <1>7, <1>8 DEF StartStep

\* A payment: the totals.
LEMMA TotalsPay ==
    ASSUME IInv, PayStep
    PROVE  TotalsInv'
<1> USE DEF IInv, PInv, PhaseTypeOK, TotalsTypeOK, PhaseInv, Going, PaymentIn, Taking, Hold, Areas, TotalsInv
<1>1. CASE PayoutComplete
  <2>1. pc = "idle" /\ cycl = 0 /\ syu \in {0, 18} /\ ~report
    BY <1>1 DEF PayoutComplete
  <2>2. Hold(total, gt, paid)
    BY <2>1
  <2>3. /\ cycl' = 13 /\ pc' = "data" /\ paid' = paid + 1
        /\ UNCHANGED <<syu, total, work, gt, skyprn, report>>
    BY <1>1 DEF PayoutComplete, phases, sums
  <2>4. paid' - 1 = paid
    BY <2>3 DEF Payments
  <2>5. Hold(total', gt', paid' - 1)
    BY <2>2, <2>3, <2>4
  <2> HIDE DEF Hold
  <2> QED BY <2>1, <2>3, <2>5
<1>2. CASE PayDataSet
  BY <1>2 DEF PayDataSet, CountGet, phases, sums, numbers, logs, volatile
<1>3. CASE SaveTotals
  BY <1>3 DEF SaveTotals, phases, sums, numbers, logs, volatile
<1>4. CASE MarkSaved
  BY <1>4 DEF MarkSaved, phases, sums, numbers, logs, volatile
<1>5. CASE \E a \in Areas : AddTo(a)
  <2>1. PICK a \in Areas : AddTo(a)
    BY <1>5
  <2>2. cycl = 14 /\ pc = "add" /\ a \notin added /\ syu \in {0, 18} /\ ~report
    BY <2>1 DEF AddTo
  <2>3. /\ total' = [total EXCEPT ![a] = total[a] + 1] /\ added' = added \cup {a}
        /\ UNCHANGED <<cycl, syu, work, gt, skyprn, paid, pc, report>>
    BY <2>1 DEF AddTo, phases
  <2>4. Hold(work, gt, paid - 1)
    BY <2>2
  <2>5. \A b \in Areas :
           total[b] = IF b \in added THEN work[b] + 1 ELSE work[b]
    BY <2>2
  <2>6. \A b \in Areas :
           total'[b] = IF b \in added' THEN work[b] + 1 ELSE work[b]
    BY <2>2, <2>3, <2>5
  <2> HIDE DEF Hold
  <2> QED BY <2>2, <2>3, <2>4, <2>6
<1>6. CASE MarkAdded
  <2>1. cycl = 14 /\ pc = "add" /\ added = Areas
    BY <1>6 DEF MarkAdded
  <2>2. Hold(work, gt, paid - 1)
    BY <2>1
  <2>3. total["t"] = work["t"] + 1 /\ total["place"] = work["place"] + 1
            /\ total["day"] = work["day"] + 1
    BY <2>1
  <2>4. /\ work["t"] \in Nat /\ work["place"] \in Nat /\ work["day"] \in Nat
        /\ gt \in Nat /\ paid \in Nat
    BY DEF Payments
  <2>5. /\ work["day"] = paid - 1 /\ work["t"] + gt = paid - 1
        /\ work["t"] <= work["place"] /\ work["place"] <= paid - 1
    BY <2>2 DEF Hold
  <2>6. /\ total["day"] = paid /\ total["t"] + gt = paid
        /\ total["t"] <= total["place"] /\ total["place"] <= paid
    BY ONLY <2>3, <2>4, <2>5
  <2>7. Hold(total, gt, paid)
    BY <2>6 DEF Hold
  <2>8. cycl' = 15 /\ pc' = "log" /\ UNCHANGED <<syu, total, work, gt, skyprn, paid, report>>
    BY <1>6 DEF MarkAdded, phases, sums, numbers, logs, volatile
  <2>9. syu \in {0, 18} /\ ~report
    BY <2>1
  <2> QED BY <2>7, <2>8, <2>9
<1>7. CASE LogPayment
  BY <1>7 DEF LogPayment, phases, sums, numbers, logs, volatile
<1>8. CASE AskReceipt
  BY <1>8 DEF AskReceipt, phases, sums, numbers, logs, volatile
<1>9. CASE AskStage
  BY <1>9 DEF AskStage, phases, sums, numbers, logs, volatile
<1>10. CASE AskStore
  BY <1>10 DEF AskStore, phases, sums, numbers, logs, volatile
<1>11. CASE AskPut
  BY <1>11 DEF AskPut, phases, sums, numbers, logs, volatile
<1>12. CASE MarkLogged
  BY <1>12 DEF MarkLogged, phases, sums, numbers, logs, volatile
<1>13. CASE CountUp
  BY <1>13 DEF CountUp, phases, sums, numbers, logs, volatile
<1>14. CASE CountReturn
  BY <1>14 DEF CountReturn, phases, sums, numbers, logs, volatile
<1>15. CASE MarkCounted
  BY <1>15 DEF MarkCounted, phases, sums, numbers, logs, volatile
<1>16. CASE LogMoney
  BY <1>16 DEF LogMoney, phases, sums, numbers, logs, volatile
<1> QED BY <1>1, <1>2, <1>3, <1>4, <1>5, <1>6, <1>7, <1>8, <1>9, <1>10, <1>11, <1>12, <1>13, <1>14, <1>15, <1>16 DEF PayStep

\* A T close: the totals.
LEMMA TotalsClose ==
    ASSUME IInv, CloseStep
    PROVE  TotalsInv'
<1> USE DEF IInv, PInv, PhaseTypeOK, TotalsTypeOK, PhaseInv, Going, PaymentIn, Taking, Hold, Areas, TotalsInv
<1>1. CASE PrintReport
  BY <1>1 DEF PrintReport, phases, sums, numbers, logs, volatile
<1>2. CASE ReportPrinted
  BY <1>2 DEF ReportPrinted, phases, sums, numbers, logs, volatile
<1>3. CASE CloseSave
  BY <1>3 DEF CloseSave, phases, sums, numbers, logs, volatile
<1>4. CASE CloseAdd
  BY <1>4 DEF CloseAdd, phases, sums, numbers, logs, volatile
<1>5. CASE CloseMarkAdded
  BY <1>5 DEF CloseMarkAdded, phases, sums, numbers, logs, volatile
<1>6. CASE CloseLog
  BY <1>6 DEF CloseLog, phases, sums, numbers, logs, volatile
<1>7. CASE CloseLogged
  BY <1>7 DEF CloseLogged, phases, sums, numbers, logs, volatile
<1>8. CASE CloseSaveT
  BY <1>8 DEF CloseSaveT, phases, sums, numbers, logs, volatile
<1>9. CASE CloseTake
  BY <1>9 DEF CloseTake, phases, sums, numbers, logs, volatile
<1>10. CASE CloseMarkTaken
  BY <1>10 DEF CloseMarkTaken, phases, sums, numbers, logs, volatile
<1>11. CASE TCountUp
  BY <1>11 DEF TCountUp, phases, sums, numbers, logs, volatile
<1>12. CASE TCountReturn
  BY <1>12 DEF TCountReturn, phases, sums, numbers, logs, volatile
<1> QED BY <1>1, <1>2, <1>3, <1>4, <1>5, <1>6, <1>7, <1>8, <1>9, <1>10, <1>11, <1>12 DEF CloseStep

\* Start-up and a power cut: the totals.
LEMMA TotalsStart ==
    ASSUME IInv, StartStep, Shut
    PROVE  TotalsInv'
<1> USE DEF IInv, PInv, PhaseTypeOK, TotalsTypeOK, PhaseInv, Going, PaymentIn, Taking, Hold, Areas, TotalsInv
<1>1. CASE Fukuden
  BY <1>1 DEF Fukuden, FukudenPay, phases, sums, numbers, logs, volatile
<1>2. CASE FukudenRestore
  BY <1>2 DEF FukudenRestore, phases, sums, numbers, logs, volatile
<1>3. CASE FukudenClose
  BY <1>3 DEF FukudenClose, FukudenGT, phases, sums, numbers, logs, volatile
<1>4. CASE FukudenRelog
  BY <1>4 DEF FukudenRelog, phases, sums, numbers, logs, volatile
<1>5. CASE FukudenResave
  BY <1>5 DEF FukudenResave, phases, sums, numbers, logs, volatile
<1>6. CASE FukudenRetake
  BY <1>6 DEF FukudenRetake, phases, sums, numbers, logs, volatile
<1>7. CASE FukudenNone
  BY <1>7 DEF FukudenNone, phases, sums, numbers, logs, volatile
<1>8. CASE Cut
  <2>1. UNCHANGED <<cycl, syu, total, work, gt, skyprn, paid>> /\ pc' = "boot" /\ ~report'
    BY <1>8 DEF Cut, phases, sums, numbers, logs, volatile
  <2>2. ~TotalsAdded /\ ~TotalsTaken
    BY <1>8, WindowsShut
  <2>3. cycl = 14 => total["t"] = work["t"]
    BY <2>2 DEF TotalsAdded
  <2>4. Taking => pc # "taken"
    BY <2>2 DEF TotalsTaken
  <2> QED BY <2>1, <2>3, <2>4
<1> QED BY <1>1, <1>2, <1>3, <1>4, <1>5, <1>6, <1>7, <1>8 DEF StartStep

\* A payment: the payment numbers.
LEMMA NumbersPay ==
    ASSUME PInv, PayStep
    PROVE  NumbersInv'
<1> USE DEF PInv, PhaseTypeOK, PhaseInv, Going, NumbersInv
<1>1. CASE PayoutComplete
  BY <1>1 DEF PayoutComplete, phases, sums, numbers, logs, volatile
<1>2. CASE PayDataSet
  BY <1>2 DEF PayDataSet, CountGet, phases, sums, numbers, logs, volatile
<1>3. CASE SaveTotals
  BY <1>3 DEF SaveTotals, phases, sums, numbers, logs, volatile
<1>4. CASE MarkSaved
  BY <1>4 DEF MarkSaved, phases, sums, numbers, logs, volatile
<1>5. CASE \E a \in Areas : AddTo(a)
  BY <1>5 DEF AddTo, phases, sums, numbers, logs, volatile
<1>6. CASE MarkAdded
  BY <1>6 DEF MarkAdded, phases, sums, numbers, logs, volatile
<1>7. CASE LogPayment
  BY <1>7 DEF LogPayment, phases, sums, numbers, logs, volatile
<1>8. CASE AskReceipt
  BY <1>8 DEF AskReceipt, phases, sums, numbers, logs, volatile
<1>9. CASE AskStage
  BY <1>9 DEF AskStage, phases, sums, numbers, logs, volatile
<1>10. CASE AskStore
  BY <1>10 DEF AskStore, phases, sums, numbers, logs, volatile
<1>11. CASE AskPut
  BY <1>11 DEF AskPut, phases, sums, numbers, logs, volatile
<1>12. CASE MarkLogged
  BY <1>12 DEF MarkLogged, phases, sums, numbers, logs, volatile
<1>13. CASE CountUp
  BY <1>13 DEF CountUp, phases, sums, numbers, logs, volatile
<1>14. CASE CountReturn
  BY <1>14 DEF CountReturn, phases, sums, numbers, logs, volatile
<1>15. CASE MarkCounted
  BY <1>15 DEF MarkCounted, phases, sums, numbers, logs, volatile
<1>16. CASE LogMoney
  BY <1>16 DEF LogMoney, phases, sums, numbers, logs, volatile
<1> QED BY <1>1, <1>2, <1>3, <1>4, <1>5, <1>6, <1>7, <1>8, <1>9, <1>10, <1>11, <1>12, <1>13, <1>14, <1>15, <1>16 DEF PayStep

\* A T close: the payment numbers.
LEMMA NumbersClose ==
    ASSUME PInv, CloseStep
    PROVE  NumbersInv'
<1> USE DEF PInv, PhaseTypeOK, PhaseInv, Going, NumbersInv
<1>1. CASE PrintReport
  BY <1>1 DEF PrintReport, phases, sums, numbers, logs, volatile
<1>2. CASE ReportPrinted
  BY <1>2 DEF ReportPrinted, phases, sums, numbers, logs, volatile
<1>3. CASE CloseSave
  BY <1>3 DEF CloseSave, phases, sums, numbers, logs, volatile
<1>4. CASE CloseAdd
  BY <1>4 DEF CloseAdd, phases, sums, numbers, logs, volatile
<1>5. CASE CloseMarkAdded
  BY <1>5 DEF CloseMarkAdded, phases, sums, numbers, logs, volatile
<1>6. CASE CloseLog
  BY <1>6 DEF CloseLog, phases, sums, numbers, logs, volatile
<1>7. CASE CloseLogged
  BY <1>7 DEF CloseLogged, phases, sums, numbers, logs, volatile
<1>8. CASE CloseSaveT
  BY <1>8 DEF CloseSaveT, phases, sums, numbers, logs, volatile
<1>9. CASE CloseTake
  BY <1>9 DEF CloseTake, phases, sums, numbers, logs, volatile
<1>10. CASE CloseMarkTaken
  BY <1>10 DEF CloseMarkTaken, phases, sums, numbers, logs, volatile
<1>11. CASE TCountUp
  BY <1>11 DEF TCountUp, phases, sums, numbers, logs, volatile
<1>12. CASE TCountReturn
  BY <1>12 DEF TCountReturn, phases, sums, numbers, logs, volatile
<1> QED BY <1>1, <1>2, <1>3, <1>4, <1>5, <1>6, <1>7, <1>8, <1>9, <1>10, <1>11, <1>12 DEF CloseStep

\* Start-up and a power cut: the payment numbers.
LEMMA NumbersStart ==
    ASSUME PInv, StartStep
    PROVE  NumbersInv'
<1> USE DEF PInv, PhaseTypeOK, PhaseInv, Going, NumbersInv
<1>1. CASE Fukuden
  BY <1>1 DEF Fukuden, FukudenPay, phases, sums, numbers, logs, volatile
<1>2. CASE FukudenRestore
  BY <1>2 DEF FukudenRestore, phases, sums, numbers, logs, volatile
<1>3. CASE FukudenClose
  BY <1>3 DEF FukudenClose, FukudenGT, phases, sums, numbers, logs, volatile
<1>4. CASE FukudenRelog
  BY <1>4 DEF FukudenRelog, phases, sums, numbers, logs, volatile
<1>5. CASE FukudenResave
  BY <1>5 DEF FukudenResave, phases, sums, numbers, logs, volatile
<1>6. CASE FukudenRetake
  BY <1>6 DEF FukudenRetake, phases, sums, numbers, logs, volatile
<1>7. CASE FukudenNone
  BY <1>7 DEF FukudenNone, phases, sums, numbers, logs, volatile
<1>8. CASE Cut
  BY <1>8 DEF Cut, phases, sums, numbers, logs, volatile
<1> QED BY <1>1, <1>2, <1>3, <1>4, <1>5, <1>6, <1>7, <1>8 DEF StartStep

\* A payment: the T total numbers.
LEMMA TNumbersPay ==
    ASSUME PInv, TNumbersInv, PayStep
    PROVE  TNumbersInv'
<1> USE DEF PInv, PhaseTypeOK, PhaseInv, Going, TNumbersInv
<1>1. CASE PayoutComplete
  BY <1>1 DEF PayoutComplete, phases, sums, numbers, logs, volatile
<1>2. CASE PayDataSet
  BY <1>2 DEF PayDataSet, CountGet, phases, sums, numbers, logs, volatile
<1>3. CASE SaveTotals
  BY <1>3 DEF SaveTotals, phases, sums, numbers, logs, volatile
<1>4. CASE MarkSaved
  BY <1>4 DEF MarkSaved, phases, sums, numbers, logs, volatile
<1>5. CASE \E a \in Areas : AddTo(a)
  BY <1>5 DEF AddTo, phases, sums, numbers, logs, volatile
<1>6. CASE MarkAdded
  BY <1>6 DEF MarkAdded, phases, sums, numbers, logs, volatile
<1>7. CASE LogPayment
  BY <1>7 DEF LogPayment, phases, sums, numbers, logs, volatile
<1>8. CASE AskReceipt
  BY <1>8 DEF AskReceipt, phases, sums, numbers, logs, volatile
<1>9. CASE AskStage
  BY <1>9 DEF AskStage, phases, sums, numbers, logs, volatile
<1>10. CASE AskStore
  BY <1>10 DEF AskStore, phases, sums, numbers, logs, volatile
<1>11. CASE AskPut
  BY <1>11 DEF AskPut, phases, sums, numbers, logs, volatile
<1>12. CASE MarkLogged
  BY <1>12 DEF MarkLogged, phases, sums, numbers, logs, volatile
<1>13. CASE CountUp
  BY <1>13 DEF CountUp, phases, sums, numbers, logs, volatile
<1>14. CASE CountReturn
  BY <1>14 DEF CountReturn, phases, sums, numbers, logs, volatile
<1>15. CASE MarkCounted
  BY <1>15 DEF MarkCounted, phases, sums, numbers, logs, volatile
<1>16. CASE LogMoney
  BY <1>16 DEF LogMoney, phases, sums, numbers, logs, volatile
<1> QED BY <1>1, <1>2, <1>3, <1>4, <1>5, <1>6, <1>7, <1>8, <1>9, <1>10, <1>11, <1>12, <1>13, <1>14, <1>15, <1>16 DEF PayStep

\* A T close: the T total numbers.
LEMMA TNumbersClose ==
    ASSUME PInv, TNumbersInv, CloseStep
    PROVE  TNumbersInv'
<1> USE DEF PInv, PhaseTypeOK, PhaseInv, Going, TNumbersInv
<1>1. CASE PrintReport
  BY <1>1 DEF PrintReport, phases, sums, numbers, logs, volatile
<1>2. CASE ReportPrinted
  BY <1>2 DEF ReportPrinted, phases, sums, numbers, logs, volatile
<1>3. CASE CloseSave
  BY <1>3 DEF CloseSave, phases, sums, numbers, logs, volatile
<1>4. CASE CloseAdd
  BY <1>4 DEF CloseAdd, phases, sums, numbers, logs, volatile
<1>5. CASE CloseMarkAdded
  BY <1>5 DEF CloseMarkAdded, phases, sums, numbers, logs, volatile
<1>6. CASE CloseLog
  BY <1>6 DEF CloseLog, phases, sums, numbers, logs, volatile
<1>7. CASE CloseLogged
  BY <1>7 DEF CloseLogged, phases, sums, numbers, logs, volatile
<1>8. CASE CloseSaveT
  BY <1>8 DEF CloseSaveT, phases, sums, numbers, logs, volatile
<1>9. CASE CloseTake
  BY <1>9 DEF CloseTake, phases, sums, numbers, logs, volatile
<1>10. CASE CloseMarkTaken
  BY <1>10 DEF CloseMarkTaken, phases, sums, numbers, logs, volatile
<1>11. CASE TCountUp
  BY <1>11 DEF TCountUp, phases, sums, numbers, logs, volatile
<1>12. CASE TCountReturn
  BY <1>12 DEF TCountReturn, phases, sums, numbers, logs, volatile
<1> QED BY <1>1, <1>2, <1>3, <1>4, <1>5, <1>6, <1>7, <1>8, <1>9, <1>10, <1>11, <1>12 DEF CloseStep

\* Start-up and a power cut: the T total numbers.
LEMMA TNumbersStart ==
    ASSUME PInv, TNumbersInv, StartStep, "tnumber" \notin CutIn
    PROVE  TNumbersInv'
<1> USE DEF PInv, PhaseTypeOK, PhaseInv, Going, TNumbersInv
<1>1. CASE Fukuden
  BY <1>1 DEF Fukuden, FukudenPay, phases, sums, numbers, logs, volatile
<1>2. CASE FukudenRestore
  BY <1>2 DEF FukudenRestore, phases, sums, numbers, logs, volatile
<1>3. CASE FukudenClose
  BY <1>3 DEF FukudenClose, FukudenGT, phases, sums, numbers, logs, volatile
<1>4. CASE FukudenRelog
  BY <1>4 DEF FukudenRelog, phases, sums, numbers, logs, volatile
<1>5. CASE FukudenResave
  BY <1>5 DEF FukudenResave, phases, sums, numbers, logs, volatile
<1>6. CASE FukudenRetake
  BY <1>6 DEF FukudenRetake, phases, sums, numbers, logs, volatile
<1>7. CASE FukudenNone
  BY <1>7 DEF FukudenNone, phases, sums, numbers, logs, volatile
<1>8. CASE Cut
  <2>1. UNCHANGED <<cycl, syu, tnumber, tlent, tlog>> /\ pc' = "boot" /\ ~report'
    BY <1>8 DEF Cut, phases, sums, numbers, logs, volatile
  <2>2. pc # "tcount"
    BY <1>8, TNumberShut DEF TNumberKept
  <2> QED BY <2>1, <2>2
<1> QED BY <1>1, <1>2, <1>3, <1>4, <1>5, <1>6, <1>7, <1>8 DEF StartStep

\* A T total is logged under the number that has been lent for it.
LEMMA SteadyAppend ==
    ASSUME PInv, TSteadyInv, syu = 14, pc \in {"close", "reclose"}, tlent = tnumber,
           tlog' = Append(tlog, tlent), syu' \in 15..17, pc' \in {"close", "retake"},
           UNCHANGED <<cycl, tnumber, tlent>>, ~report'
    PROVE  TSteadyInv'
<1>1. /\ tlog \in Seq(Nat) /\ tlent \in Nat /\ tlog' \in Seq(Nat)
      /\ Len(tlog') = Len(tlog) + 1 /\ tlog'[Len(tlog')] = tlent
      /\ \A i \in 1 .. Len(tlog) : tlog'[i] = tlog[i]
      /\ Len(tlog) \in Nat /\ DOMAIN tlog = 1 .. Len(tlog) /\ DOMAIN tlog' = 1 .. Len(tlog')
  BY AppendProperties DEF PInv, PhaseTypeOK
<1>2. IF tlog = <<>> THEN tlent = 1 ELSE tlent - tlog[Len(tlog)] \in {0, 1}
  BY DEF TSteadyInv, PInv, PhaseInv, Going
<1>3. TNumbersSteady'
  <2> SUFFICES ASSUME NEW i \in 1 .. Len(tlog) + 1
               PROVE  IF i = 1 THEN tlog'[i] = 1 ELSE tlog'[i] - tlog'[i - 1] \in {0, 1}
    BY <1>1 DEF TNumbersSteady
  <2>1. CASE i <= Len(tlog)
    <3>1. i \in 1 .. Len(tlog) /\ (i # 1 => i - 1 \in 1 .. Len(tlog))
      BY <1>1, <2>1
    <3>2. tlog'[i] = tlog[i] /\ (i # 1 => tlog'[i - 1] = tlog[i - 1])
      BY <1>1, <3>1
    <3>3. IF i = 1 THEN tlog[i] = 1 ELSE tlog[i] - tlog[i - 1] \in {0, 1}
      BY <1>1, <3>1 DEF TSteadyInv, TNumbersSteady
    <3> QED BY <3>2, <3>3
  <2>2. CASE i = Len(tlog) + 1
    <3>1. tlog'[i] = tlent
      BY <1>1, <2>2
    <3>2. CASE tlog = <<>>
      BY <1>1, <1>2, <2>2, <3>1, <3>2
    <3>3. CASE tlog # <<>>
      <4>1. Len(tlog) \in 1 .. Len(tlog) /\ i - 1 = Len(tlog) /\ i # 1
        BY <1>1, <2>2, <3>3, EmptySeq
      <4>2. tlog'[i - 1] = tlog[Len(tlog)]
        BY <1>1, <4>1
      <4> QED BY <1>2, <3>1, <3>3, <4>1, <4>2
    <3> QED BY <3>2, <3>3
  <2> QED BY <1>1, <2>1, <2>2
<1>4. tlog' # <<>> /\ tnumber' = tlog'[Len(tlog')]
  BY <1>1
<1> QED BY <1>3, <1>4 DEF TSteadyInv, PInv, PhaseInv, Going

\* A payment: the T total numbers, wherever the power is cut.
LEMMA SteadyPay ==
    ASSUME PInv, TSteadyInv, PayStep
    PROVE  TSteadyInv'
<1> USE DEF PInv, PhaseTypeOK, PhaseInv, Going, TSteadyInv, TNumbersSteady
<1>1. CASE PayoutComplete
  BY <1>1 DEF PayoutComplete, phases, sums, numbers, logs, volatile
<1>2. CASE PayDataSet
  BY <1>2 DEF PayDataSet, CountGet, phases, sums, numbers, logs, volatile
<1>3. CASE SaveTotals
  BY <1>3 DEF SaveTotals, phases, sums, numbers, logs, volatile
<1>4. CASE MarkSaved
  BY <1>4 DEF MarkSaved, phases, sums, numbers, logs, volatile
<1>5. CASE \E a \in Areas : AddTo(a)
  BY <1>5 DEF AddTo, phases, sums, numbers, logs, volatile
<1>6. CASE MarkAdded
  BY <1>6 DEF MarkAdded, phases, sums, numbers, logs, volatile
<1>7. CASE LogPayment
  BY <1>7 DEF LogPayment, phases, sums, numbers, logs, volatile
<1>8. CASE AskReceipt
  BY <1>8 DEF AskReceipt, phases, sums, numbers, logs, volatile
<1>9. CASE AskStage
  BY <1>9 DEF AskStage, phases, sums, numbers, logs, volatile
<1>10. CASE AskStore
  BY <1>10 DEF AskStore, phases, sums, numbers, logs, volatile
<1>11. CASE AskPut
  BY <1>11 DEF AskPut, phases, sums, numbers, logs, volatile
<1>12. CASE MarkLogged
  BY <1>12 DEF MarkLogged, phases, sums, numbers, logs, volatile
<1>13. CASE CountUp
  BY <1>13 DEF CountUp, phases, sums, numbers, logs, volatile
<1>14. CASE CountReturn
  BY <1>14 DEF CountReturn, phases, sums, numbers, logs, volatile
<1>15. CASE MarkCounted
  BY <1>15 DEF MarkCounted, phases, sums, numbers, logs, volatile
<1>16. CASE LogMoney
  BY <1>16 DEF LogMoney, phases, sums, numbers, logs, volatile
<1> QED BY <1>1, <1>2, <1>3, <1>4, <1>5, <1>6, <1>7, <1>8, <1>9, <1>10, <1>11, <1>12, <1>13, <1>14, <1>15, <1>16 DEF PayStep

\* A T close: the same.
LEMMA SteadyClose ==
    ASSUME PInv, TSteadyInv, CloseStep
    PROVE  TSteadyInv'
<1> USE DEF PInv, PhaseTypeOK, PhaseInv, Going, TSteadyInv, TNumbersSteady
<1>1. CASE PrintReport
  BY <1>1 DEF PrintReport, phases, sums, numbers, logs, volatile
<1>2. CASE ReportPrinted
  BY <1>2 DEF ReportPrinted, phases, sums, numbers, logs, volatile
<1>3. CASE CloseSave
  BY <1>3 DEF CloseSave, phases, sums, numbers, logs, volatile
<1>4. CASE CloseAdd
  BY <1>4 DEF CloseAdd, phases, sums, numbers, logs, volatile
<1>5. CASE CloseMarkAdded
  BY <1>5 DEF CloseMarkAdded, phases, sums, numbers, logs, volatile
<1>6. CASE CloseLog
  <2>1. /\ pc \in {"close", "reclose"} /\ tlog' = Append(tlog, tlent) /\ syu' \in 15..17
        /\ pc' \in {"close", "retake"} /\ UNCHANGED <<cycl, tnumber, tlent>>
        /\ tlent = tnumber /\ syu = 14 /\ ~report'
    BY <1>6 DEF CloseLog, phases, sums, numbers, logs, volatile
  <2> QED BY <2>1, SteadyAppend
<1>7. CASE CloseLogged
  BY <1>7 DEF CloseLogged, phases, sums, numbers, logs, volatile
<1>8. CASE CloseSaveT
  BY <1>8 DEF CloseSaveT, phases, sums, numbers, logs, volatile
<1>9. CASE CloseTake
  BY <1>9 DEF CloseTake, phases, sums, numbers, logs, volatile
<1>10. CASE CloseMarkTaken
  BY <1>10 DEF CloseMarkTaken, phases, sums, numbers, logs, volatile
<1>11. CASE TCountUp
  BY <1>11 DEF TCountUp, phases, sums, numbers, logs, volatile
<1>12. CASE TCountReturn
  BY <1>12 DEF TCountReturn, phases, sums, numbers, logs, volatile
<1> QED BY <1>1, <1>2, <1>3, <1>4, <1>5, <1>6, <1>7, <1>8, <1>9, <1>10, <1>11, <1>12 DEF CloseStep

\* Start-up and a power cut: the same.
LEMMA SteadyStart ==
    ASSUME PInv, TSteadyInv, StartStep
    PROVE  TSteadyInv'
<1> USE DEF PInv, PhaseTypeOK, PhaseInv, Going, TSteadyInv, TNumbersSteady
<1>1. CASE Fukuden
  BY <1>1 DEF Fukuden, FukudenPay, phases, sums, numbers, logs, volatile
<1>2. CASE FukudenRestore
  BY <1>2 DEF FukudenRestore, phases, sums, numbers, logs, volatile
<1>3. CASE FukudenClose
  BY <1>3 DEF FukudenClose, FukudenGT, phases, sums, numbers, logs, volatile
<1>4. CASE FukudenRelog
  <2>1. CASE syu = 14
    <3>1. /\ pc \in {"close", "reclose"} /\ tlog' = Append(tlog, tlent) /\ syu' \in 15..17
          /\ pc' \in {"close", "retake"} /\ UNCHANGED <<cycl, tnumber, tlent>>
          /\ tlent = tnumber /\ syu = 14 /\ ~report'
      BY <1>4, <2>1 DEF FukudenRelog, phases, sums, numbers, logs, volatile
    <3> QED BY <3>1, SteadyAppend
  <2>2. CASE syu # 14
    BY <1>4, <2>2 DEF FukudenRelog, phases, sums, numbers, logs, volatile
  <2> QED BY <2>1, <2>2
<1>5. CASE FukudenResave
  BY <1>5 DEF FukudenResave, phases, sums, numbers, logs, volatile
<1>6. CASE FukudenRetake
  BY <1>6 DEF FukudenRetake, phases, sums, numbers, logs, volatile
<1>7. CASE FukudenNone
  BY <1>7 DEF FukudenNone, phases, sums, numbers, logs, volatile
<1>8. CASE Cut
  BY <1>8 DEF Cut, phases, sums, numbers, logs, volatile
<1> QED BY <1>1, <1>2, <1>3, <1>4, <1>5, <1>6, <1>7, <1>8 DEF StartStep

-----------------------------------------------------------------------------
\* The invariant holds when the machine has never been used.
LEMMA InitInv == Init => IInv /\ TSteadyInv
<1> SUFFICES ASSUME Init PROVE IInv /\ TSteadyInv
  OBVIOUS
<1> USE DEF Init, Zero, Areas
<1>1. PhaseTypeOK
  <2>1. 0 \in 0..MaxCuts /\ 0 \in 0..MaxCloses
    BY BoundsAssumption
  <2>2. report \in BOOLEAN
    OBVIOUS
  <2> QED BY <2>1, <2>2 DEF PhaseTypeOK
<1>2. TotalsTypeOK
  BY DEF TotalsTypeOK
<1>3. PhaseInv
  BY DEF PhaseInv, Going
<1>4. TotalsInv
  BY DEF TotalsInv, PaymentIn, Taking, Hold
<1>5. NumbersInv /\ TNumbersInv
  BY DEF NumbersInv, TNumbersInv
<1>6. TSteadyInv
  BY DEF TSteadyInv, TNumbersSteady
<1> QED BY <1>1, <1>2, <1>3, <1>4, <1>5, <1>6 DEF IInv, PInv

\* Nothing the invariants are about changes.
LEMMA Unchanged ==
    ASSUME UNCHANGED svars
    PROVE  /\ PInv => PInv'
           /\ TSteadyInv => TSteadyInv'
           /\ TNumbersInv => TNumbersInv'
           /\ IInv => IInv'
<1> USE DEF svars, phases, sums, numbers, logs, volatile
<1>1. PInv => PInv'
  <2>1. PhaseTypeOK => PhaseTypeOK'
    BY Zenon DEF PhaseTypeOK
  <2>2. PhaseInv => PhaseInv'
    BY DEF PhaseInv, Going
  <2>3. NumbersInv => NumbersInv'
    BY DEF NumbersInv
  <2> QED BY <2>1, <2>2, <2>3 DEF PInv
<1>2. TSteadyInv => TSteadyInv'
  BY DEF TSteadyInv, TNumbersSteady
<1>3. TNumbersInv => TNumbersInv'
  BY DEF TNumbersInv
<1>4. TotalsTypeOK /\ TotalsInv => TotalsTypeOK' /\ TotalsInv'
  BY DEF TotalsTypeOK, TotalsInv, Hold, PaymentIn, Taking
<1> QED BY <1>1, <1>2, <1>3, <1>4 DEF IInv

\* What a step can be; the printer changes nothing the invariant is about.
LEMMA StepKinds ==
    ASSUME [Next]_vars
    PROVE  PayStep \/ CloseStep \/ StartStep \/ UNCHANGED svars
<1>1. CASE OpeGoesOn
  BY <1>1 DEF OpeGoesOn, Settles, Closes, Restarts, PayStep, CloseStep, StartStep
<1>2. CASE Customer
  BY <1>2 DEF Customer, PayStep, CloseStep
<1>3. CASE PrinterRuns
  BY <1>3 DEF PrinterRuns
<1>4. CASE Cut
  BY <1>4 DEF StartStep
<1>5. CASE UNCHANGED vars
  BY <1>5 DEF vars
<1> QED BY <1>1, <1>2, <1>3, <1>4, <1>5 DEF Next

\* Every step keeps what holds wherever the power is cut.
LEMMA NextPInv ==
    ASSUME PInv, [Next]_vars
    PROVE  PInv' /\ (TSteadyInv => TSteadyInv')
<1>1. CASE PayStep
  BY <1>1, PhaseTypePay, PhasePay, NumbersPay, SteadyPay DEF PInv
<1>2. CASE CloseStep
  BY <1>2, PhaseTypeClose, PhaseClose, NumbersClose, SteadyClose DEF PInv
<1>3. CASE StartStep
  BY <1>3, PhaseTypeStart, PhaseStart, NumbersStart, SteadyStart DEF PInv
<1>4. CASE UNCHANGED svars
  BY <1>4, Unchanged
<1> QED BY <1>1, <1>2, <1>3, <1>4, StepKinds

\* The T total numbers take one window to be shut.
LEMMA NextTNumbers ==
    ASSUME PInv, TNumbersInv, "tnumber" \notin CutIn, [Next]_vars
    PROVE  TNumbersInv'
BY StepKinds, TNumbersPay, TNumbersClose, TNumbersStart, Unchanged

\* The totals take three.
LEMMA NextInv ==
    ASSUME IInv, Shut, [Next]_vars
    PROVE  IInv'
<1>1. PInv' /\ TNumbersInv'
  BY NextPInv, NextTNumbers DEF IInv, Shut
<1>2. CASE PayStep
  BY <1>1, <1>2, TypePay, TotalsPay DEF IInv
<1>3. CASE CloseStep
  BY <1>1, <1>3, TypeClose, TotalsClose DEF IInv
<1>4. CASE StartStep
  BY <1>1, <1>4, TypeStart, TotalsStart DEF IInv
<1>5. CASE UNCHANGED svars
  BY <1>5, Unchanged
<1> QED BY <1>2, <1>3, <1>4, <1>5, StepKinds

\* The invariants hold in every behaviour.
LEMMA PInvariant == Spec => [](PInv /\ TSteadyInv)
<1>1. Init => PInv /\ TSteadyInv
  BY InitInv DEF IInv
<1>2. PInv /\ TSteadyInv /\ [Next]_vars => (PInv /\ TSteadyInv)'
  BY NextPInv
<1> QED BY <1>1, <1>2, PTL DEF Spec

LEMMA Invariant == ASSUME Shut PROVE Spec => []IInv
<1>1. Init => IInv
  BY InitInv
<1>2. IInv /\ [Next]_vars => IInv'
  BY NextInv
<1> QED BY <1>1, <1>2, PTL DEF Spec

\* What the settlement keeps is of its type (battery-backed memory and the
\* place of the operation task), unless the power is cut in a window of the
\* totals or of the T total numbers: cut in "taken", the T totals are taken off
\* twice and go below zero.
THEOREM SettleTypeCorrect == ASSUME Shut PROVE Spec => []SettleTypeOK
<1>1. IInv => SettleTypeOK
  BY DEF IInv, PInv, SettleTypeOK
<1> QED BY <1>1, Invariant, PTL

\* Whenever the operation task is idle, each payment settled so far is once in
\* the totals of the day and once in the T or the GT totals, however often the
\* power was cut and wherever, the named windows apart (kan_syuu, syuukei_clr
\* and fukuden).
THEOREM TotalsHold == ASSUME Shut PROVE Spec => []TotalsRight
<1>1. IInv => TotalsRight
  <2> SUFFICES ASSUME IInv, pc = "idle" PROVE TotalsRight
    BY DEF TotalsRight, Settled
  <2>1. cycl = 0 /\ syu \in {0, 18}
    BY DEF IInv, PInv, PhaseInv, Going
  <2>2. Hold(total, gt, paid)
    BY <2>1 DEF IInv, TotalsInv, PaymentIn
  <2>3. /\ total["t"] \in Nat /\ total["place"] \in Nat /\ paid \in Nat
    BY DEF IInv, PInv, PhaseTypeOK, TotalsTypeOK, Areas, Payments
  <2> QED BY <2>2, <2>3 DEF Hold, TotalsRight
<1> QED BY <1>1, Invariant, PTL

\* Payments are logged once each under consecutive numbers, wherever the power
\* is cut and however often, in the named windows too (CountGet, CountUp and
\* CountFree with the phases of fukuden).
THEOREM PaymentNumbersHold == Spec => []PaymentNumbersRight
<1>1. PInv => PaymentNumbersRight
  BY DEF PInv, NumbersInv, PaymentNumbersRight
<1> QED BY <1>1, PInvariant, PTL

\* T totals are logged once each under consecutive numbers if no cut comes in
\* the one window "tnumber", between the phase 18 and the end of CountUp; the
\* other windows may be used.
THEOREM TNumbersHold == ASSUME "tnumber" \notin CutIn PROVE Spec => []TNumbersRight
<1>1. Init => PInv /\ TNumbersInv
  BY InitInv DEF IInv
<1>2. PInv /\ TNumbersInv /\ [Next]_vars => (PInv /\ TNumbersInv)'
  BY NextPInv, NextTNumbers
<1>3. TNumbersInv => TNumbersRight
  BY DEF TNumbersInv, TNumbersRight
<1> QED BY <1>1, <1>2, <1>3, PTL DEF Spec

\* With cuts in that window as well, a T total has the number of the one before
\* it or the next one: numbers may be given twice, none is left out and none
\* comes back (fukuden has no case for 18).
THEOREM TNumbersNeverSkip == Spec => []TNumbersSteady
<1>1. TSteadyInv => TNumbersSteady
  BY DEF TSteadyInv
<1> QED BY <1>1, PInvariant, PTL

-----------------------------------------------------------------------------
(***************************************************************************)
(* Settlement implements Ledger for every number of payments, T closes and *)
(* power cuts: by the invariant above each step is a payment or a T close  *)
(* of the ledger, or leaves the ledger as it is.                           *)
(***************************************************************************)

\* A payment: a step of the ledger, or none.
LEMMA LedgerPay ==
    ASSUME IInv, PayStep
    PROVE  [Books!Next]_Books!books
<1> USE DEF IInv, PInv, PhaseTypeOK, TotalsTypeOK, Areas, PhaseInv, Going, Books!Next, Books!books, BookedDay, BookedT, BookedGT, BookedPayments, BookedClosings
<1>1. CASE PayoutComplete
  BY <1>1 DEF PayoutComplete, phases, sums, numbers, logs, volatile
<1>2. CASE PayDataSet
  BY <1>2 DEF PayDataSet, CountGet, phases, sums, numbers, logs, volatile
<1>3. CASE SaveTotals
  BY <1>3 DEF SaveTotals, phases, sums, numbers, logs, volatile
<1>4. CASE MarkSaved
  <2>1. cycl = 13 /\ syu \in {0, 18} /\ work = total
    BY <1>4 DEF MarkSaved, TotalsInv
  <2>2. cycl' = 14 /\ UNCHANGED <<syu, total, work, gt, skyprn, number, tnumber, paylog, tlog>>
    BY <1>4 DEF MarkSaved, sums, numbers, logs
  <2> QED BY <2>1, <2>2
<1>5. CASE \E a \in Areas : AddTo(a)
  BY <1>5 DEF AddTo, phases, sums, numbers, logs, volatile
<1>6. CASE MarkAdded
  <2>1. cycl = 14 /\ pc = "add" /\ added = Areas /\ syu \in {0, 18}
    BY <1>6 DEF MarkAdded
  <2>2. total["day"] = work["day"] + 1 /\ total["t"] = work["t"] + 1
    BY <2>1 DEF TotalsInv
  <2>3. number = Len(paylog) + 1
    BY <2>1 DEF NumbersInv, Payments
  <2>4. cycl' = 15 /\ UNCHANGED <<syu, total, work, gt, skyprn, number, tnumber, paylog, tlog>>
    BY <1>6 DEF MarkAdded, sums, numbers, logs
  <2>5. BookedDay' = BookedDay + 1 /\ BookedT' = BookedT + 1
    BY <2>1, <2>2, <2>4
  <2>6. BookedPayments' = Append(BookedPayments, Len(BookedPayments) + 1)
    BY <2>1, <2>3, <2>4
  <2>7. UNCHANGED <<BookedGT, BookedClosings>>
    BY <2>1, <2>4
  <2> QED BY <2>5, <2>6, <2>7 DEF Books!Pay
<1>7. CASE LogPayment
  <2>1. cycl = 15 /\ pc = "log" /\ lent = number
    BY <1>7 DEF LogPayment, NumbersInv
  <2>2. /\ cycl' = 16 /\ paylog' = Append(paylog, lent)
        /\ UNCHANGED <<syu, total, work, gt, skyprn, number, tnumber, tlog>>
    BY <1>7 DEF LogPayment, sums, numbers
  <2> QED BY <2>1, <2>2
<1>8. CASE AskReceipt
  BY <1>8 DEF AskReceipt, phases, sums, numbers, logs, volatile
<1>9. CASE AskStage
  BY <1>9 DEF AskStage, phases, sums, numbers, logs, volatile
<1>10. CASE AskStore
  BY <1>10 DEF AskStore, phases, sums, numbers, logs, volatile
<1>11. CASE AskPut
  BY <1>11 DEF AskPut, phases, sums, numbers, logs, volatile
<1>12. CASE MarkLogged
  BY <1>12 DEF MarkLogged, phases, sums, numbers, logs, volatile
<1>13. CASE CountUp
  BY <1>13 DEF CountUp, phases, sums, numbers, logs, volatile
<1>14. CASE CountReturn
  BY <1>14 DEF CountReturn, phases, sums, numbers, logs, volatile
<1>15. CASE MarkCounted
  BY <1>15 DEF MarkCounted, phases, sums, numbers, logs, volatile
<1>16. CASE LogMoney
  BY <1>16 DEF LogMoney, phases, sums, numbers, logs, volatile
<1> QED BY <1>1, <1>2, <1>3, <1>4, <1>5, <1>6, <1>7, <1>8, <1>9, <1>10, <1>11, <1>12, <1>13, <1>14, <1>15, <1>16 DEF PayStep

\* A T close: a step of the ledger, or none.
LEMMA LedgerClose ==
    ASSUME IInv, CloseStep
    PROVE  [Books!Next]_Books!books
<1> USE DEF IInv, PInv, PhaseTypeOK, TotalsTypeOK, Areas, PhaseInv, Going, Books!Next, Books!books, BookedDay, BookedT, BookedGT, BookedPayments, BookedClosings
<1>1. CASE PrintReport
  BY <1>1 DEF PrintReport, phases, sums, numbers, logs, volatile
<1>2. CASE ReportPrinted
  BY <1>2 DEF ReportPrinted, phases, sums, numbers, logs, volatile
<1>3. CASE CloseSave
  BY <1>3 DEF CloseSave, phases, sums, numbers, logs, volatile
<1>4. CASE CloseAdd
  BY <1>4 DEF CloseAdd, phases, sums, numbers, logs, volatile
<1>5. CASE CloseMarkAdded
  <2>1. cycl = 0 /\ syu = 13 /\ pc = "summed"
    BY <1>5 DEF CloseMarkAdded
  <2>2. skyprn = total["t"] /\ Hold(total, work["t"], paid) /\ gt = paid
    BY <2>1 DEF TotalsInv
  <2>3. gt = work["t"] + total["t"] /\ total["t"] - skyprn = 0
    BY <2>2 DEF Hold
  <2>4. tnumber = Len(tlog) + 1
    BY <2>1 DEF TNumbersInv
  <2>5. syu' = 14 /\ pc' = "close" /\ UNCHANGED <<total, work, gt, skyprn, number, tnumber, paylog, tlog, cycl>>
    BY <1>5 DEF CloseMarkAdded, sums, numbers, logs
  <2>6. BookedGT' = BookedGT + BookedT
    BY <2>1, <2>3, <2>5
  <2>7. BookedT' = 0
    BY <2>1, <2>3, <2>5
  <2>8. BookedClosings' = Append(BookedClosings, Len(BookedClosings) + 1)
    BY <2>1, <2>4, <2>5
  <2>9. UNCHANGED <<BookedDay, BookedPayments>>
    BY <2>1, <2>5
  <2> QED BY <2>6, <2>7, <2>8, <2>9 DEF Books!Close
<1>6. CASE CloseLog
  <2>1. cycl = 0 /\ syu = 14 /\ pc = "close" /\ tlent = tnumber
    BY <1>6 DEF CloseLog, TNumbersInv
  <2>2. /\ syu' = 15 /\ tlog' = Append(tlog, tlent)
        /\ UNCHANGED <<total, work, gt, skyprn, number, tnumber, paylog, cycl, pc>>
    BY <1>6 DEF CloseLog, sums, numbers, volatile
  <2> QED BY <2>1, <2>2
<1>7. CASE CloseLogged
  BY <1>7 DEF CloseLogged, phases, sums, numbers, logs, volatile
<1>8. CASE CloseSaveT
  BY <1>8 DEF CloseSaveT, phases, sums, numbers, logs, volatile
<1>9. CASE CloseTake
  BY <1>9 DEF CloseTake, phases, sums, numbers, logs, volatile
<1>10. CASE CloseMarkTaken
  BY <1>10 DEF CloseMarkTaken, phases, sums, numbers, logs, volatile
<1>11. CASE TCountUp
  BY <1>11 DEF TCountUp, phases, sums, numbers, logs, volatile
<1>12. CASE TCountReturn
  BY <1>12 DEF TCountReturn, phases, sums, numbers, logs, volatile
<1> QED BY <1>1, <1>2, <1>3, <1>4, <1>5, <1>6, <1>7, <1>8, <1>9, <1>10, <1>11, <1>12 DEF CloseStep

\* Start-up and a power cut: a step of the ledger, or none.
LEMMA LedgerStart ==
    ASSUME IInv, StartStep, Shut
    PROVE  [Books!Next]_Books!books
<1> USE DEF IInv, PInv, PhaseTypeOK, TotalsTypeOK, Areas, PhaseInv, Going, Books!Next, Books!books, BookedDay, BookedT, BookedGT, BookedPayments, BookedClosings
<1>1. CASE Fukuden
  BY <1>1 DEF Fukuden, FukudenPay, phases, sums, numbers, logs, volatile
<1>2. CASE FukudenRestore
  <2>1. cycl = 14 /\ syu \in {0, 18} /\ total["t"] = work["t"]
    BY <1>2 DEF FukudenRestore, TotalsInv
  <2>2. total' = [work EXCEPT !["t"] = total["t"]]
    BY <1>2 DEF FukudenRestore
  <2>3. total'["day"] = work["day"] /\ total'["t"] = work["t"]
    BY <2>1, <2>2
  <2>4. cycl' = 13 /\ UNCHANGED <<syu, work, gt, number, tnumber, paylog, tlog>>
    BY <1>2 DEF FukudenRestore, numbers, logs
  <2> QED BY <2>1, <2>3, <2>4
<1>3. CASE FukudenClose
  BY <1>3 DEF FukudenClose, FukudenGT, phases, sums, numbers, logs, volatile
<1>4. CASE FukudenRelog
  <2>1. cycl = 0 /\ syu \in {14, 15} /\ pc = "reclose" /\ tlent = tnumber
    BY <1>4 DEF FukudenRelog, TNumbersInv
  <2>2. /\ syu' = 16 /\ pc' = "retake"
        /\ UNCHANGED <<total, work, gt, skyprn, number, tnumber, paylog, cycl>>
    BY <1>4 DEF FukudenRelog, sums, numbers
  <2>3. tlog' = BookedClosings
    BY <1>4, <2>1 DEF FukudenRelog
  <2> QED BY <2>1, <2>2, <2>3
<1>5. CASE FukudenResave
  BY <1>5 DEF FukudenResave, phases, sums, numbers, logs, volatile
<1>6. CASE FukudenRetake
  BY <1>6 DEF FukudenRetake, phases, sums, numbers, logs, volatile
<1>7. CASE FukudenNone
  BY <1>7 DEF FukudenNone, phases, sums, numbers, logs, volatile
<1>8. CASE Cut
  <2>1. pc' = "boot" /\ UNCHANGED <<syu, total, work, gt, skyprn, number, tnumber, paylog, tlog, cycl>>
    BY <1>8 DEF Cut, phases, sums, numbers, logs
  <2>2. pc # "taken"
    BY <1>8, WindowsShut DEF TotalsTaken
  <2> QED BY <2>1, <2>2
<1> QED BY <1>1, <1>2, <1>3, <1>4, <1>5, <1>6, <1>7, <1>8 DEF StartStep

\* A used machine starts with an empty ledger.
LEMMA LedgerInit == Init => Books!Init
BY DEF Init, Zero, Areas, Books!Init, BookedDay, BookedT, BookedGT,
       BookedPayments, BookedClosings

\* Every step is a step of the ledger, or none.
LEMMA LedgerNext ==
    ASSUME IInv, Shut, [Next]_vars
    PROVE  [Books!Next]_Books!books
<1>1. CASE UNCHANGED svars
  BY <1>1 DEF svars, phases, sums, numbers, logs, volatile, Books!books, BookedDay, BookedT,
              BookedGT, BookedPayments, BookedClosings
<1>2. PayStep \/ CloseStep \/ StartStep \/ UNCHANGED svars
  BY StepKinds
<1> QED BY <1>1, <1>2, LedgerPay, LedgerClose, LedgerStart

\* Settlements and T closes are atomic: seen through the phases, totals, log
\* and numbers change together, whatever power cuts come before and after, the
\* named windows apart (kan_syuu, syuukei_clr, CountUp and fukuden).
THEOREM Atomic == ASSUME Shut PROVE Spec => ImplementsLedger
<1>1. Init => Books!Init
  BY LedgerInit
<1>2. IInv /\ [Next]_vars => [Books!Next]_Books!books
  BY LedgerNext
<1> QED BY <1>1, <1>2, Invariant, PTL DEF Spec, ImplementsLedger, Books!Spec

-----------------------------------------------------------------------------
(***************************************************************************)
(* What the journal guarantees for every number of payments, T closes and  *)
(* power cuts: every receipt is printed by its own request, given up, kept *)
(* for the next start-up or overtaken by a later payment; no request is    *)
(* printed again but one asked for while start-up had to print the queue;  *)
(* none shows what was cleared or a payment before its own.                *)
(*                                                                         *)
(* The invariant follows a receipt request from the entry in the queue to  *)
(* the print buffer and out of it: QueueInv says what the one place of the *)
(* queue may hold, BufferInv what the buffer, the control area and the     *)
(* message being processed hold at each place of the printer task, SentInv *)
(* which payments the blocks sent belong to, KeptInv where the receipt of  *)
(* every payment is all the time, and ServedInv how often a request may    *)
(* still be printed.                                                       *)
(***************************************************************************)

Jobs == DOMAIN asked

\* The queue has an entry, the stores that nmitrap completes included.
Holds == IF staged = <<>> THEN count = 1 ELSE staged = <<1>>

\* The entry that start-up finds is not that of job j.
Unqueued(j) == Holds => slot # j

\* The request of the payment being settled has been written to the queue.
Asking == pc \in {"stage", "store", "put"}

\* Jobs and payments go up together.
AskedInv ==
    /\ \A j \in Jobs : asked[j] <= cancel
    /\ cancel <= paid
    /\ Asking => /\ cancel = paid /\ slot = Len(asked) /\ slot \in Jobs /\ asked[slot] = paid
                 /\ pri = "wait" /\ jnl.printing => slot # tgt
    /\ pc = "settled" \/ cycl \in {0, 17, 19} => cancel = paid

\* A count is staged only between two steps of one task, and until start-up.
StagedInv ==
    /\ staged = <<1>> => pc \in {"store", "boot"} /\ pri # "delete"
    /\ staged = <<0>> => pri = "delete" \/ pc = "boot"
    /\ pri = "delete" => staged = <<0>> /\ count = 1
    /\ pc = "store" => staged = <<1>>
    /\ pc = "put" => count = 1

QueueInv ==
    /\ StagedInv
    /\ Holds => slot \in Jobs
    /\ \A i \in DOMAIN mbox : mbox[i] \in Jobs

\* The two tasks take turns.
TurnInv ==
    /\ PrinterWaits \/ OpeWaits
    /\ pc = "boot" => pri = "off"

\* The buffer holds job j, complete.
Loaded(j) == eja = [printing |-> TRUE, job |-> j, msg |-> j]

\* Job j is being processed and its entry is gone.
Processing(j) == j \in Jobs /\ jnl.printing /\ Loaded(j) /\ jnl.job = j

Copying == {"copy", "job", "msg"}

\* Where the printer task is tells what it processes and what the buffer holds.
BufferInv ==
    /\ pri = "off" => /\ ret = 0 /\ tgt = NoJob /\ ~jnl.printing
                      /\ eja.printing => \E j \in Jobs : Loaded(j)
    /\ pri \in {"read", "mark"} => ~eja.printing /\ Holds /\ ret \in {0, 99}
    /\ pri = "mark" => tgt = slot /\ eja.job = slot /\ eja.msg = slot /\ jnl.job = slot
    /\ pri \in Copying => tgt \in Jobs /\ jnl.printing
    /\ pri = "copy" => eja = NoReceipt \/ Loaded(tgt)
    /\ pri = "job" => jnl.job = tgt /\ (Loaded(tgt) \/ eja = [NoReceipt EXCEPT !.printing = TRUE])
    /\ pri = "msg" => jnl.job = tgt /\ eja.printing /\ eja.job = tgt /\ eja.msg \in {tgt, NoJob}
    /\ pri \in {"find", "delete"} =>
          IF ret = 1 THEN tgt = NoJob /\ Processing(jnl.job) ELSE Processing(tgt)
    /\ pri = "delete" => slot = jnl.job
    /\ pri = "resume" => ret = 1 /\ Processing(jnl.job) /\ Unqueued(jnl.job)
    /\ pri \in {"edit", "written"} \/ (pri = "wait" /\ jnl.printing) => Processing(tgt) /\ Unqueued(tgt)
    /\ pri = "wait" /\ ~jnl.printing => ~eja.printing
    /\ pri \in {"read", "mark", "edit", "wait", "written"} \cup Copying => ret # 1
    /\ ret = 99 => Holds /\ count = 1 /\ (pri \in Copying \cup {"find"} => slot # tgt)
    /\ pri \in Copying \cup {"mark", "find", "delete", "resume", "edit"} => ~jnl.final

\* The blocks sent are of the payment asked for or of later ones, in order.
SentInv ==
    /\ pri = "wait" /\ jnl.printing /\ ~jnl.final => Len(sent) = 1
    /\ pri = "written" \/ (pri = "wait" /\ jnl.printing /\ jnl.final) =>
          Len(sent) = 2 /\ sent[1] <= sent[2] /\ sent[2] <= cancel
    /\ pri = "written" \/ (pri = "wait" /\ jnl.printing) =>
          asked[tgt] <= sent[1] /\ sent[1] <= cancel
    /\ pri = "written" /\ asked[tgt] = cancel => cancel \in printed
    /\ \A r \in spoilt :
          r.own # Garbage /\ r.own <= r.blocks[1] /\ r.blocks[1] <= r.blocks[2]

\* The request of the last payment has been made, or is in the queue at least.
Due == paid # 0 /\ (cycl \in {0, 17, 19} \/ pc \in {"put", "settled"})

\* The receipt of payment p has not gone missing.
Kept(p) == p \in printed \cup dropped \cup overtaken \/ Pending(p)

\* Once the request of a payment is in the queue, whatever becomes of the next.
KeptInv == \A p \in Payments : p < paid \/ (p = paid /\ Due) => Kept(p)

JInv == JournalTypeOK /\ AskedInv /\ QueueInv /\ TurnInv /\ BufferInv /\ SentInv /\ KeptInv

-----------------------------------------------------------------------------
(***************************************************************************)
(* The operation task                                                      *)
(***************************************************************************)
\* The steps of the operation task that touch the journal.
StartsStore == Fukuden \/ FukudenClose \/ FukudenNone
AskStep == AskReceipt \/ AskStage \/ AskStore \/ AskPut

\* The others leave the journal alone, and the last payment is due to be on
\* paper afterwards only if it was before.
PlainStep ==
    /\ UNCHANGED jvars
    /\ pc \notin {"boot", "stage", "store", "put"} /\ pc' \notin {"boot", "stage", "store", "put"}
    /\ paid' \in Payments \cup {0}
    /\ paid' = paid \/ (paid' = paid + 1 /\ cycl = 0)
    /\ cycl' \in {0, 17, 19} => (cycl \in {0, 17, 19} \/ pc = "settled") /\ paid' = paid
    /\ pc' = "settled" => pc = "settled" /\ cycl' = cycl /\ paid' = paid

LEMMA PayPlain ==
    ASSUME PInv, PayStep, ~AskStep
    PROVE  PlainStep
<1> USE DEF PInv, PhaseTypeOK, PhaseInv, Payments, PlainStep, AskStep
<1>1. CASE PayoutComplete
  BY <1>1 DEF PayoutComplete, Going, sums, numbers, logs
<1>2. CASE PayDataSet
  BY <1>2 DEF PayDataSet, phases, sums, numbers, logs, volatile
<1>3. CASE SaveTotals
  BY <1>3 DEF SaveTotals, phases, sums, numbers, logs, volatile
<1>4. CASE MarkSaved
  BY <1>4 DEF MarkSaved, phases, sums, numbers, logs, volatile
<1>5. CASE \E a \in Areas : AddTo(a)
  BY <1>5 DEF AddTo, phases, sums, numbers, logs, volatile
<1>6. CASE MarkAdded
  BY <1>6 DEF MarkAdded, phases, sums, numbers, logs, volatile
<1>7. CASE LogPayment
  BY <1>7 DEF LogPayment, phases, sums, numbers, logs, volatile
<1>8. CASE MarkLogged
  BY <1>8 DEF MarkLogged, phases, sums, numbers, logs, volatile
<1>9. CASE CountUp
  BY <1>9 DEF CountUp, phases, sums, numbers, logs, volatile
<1>10. CASE CountReturn
  BY <1>10 DEF CountReturn, phases, sums, numbers, logs, volatile
<1>11. CASE MarkCounted
  BY <1>11 DEF MarkCounted, phases, sums, numbers, logs, volatile
<1>12. CASE LogMoney
  BY <1>12 DEF LogMoney, phases, sums, numbers, logs, volatile
<1> QED BY <1>1, <1>2, <1>3, <1>4, <1>5, <1>6, <1>7, <1>8, <1>9, <1>10, <1>11, <1>12 DEF PayStep

LEMMA ClosePlain ==
    ASSUME PInv, CloseStep
    PROVE  PlainStep
<1> USE DEF PInv, PhaseTypeOK, PhaseInv, Going, Payments, PlainStep
<1>1. CASE PrintReport
  BY <1>1 DEF PrintReport, phases, sums, numbers, logs
<1>2. CASE ReportPrinted
  BY <1>2 DEF ReportPrinted, phases, sums, numbers, logs
<1>3. CASE CloseSave
  BY <1>3 DEF CloseSave, phases, sums, numbers, logs, volatile
<1>4. CASE CloseAdd
  BY <1>4 DEF CloseAdd, phases, sums, numbers, logs, volatile
<1>5. CASE CloseMarkAdded
  BY <1>5 DEF CloseMarkAdded, phases, sums, numbers, logs, volatile
<1>6. CASE CloseLog
  BY <1>6 DEF CloseLog, phases, sums, numbers, logs, volatile
<1>7. CASE CloseLogged
  BY <1>7 DEF CloseLogged, phases, sums, numbers, logs, volatile
<1>8. CASE CloseSaveT
  BY <1>8 DEF CloseSaveT, phases, sums, numbers, logs, volatile
<1>9. CASE CloseTake
  BY <1>9 DEF CloseTake, phases, sums, numbers, logs, volatile
<1>10. CASE CloseMarkTaken
  BY <1>10 DEF CloseMarkTaken, phases, sums, numbers, logs, volatile
<1>11. CASE TCountUp
  BY <1>11 DEF TCountUp, phases, sums, numbers, logs, volatile
<1>12. CASE TCountReturn
  BY <1>12 DEF TCountReturn, phases, sums, numbers, logs, volatile
<1> QED BY <1>1, <1>2, <1>3, <1>4, <1>5, <1>6, <1>7, <1>8, <1>9, <1>10, <1>11, <1>12 DEF CloseStep

LEMMA StartPlain ==
    ASSUME PInv, StartStep, ~StartsStore, ~Cut
    PROVE  PlainStep
<1> USE DEF PInv, PhaseTypeOK, PhaseInv, Going, Payments, PlainStep
<1>1. CASE FukudenRestore
  BY <1>1 DEF FukudenRestore, phases, sums, numbers, logs, volatile
<1>2. CASE FukudenRelog
  BY <1>2 DEF FukudenRelog, phases, sums, numbers, logs, volatile
<1>3. CASE FukudenResave
  BY <1>3 DEF FukudenResave, phases, sums, numbers, logs, volatile
<1>4. CASE FukudenRetake
  BY <1>4 DEF FukudenRetake, phases, sums, numbers, logs, volatile
<1> QED BY <1>1, <1>2, <1>3, <1>4 DEF StartStep, StartsStore

\* Nothing about the journal changes with them.
LEMMA PlainKeeps ==
    ASSUME JInv, PInv, PlainStep, PrinterWaits
    PROVE  JInv'
<1> USE DEF PlainStep, jvars, kept, paper, history, task
<1>1. JournalTypeOK'
  BY DEF JInv, JournalTypeOK
<1>2. AskedInv'
  <2>1. cancel <= paid /\ cancel \in Nat /\ paid \in Nat /\ paid' \in Nat
    BY DEF JInv, AskedInv, JournalTypeOK, PInv, PhaseTypeOK, Payments, Garbage
  <2>2. pc' = "settled" \/ cycl' \in {0, 17, 19} => cancel = paid /\ paid' = paid
    BY DEF JInv, AskedInv
  <2> QED BY <2>1, <2>2 DEF JInv, AskedInv, Asking, Jobs
<1>3. QueueInv'
  BY DEF JInv, QueueInv, StagedInv, Holds, Jobs, PrinterWaits
<1>4. TurnInv'
  BY DEF TurnInv, PrinterWaits
<1>5. BufferInv'
  BY DEF JInv, BufferInv, Jobs, Holds, Loaded, Processing, Unqueued, Copying
<1>6. SentInv'
  BY DEF JInv, SentInv
<1>7. KeptInv'
  <2>1. paid \in Nat
    BY DEF PInv, PhaseTypeOK, Payments
  <2>2. \A p \in Payments : p < paid' \/ (p = paid' /\ Due') => p < paid \/ (p = paid /\ Due)
    BY <2>1 DEF Due, Payments
  <2>3. \A p \in Payments : Kept(p) => Kept(p)'
    BY DEF Kept, Pending, InQueue, InBuffer, history
  <2> QED BY <2>2, <2>3 DEF JInv, KeptInv
<1> QED BY <1>1, <1>2, <1>3, <1>4, <1>5, <1>6, <1>7 DEF JInv

\* A store that was staged is completed: the queue holds what it held.
LEMMA StoreHoldsOn ==
    ASSUME JInv, NmiStore
    PROVE  /\ Holds <=> Holds'
           /\ staged' = <<>> /\ count' \in 0..1
           /\ UNCHANGED <<slot, cancel, eja, asked>>
BY DEF JInv, JournalTypeOK, NmiStore, Holds

\* Start-up completes it before the operation task goes on.
LEMMA StartStores ==
    ASSUME JInv, PInv, StartsStore
    PROVE  JInv'
<1>1. /\ NmiStore /\ UNCHANGED <<task, paper, paid, cycl>>
      /\ pc = "boot" /\ pc' \notin {"boot", "stage", "store", "put", "settled"}
  BY DEF StartsStore, Fukuden, FukudenPay, FukudenClose, FukudenNone, PInv, PhaseTypeOK, PhaseInv,
         phases, numbers, logs, sums
<1>2. /\ Holds <=> Holds'
      /\ staged' = <<>> /\ count' \in 0..1
      /\ UNCHANGED <<slot, cancel, eja, asked>>
  BY <1>1, StoreHoldsOn
<1>3. pri = "off"
  BY <1>1 DEF JInv, TurnInv
<1> USE <1>1, <1>2, <1>3 DEF paper, history, task
<1>4. JournalTypeOK'
  BY DEF JInv, JournalTypeOK
<1>5. AskedInv'
  BY DEF JInv, AskedInv, Asking, Jobs
<1>6. QueueInv'
  BY DEF JInv, QueueInv, StagedInv, Jobs
<1>7. TurnInv'
  BY DEF TurnInv, PrinterWaits
<1>8. BufferInv'
  BY DEF JInv, BufferInv, Jobs, Loaded, Processing, Unqueued, Copying
<1>9. SentInv'
  BY DEF JInv, SentInv
<1>10. KeptInv'
  <2>1. Due' => Due /\ paid' = paid
    BY DEF Due
  <2>2. \A p : InQueue(p) => InQueue(p)'
    BY DEF InQueue, Holds
  <2>3. \A p \in Payments : Kept(p) => Kept(p)'
    BY <2>2 DEF Kept, Pending, InBuffer, history
  <2> QED BY <2>1, <2>3 DEF JInv, KeptInv
<1> QED BY <1>4, <1>5, <1>6, <1>7, <1>8, <1>9, <1>10 DEF JInv

\* A new entry: its job is not one that is printed or has been.
LEMMA AskReceiptKeeps ==
    ASSUME JInv, PInv, AskReceipt, PrinterWaits
    PROVE  JInv'
<1> DEFINE n == Len(asked)
<1>1. /\ asked \in Seq(Payments) /\ paid \in Payments /\ paid \in Nat /\ n \in Nat /\ Jobs = 1 .. n
      /\ cancel \in Nat /\ cancel <= paid
  BY DEF JInv, JournalTypeOK, AskedInv, PInv, PhaseTypeOK, PhaseInv, AskReceipt, Payments, Garbage, Jobs
<1>2. /\ asked' = Append(asked, paid) /\ slot' = n + 1 /\ cancel' = paid
      /\ UNCHANGED <<count, staged, eja, mbox, pri, ret, tgt, jnl, sent,
                     printed, spoilt, dropped, behind, paid, cycl>>
      /\ served' = Append(served, 0)
      /\ overtaken' = overtaken \cup {q \in {cancel} \ {paid} : Pending(q)}
      /\ pc = "copy" /\ pc' = "stage" /\ cycl = 16
  BY DEF AskReceipt, WriteQue, Requested, task, paper, phases, PInv, PhaseInv
<1>3. /\ asked' \in Seq(Payments) /\ Len(asked') = n + 1 /\ Jobs' = 1 .. n + 1
      /\ \A j \in Jobs : asked'[j] = asked[j]
      /\ asked'[n + 1] = paid
  BY <1>1, <1>2, AppendProperties DEF Jobs
<1>4. \A j \in Jobs : j \in Jobs' /\ j # n + 1
  BY <1>1, <1>3
<1> HIDE DEF n
<1>5. JournalTypeOK'
  <2>1. served' \in Seq(Nat) /\ Len(served') = Len(asked')
    BY <1>1, <1>2, <1>3, AppendProperties DEF JInv, JournalTypeOK, n
  <2>2. ASSUME NEW q, Pending(q) PROVE q \in Payments
    <3>0. \A j \in Jobs : asked[j] \in Payments
      BY <1>1 DEF Jobs
    <3>1. CASE InQueue(q)
      <4>1. slot \in Jobs /\ asked[slot] = q
        BY <3>1 DEF InQueue, JInv, QueueInv, Holds
      <4> QED BY <3>0, <4>1
    <3>2. CASE InBuffer(q)
      <4>1. \E j \in Jobs : Loaded(j)
        BY <3>2 DEF InBuffer, PrinterWaits, JInv, BufferInv, Processing
      <4>2. eja.msg \in Jobs /\ asked[eja.msg] = q
        BY <3>2, <4>1 DEF InBuffer, Loaded
      <4> QED BY <3>0, <4>2
    <3> QED BY <2>2, <3>1, <3>2 DEF Pending
  <2>3. overtaken' \subseteq Payments
    BY <1>2, <2>2 DEF JInv, JournalTypeOK
  <2> QED BY <1>1, <1>2, <1>3, <2>1, <2>3 DEF JInv, JournalTypeOK, JobIds
<1>6. AskedInv'
  <2>1. \A j \in Jobs' : asked'[j] <= paid
    <3> SUFFICES ASSUME NEW j \in Jobs' PROVE asked'[j] <= paid
      OBVIOUS
    <3>1. CASE j \in Jobs
      <4>1. asked[j] \in Nat /\ asked[j] <= cancel
        BY <1>1, <3>1, MaxPayAssumption DEF JInv, AskedInv, Payments, Jobs
      <4> QED BY <1>1, <1>3, <3>1, <4>1
    <3>2. CASE j = n + 1
      BY <1>1, <1>3, <3>2
    <3> QED BY <1>1, <1>3, <3>1, <3>2
  <2>2. n + 1 \in Jobs'
    BY <1>1, <1>2, <1>3, <1>4 DEF JInv, QueueInv
  <2>3. pri = "wait" /\ jnl.printing => tgt # n + 1
    BY <1>4 DEF JInv, BufferInv, Processing
  <2> QED BY <1>1, <1>2, <1>3, <2>1, <2>2, <2>3 DEF AskedInv, Asking
<1>7. QueueInv'
  <2>1. n + 1 \in Jobs'
    BY <1>1, <1>2, <1>3, <1>4 DEF JInv, QueueInv
  <2>2. StagedInv'
    BY <1>2 DEF JInv, QueueInv, StagedInv, PrinterWaits
  <2> QED BY <1>2, <1>4, <2>1, <2>2 DEF JInv, QueueInv
<1>8. TurnInv'
  BY <1>2 DEF TurnInv, PrinterWaits
<1>9. BufferInv'
  <2>1. \A j : Processing(j) => Processing(j)' /\ Unqueued(j)'
    BY <1>2, <1>4 DEF Processing, Unqueued, Loaded
  <2>2. pri = "off" \/ pri = "wait"
    BY DEF PrinterWaits
  <2>3. Holds <=> Holds'
    BY <1>2 DEF Holds
  <2>4. \A j \in Jobs : Loaded(j) => j \in Jobs' /\ Loaded(j)'
    BY <1>2, <1>4 DEF Loaded
  <2> QED BY <1>2, <2>1, <2>2, <2>3, <2>4 DEF JInv, BufferInv, Copying
<1>10. SentInv'
  <2>1. pri = "wait" /\ jnl.printing => tgt \in Jobs
    BY DEF JInv, BufferInv, Processing
  <2>2. pri # "written"
    BY DEF PrinterWaits
  <2>3. sent \in Seq(Nat)
    BY DEF JInv, JournalTypeOK, Payments, Garbage
  <2> QED BY <1>1, <1>2, <1>3, <2>1, <2>2, <2>3 DEF JInv, SentInv
<1>11. KeptInv'
  <2> SUFFICES ASSUME NEW p \in Payments, p < paid PROVE Kept(p)'
    BY <1>2 DEF KeptInv, Due
  <2>1. Kept(p)
    BY DEF JInv, KeptInv
  <2>2. p \in Nat /\ p # paid
    BY <1>1 DEF Payments
  <2>3. Pending(p) => p \in overtaken'
    BY <1>2, <2>2 DEF Pending
  <2> QED BY <1>2, <2>1, <2>3 DEF Kept
<1> QED BY <1>5, <1>6, <1>7, <1>8, <1>9, <1>10, <1>11 DEF JInv

\* The count is staged, then stored, then the message follows.
LEMMA AskStoresKeep ==
    ASSUME JInv, PInv, AskStage \/ AskStore \/ AskPut, PrinterWaits
    PROVE  JInv'
<1>1. /\ UNCHANGED <<slot, cancel, eja, asked, pri, ret, tgt, jnl, sent,
                     printed, spoilt, dropped, served, overtaken, paid, cycl>>
      /\ Asking /\ cycl = 16 /\ pri \in {"off", "wait"}
      /\ pc' \in {"store", "put", "settled"}
      /\ behind' \in {behind, behind \cup {Len(asked)}}
  BY DEF AskStage, AskStore, AskPut, NmiMark, NmiStore, PutRequest, kept, task, paper, history, phases,
         Asking, PInv, PhaseInv, PrinterWaits
<1>2. /\ cancel = paid /\ slot = Len(asked) /\ slot \in Jobs /\ asked[slot] = paid
      /\ pri = "wait" /\ jnl.printing => slot # tgt
  BY <1>1 DEF JInv, AskedInv
<1>3. \/ pc' = "store" /\ staged' = <<1>> /\ UNCHANGED <<count, mbox>>
      \/ pc' = "put" /\ staged' = <<>> /\ count' = 1 /\ UNCHANGED mbox
      \/ pc' = "settled" /\ staged' = <<>> /\ count = 1 /\ count' = 1
            /\ mbox' = Append(mbox, Len(asked))
  <2>1. CASE AskStage
    BY <2>1 DEF AskStage, NmiMark, task
  <2>2. CASE AskStore
    <3>1. staged = <<1>>
      BY <2>2 DEF AskStore, JInv, QueueInv, StagedInv
    <3>2. staged # <<>> /\ staged[1] = 1
      BY <3>1
    <3> QED BY <2>2, <3>2 DEF AskStore, NmiStore, task
  <2>3. CASE AskPut
    <3>1. count = 1 /\ staged = <<>>
      BY <2>3, <1>1 DEF AskPut, JInv, QueueInv, StagedInv, JournalTypeOK
    <3> QED BY <2>3, <3>1 DEF AskPut, PutRequest, kept
  <2> QED BY <2>1, <2>2, <2>3
<1>4. staged' \in {<<>>, <<0>>, <<1>>} /\ count' \in 0..1
  BY <1>3 DEF JInv, JournalTypeOK
<1>5. mbox' \in Seq(JobIds) /\ \A i \in DOMAIN mbox' : mbox'[i] \in Jobs
  <2>1. Len(asked) \in Jobs /\ Len(asked) \in JobIds /\ mbox \in Seq(JobIds)
    BY <1>2 DEF JInv, JournalTypeOK, JobIds
  <2>2. \A i \in DOMAIN mbox : mbox[i] \in Jobs
    BY DEF JInv, QueueInv
  <2>3. CASE mbox' = mbox
    BY <2>1, <2>2, <2>3
  <2>4. CASE mbox' = Append(mbox, Len(asked))
    BY <2>1, <2>2, <2>4, AppendProperties
  <2> QED BY <1>3, <2>3, <2>4
<1>6. JournalTypeOK'
  <2>1. Len(asked) \in JobIds
    BY <1>2 DEF JInv, JournalTypeOK, JobIds
  <2> QED BY <1>1, <1>4, <1>5, <2>1 DEF JInv, JournalTypeOK
<1>7. AskedInv'
  BY <1>1, <1>2 DEF JInv, AskedInv, Asking, Jobs
<1>8. Holds'
  BY <1>3 DEF Holds
<1>9. QueueInv'
  <2>1. StagedInv'
    <3>1. staged' # << 0 >>
      <4>1. << 1 >> # << 0 >> /\ <<>> # << 0 >>
        OBVIOUS
      <4> QED BY <1>3, <4>1
    <3>2. staged' = << 1 >> => pc' = "store"
      BY <1>3
    <3>3. pc' = "put" => count' = 1
      BY <1>3
    <3>4. pc' = "store" => staged' = << 1 >>
      BY <1>3
    <3>5. pri' # "delete"
      BY <1>1
    <3> QED BY <3>1, <3>2, <3>3, <3>4, <3>5 DEF StagedInv
  <2> QED BY <1>1, <1>2, <1>5, <2>1 DEF JInv, QueueInv, Jobs
<1>10. TurnInv'
  BY <1>1, <1>3 DEF TurnInv, PrinterWaits
<1>11. BufferInv'
  <2>1. ret = 99 => count' = 1
    BY <1>3 DEF JInv, BufferInv
  <2>2. pri = "wait" /\ jnl.printing => Processing(tgt)' /\ Unqueued(tgt)'
    BY <1>1, <1>2 DEF JInv, BufferInv, Processing, Loaded, Unqueued, Jobs
  <2>3. \A j \in Jobs : Loaded(j) => j \in Jobs' /\ Loaded(j)'
    BY <1>1 DEF Loaded, Jobs
  <2> QED BY <1>1, <1>8, <2>1, <2>2, <2>3 DEF JInv, BufferInv, Copying
<1>12. SentInv'
  BY <1>1 DEF JInv, SentInv
<1>13. KeptInv'
  <2>1. Due' => pc' # "store"
    BY <1>1 DEF Due
  <2>2. ASSUME pc' # "store" PROVE Kept(paid)'
    <3>1. slot # NoJob
      BY <1>2 DEF Jobs, JInv, JournalTypeOK, NoJob
    <3>2. InQueue(paid)'
      BY <1>1, <1>2, <1>3, <2>2, <3>1 DEF InQueue
    <3> QED BY <1>1, <1>2, <3>2 DEF Kept, Pending
  <2>3. SUFFICES ASSUME NEW p \in Payments, p < paid \/ (p = paid /\ Due') PROVE Kept(p)'
    BY <1>1 DEF KeptInv
  <2>4. CASE p = paid
    <3>1. Due'
      BY <2>3, <2>4, <1>1 DEF JInv, JournalTypeOK, Payments
    <3>2. Kept(paid)'
      BY <2>1, <2>2, <3>1
    <3> QED BY <1>1, <2>4, <3>2 DEF Kept, Pending, InQueue, InBuffer
  <2>5. CASE p # paid
    <3>1. Kept(p) /\ ~Pending(p)
      BY <1>2, <2>3, <2>5 DEF JInv, KeptInv, Pending
    <3> QED BY <1>1, <3>1 DEF Kept
  <2> QED BY <2>4, <2>5
<1> QED BY <1>6, <1>7, <1>9, <1>10, <1>11, <1>12, <1>13 DEF JInv

\* What a cut finds in the buffer is a receipt it holds completely, or none.
LEMMA CutKeeps ==
    ASSUME JInv, PInv, Cut, "receipt" \notin CutIn
    PROVE  JInv'
<1>1. /\ UNCHANGED <<slot, count, staged, cancel, eja, asked, printed, spoilt, dropped, served, behind, overtaken,
                     paid, cycl>>
      /\ pc # "boot" /\ pc' = "boot"
      /\ mbox' = <<>> /\ pri' = "off" /\ ret' = 0 /\ tgt' = NoJob /\ jnl' = IdleJnl /\ sent' = <<>>
  BY DEF Cut, LosePower, kept, paper, history, phases
<1>2. ~HalfCopied
  <2>1. "receipt" \in DOMAIN Window /\ Window["receipt"] = HalfCopied
    BY DEF Window
  <2> QED BY <2>1 DEF Cut
<1>3. JournalTypeOK'
  BY <1>1, EmptySeq DEF JInv, JournalTypeOK, IdleJnl, JobIds, NoJob
<1>4. AskedInv'
  BY <1>1 DEF JInv, AskedInv, Asking, Jobs
<1>5. QueueInv'
  <2>1. StagedInv'
    BY <1>1 DEF StagedInv
  <2>2. Holds' <=> Holds
    BY <1>1 DEF Holds
  <2> QED BY <1>1, <2>1, <2>2 DEF JInv, QueueInv, Jobs
<1>6. TurnInv'
  BY <1>1 DEF TurnInv, PrinterWaits
<1>7. BufferInv'
  <2>1. eja.printing => \E j \in Jobs : Loaded(j)
    <3> SUFFICES ASSUME eja.printing PROVE \E j \in Jobs : Loaded(j)
      OBVIOUS
    <3>1. /\ eja \in [printing : BOOLEAN, job : JobIds, msg : JobIds]
          /\ pri \in {"off", "wait", "read", "mark", "copy", "job", "msg", "find",
                      "delete", "resume", "edit", "written"}
      BY DEF JInv, JournalTypeOK
    <3>2. CASE pri = "off"
      BY <3>2 DEF JInv, BufferInv
    <3>3. CASE pri \in {"read", "mark"} \/ (pri = "wait" /\ ~jnl.printing)
      BY <3>3 DEF JInv, BufferInv
    <3>4. CASE pri \in {"copy", "job", "msg"}
      <4>1. tgt \in Jobs
        BY <3>4 DEF JInv, BufferInv, Copying
      <4>2. Loaded(tgt)
        BY <1>2, <3>1, <3>4 DEF JInv, BufferInv, HalfCopied, Loaded, NoReceipt
      <4> QED BY <4>1, <4>2
    <3>5. CASE \/ pri \in {"find", "delete", "resume", "edit", "written"}
               \/ pri = "wait" /\ jnl.printing
      <4>1. Processing(jnl.job) \/ Processing(tgt)
        BY <3>5 DEF JInv, BufferInv
      <4> QED BY <4>1 DEF Processing
    <3> QED BY <3>1, <3>2, <3>3, <3>4, <3>5
  <2>2. \A j \in Jobs : Loaded(j) => j \in Jobs' /\ Loaded(j)'
    BY <1>1 DEF Loaded, Jobs
  <2>3. ~jnl'.printing
    BY <1>1 DEF IdleJnl
  <2> QED BY <1>1, <2>1, <2>2, <2>3 DEF BufferInv, Copying
<1>8. SentInv'
  BY <1>1 DEF JInv, SentInv
<1>9. KeptInv'
  <2>1. Due' => Due
    BY <1>1 DEF Due
  <2> QED BY <1>1, <2>1 DEF JInv, KeptInv, Kept, Pending, InQueue, InBuffer
<1> QED BY <1>3, <1>4, <1>5, <1>6, <1>7, <1>8, <1>9 DEF JInv

-----------------------------------------------------------------------------
(***************************************************************************)
(* The printer task                                                        *)
(***************************************************************************)
\* What the printer task changes is of its type.
Buffers  == [printing : BOOLEAN, job : JobIds, msg : JobIds]
Controls == [printing : BOOLEAN, job : JobIds, final : BOOLEAN]

LEMMA PrinterTypes ==
    ASSUME JInv, UNCHANGED <<slot, cancel, asked>>,
           count' \in 0..1, staged' \in {<<>>, << 0 >>, << 1 >>},
           mbox' \in Seq(JobIds),
           pri' \in {"off", "wait", "read", "mark", "copy", "job", "msg", "find",
                     "delete", "resume", "edit", "written"},
           ret' \in {0, 1, 98, 99}, tgt' \in JobIds,
           eja' \in Buffers, jnl' \in Controls,
           sent' \in Seq(Payments \cup {Garbage}),
           printed' \subseteq Payments, dropped' \subseteq Payments, spoilt' \in SUBSET Receipts,
           served' \in Seq(Nat), Len(served') = Len(asked), UNCHANGED <<behind, overtaken>>
    PROVE  JournalTypeOK'
BY DEF JInv, JournalTypeOK, Buffers, Controls, JobIds, Receipts

LEMMA TypesNow ==
    ASSUME JInv
    PROVE  /\ slot \in JobIds /\ count \in 0..1 /\ staged \in {<<>>, << 0 >>, << 1 >>}
           /\ mbox \in Seq(JobIds) /\ ret \in {0, 1, 98, 99} /\ tgt \in JobIds
           /\ pri \in {"off", "wait", "read", "mark", "copy", "job", "msg", "find",
                       "delete", "resume", "edit", "written"}
           /\ eja \in Buffers /\ jnl \in Controls
           /\ sent \in Seq(Payments \cup {Garbage})
           /\ printed \subseteq Payments /\ dropped \subseteq Payments
           /\ spoilt \in SUBSET Receipts
           /\ served \in Seq(Nat) /\ Len(served) = Len(asked)
           /\ cancel \in Nat /\ asked \in Seq(Payments) /\ Payments \subseteq Nat
           /\ NoReceipt \in Buffers /\ IdleJnl \in Controls /\ NoJob \in JobIds
BY MaxPayAssumption DEF JInv, JournalTypeOK, Buffers, Controls, JobIds, Payments, Garbage, NoReceipt, IdleJnl, NoJob

LEMMA Made ==
    ASSUME NEW b \in BOOLEAN, NEW j \in JobIds, NEW k \in JobIds, NEW f \in BOOLEAN
    PROVE  /\ [printing |-> b, job |-> j, msg |-> k] \in Buffers
           /\ [printing |-> b, job |-> j, final |-> f] \in Controls
BY DEF Buffers, Controls

\* No step of the printer task changes what is asked for.
LEMMA PrinterLeaves ==
    ASSUME JInv, OpeWaits, UNCHANGED svars, UNCHANGED <<slot, cancel, asked>>
    PROVE  /\ AskedInv' /\ TurnInv'
           /\ Due' <=> Due
           /\ pc \notin {"boot", "stage", "store", "put"} /\ UNCHANGED <<pc, paid, cycl>>
           /\ staged # << 1 >> /\ (pri # "delete" => staged = <<>>)
           /\ Due => cancel = paid
<1>1. pc \notin {"boot", "stage", "store", "put"} /\ UNCHANGED <<pc, paid, cycl>>
  BY DEF OpeWaits, svars, volatile, phases
<1>2. AskedInv'
  BY <1>1 DEF JInv, AskedInv, Asking, Jobs
<1>3. TurnInv'
  BY <1>1 DEF TurnInv, OpeWaits
<1>4. Due' <=> Due
  BY <1>1 DEF Due
<1>5. staged # <<1>> /\ (pri # "delete" => staged = <<>>)
  BY <1>1 DEF JInv, QueueInv, StagedInv, JournalTypeOK
<1>6. Due => cancel = paid
  BY <1>1 DEF JInv, AskedInv, Due
<1> QED BY <1>1, <1>2, <1>3, <1>4, <1>5, <1>6

\* Nor does the queue change where its counters do not.
LEMMA QueueStays ==
    ASSUME JInv, OpeWaits, UNCHANGED svars, UNCHANGED <<slot, cancel, asked, count, staged>>,
           pri # "delete", pri' # "delete"
    PROVE  /\ Holds' <=> Holds
           /\ Holds <=> count = 1
           /\ StagedInv'
           /\ \A p : InQueue(p)' <=> InQueue(p)
           /\ \A j : Unqueued(j)' <=> Unqueued(j)
<1>1. pc \notin {"boot", "store", "put"} /\ pc' = pc /\ staged = <<>>
  BY PrinterLeaves
<1> QED BY <1>1 DEF Holds, StagedInv, InQueue, Unqueued

\* No receipt goes missing where the queue and the buffer keep theirs.
LEMMA KeptStays ==
    ASSUME JInv, OpeWaits, UNCHANGED svars, UNCHANGED <<slot, cancel, asked, overtaken>>,
           printed \subseteq printed', dropped \subseteq dropped',
           \A p \in Payments : Pending(p) => Kept(p)'
    PROVE  KeptInv'
<1>1. (Due' <=> Due) /\ paid' = paid
  BY PrinterLeaves
<1>2. \A p \in Payments : Kept(p) => Kept(p)'
  BY DEF Kept
<1> QED BY <1>1, <1>2 DEF JInv, KeptInv

\* Start-up takes up what the buffer holds, or else the queue.
LEMMA ReWriteKeeps ==
    ASSUME JInv, OpeWaits, UNCHANGED svars, ReWriteCheck \/ ReWriteQueued
    PROVE  JInv'
<1>1. UNCHANGED <<kept, paper, tgt, sent>> /\ pri \in {"off", "wait"} /\ pri' \in {"find", "read", "wait"}
  BY DEF ReWriteCheck, ReWriteQueued
<1>2. UNCHANGED <<slot, cancel, asked, count, staged, eja, printed, spoilt, dropped, served, behind, overtaken>>
  BY <1>1 DEF kept, paper, history
<1>3. /\ AskedInv' /\ TurnInv' /\ (Due' <=> Due) /\ paid' = paid
      /\ Holds' <=> Holds
      /\ Holds <=> count = 1
      /\ StagedInv'
      /\ \A p : InQueue(p)' <=> InQueue(p)
      /\ \A j : Unqueued(j)' <=> Unqueued(j)
  BY <1>1, <1>2, PrinterLeaves, QueueStays
<1>4. mbox' \in Seq(JobIds) /\ \A i \in DOMAIN mbox' : mbox'[i] \in Jobs
  <2>1. mbox \in Seq(JobIds) /\ \A i \in DOMAIN mbox : mbox[i] \in Jobs
    BY DEF JInv, JournalTypeOK, QueueInv
  <2>2. CASE mbox' = mbox
    BY <2>1, <2>2
  <2>3. CASE mbox # <<>> /\ mbox' = Tail(mbox)
    BY <2>1, <2>3, HeadTailProperties
  <2> QED BY <2>2, <2>3 DEF ReWriteCheck, ReWriteQueued, PrnMsgBoxClear
<1>5. JournalTypeOK'
  <2>1. jnl' \in Controls
    <3>1. eja.job \in JobIds /\ jnl \in Controls
      BY TypesNow DEF Buffers
    <3>2. [printing |-> TRUE, job |-> eja.job, final |-> FALSE] \in Controls
      BY <3>1, Made
    <3> QED BY <3>1, <3>2 DEF ReWriteCheck, ReWriteQueued
  <2>2. ret' \in {0, 1, 98, 99}
    BY TypesNow DEF ReWriteCheck, ReWriteQueued
  <2> QED BY <1>1, <1>2, <1>4, <2>1, <2>2, TypesNow, PrinterTypes
<1>6. QueueInv'
  BY <1>2, <1>3, <1>4 DEF JInv, QueueInv, Jobs
<1>7. BufferInv'
  <2>1. CASE ReWriteCheck /\ eja.printing
    <3>1. PICK j \in Jobs : Loaded(j)
      BY <2>1 DEF JInv, BufferInv, ReWriteCheck
    <3>2. jnl' = [printing |-> TRUE, job |-> j, final |-> FALSE] /\ pri' = "find" /\ ret' = 1
      BY <2>1, <3>1 DEF ReWriteCheck, Loaded
    <3>3. tgt' = NoJob
      BY <1>1, <2>1 DEF JInv, BufferInv, ReWriteCheck
    <3>4. Processing(jnl.job)'
      BY <1>2, <3>1, <3>2 DEF Processing, Loaded, Jobs
    <3> QED BY <3>2, <3>3, <3>4 DEF BufferInv, Copying
  <2>2. CASE ReWriteCheck /\ ~eja.printing
    <3>1. /\ pri = "off" /\ pri' = (IF count > 0 THEN "read" ELSE "wait")
          /\ jnl' = jnl /\ ret' = ret /\ eja' = eja
      BY <1>2, <2>2 DEF ReWriteCheck
    <3>2. ret = 0 /\ ~jnl.printing
      BY <3>1 DEF JInv, BufferInv
    <3>3. pri' = "read" => Holds'
      BY <1>3, <3>1 DEF JInv, JournalTypeOK
    <3> QED BY <2>2, <3>1, <3>2, <3>3 DEF BufferInv, Copying
  <2>3. CASE ReWriteQueued
    <3>1. /\ pri = "wait" /\ ret = 99 /\ ~jnl.printing /\ pri' = "read"
          /\ ret' = ret /\ jnl' = jnl /\ eja' = eja
      BY <1>2, <2>3 DEF ReWriteQueued
    <3>2. Holds /\ count = 1 /\ ~eja.printing
      BY <3>1 DEF JInv, BufferInv
    <3> QED BY <1>2, <1>3, <3>1, <3>2 DEF BufferInv, Copying
  <2> QED BY <2>1, <2>2, <2>3
<1>8. SentInv'
  <2>1. pri' = "wait" => ~jnl'.printing
    BY DEF ReWriteCheck, ReWriteQueued, JInv, BufferInv
  <2> QED BY <1>1, <1>2, <2>1 DEF JInv, SentInv
<1>9. KeptInv'
  <2>1. \A p \in Payments : Pending(p) => Kept(p)'
    BY <1>2, <1>3 DEF Kept, Pending, InBuffer
  <2> QED BY <1>2, <2>1, KeptStays
<1> QED BY <1>3, <1>5, <1>6, <1>7, <1>8, <1>9 DEF JInv

\* The entry of the queue goes to the buffer.
LEMMA ReadKeeps ==
    ASSUME JInv, OpeWaits, UNCHANGED svars, ReadQue \/ MarkRead
    PROVE  JInv'
<1>1. /\ UNCHANGED <<slot, cancel, asked, count, staged, mbox, sent, printed, spoilt, dropped, served, behind, overtaken>>
      /\ pri \in {"read", "mark"} /\ pri' \in {"mark", "copy"}
  BY DEF ReadQue, MarkRead, paper, history
<1>2. /\ AskedInv' /\ TurnInv' /\ (Due' <=> Due) /\ paid' = paid
      /\ Holds' <=> Holds
      /\ Holds <=> count = 1
      /\ StagedInv'
      /\ \A p : InQueue(p)' <=> InQueue(p)
  BY <1>1, PrinterLeaves, QueueStays
<1>3. ~eja.printing /\ Holds /\ ret \in {0, 99} /\ slot \in Jobs
  BY <1>1 DEF JInv, BufferInv, QueueInv
<1>4. \/ /\ pri = "read" /\ pri' = "mark" /\ tgt' = slot /\ ret' = ret
         /\ eja' = [printing |-> FALSE, job |-> slot, msg |-> slot]
         /\ jnl' = [printing |-> FALSE, job |-> slot, final |-> FALSE]
      \/ /\ pri = "mark" /\ pri' = "copy" /\ tgt = slot /\ tgt' = slot /\ ret' \in {0, 98}
         /\ eja' = [printing |-> TRUE, job |-> slot, msg |-> slot]
         /\ jnl' = [printing |-> TRUE, job |-> slot, final |-> FALSE]
  <2>1. CASE ReadQue
    BY <2>1 DEF ReadQue, IdleJnl
  <2>2. CASE MarkRead
    <3>1. tgt = slot /\ eja.job = slot /\ eja.msg = slot /\ jnl.job = slot /\ ~jnl.final
      BY <2>2 DEF JInv, BufferInv, MarkRead
    <3>2. /\ eja \in [printing : BOOLEAN, job : JobIds, msg : JobIds]
          /\ jnl \in [printing : BOOLEAN, job : JobIds, final : BOOLEAN]
      BY DEF JInv, JournalTypeOK
    <3>3. /\ eja' = [printing |-> TRUE, job |-> slot, msg |-> slot]
          /\ jnl' = [printing |-> TRUE, job |-> slot, final |-> FALSE]
      BY <2>2, <3>1, <3>2 DEF MarkRead
    <3> QED BY <2>2, <3>1, <3>3 DEF MarkRead
  <2> QED BY <2>1, <2>2
<1>5. JournalTypeOK'
  <2>1. slot \in JobIds
    BY TypesNow
  <2>2. eja' \in Buffers /\ jnl' \in Controls
    <3>1. \A b \in BOOLEAN : /\ [printing |-> b, job |-> slot, msg |-> slot] \in Buffers
                            /\ [printing |-> b, job |-> slot, final |-> FALSE] \in Controls
      BY <2>1, Made
    <3> QED BY <1>4, <3>1
  <2> QED BY <1>1, <1>3, <1>4, <2>1, <2>2, TypesNow, PrinterTypes
<1>6. QueueInv'
  BY <1>1, <1>2 DEF JInv, QueueInv, Jobs
<1>7. BufferInv'
  BY <1>1, <1>2, <1>3, <1>4 DEF BufferInv, Loaded, Copying, Jobs
<1>8. SentInv'
  BY <1>1, <1>4 DEF JInv, SentInv
<1>9. KeptInv'
  <2>1. \A p \in Payments : Pending(p) => Kept(p)'
    BY <1>1, <1>2, <1>3 DEF Kept, Pending, InBuffer
  <2> QED BY <1>1, <2>1, KeptStays
<1> QED BY <1>2, <1>5, <1>6, <1>7, <1>8, <1>9 DEF JInv

\* A new request is taken, or refused because the printer is out of order.
LEMMA TakeKeeps ==
    ASSUME JInv, OpeWaits, UNCHANGED svars, TakeRequest \/ RefuseRequest
    PROVE  JInv'
<1>1. /\ UNCHANGED <<slot, cancel, asked, count, staged, sent, printed, spoilt, history>>
      /\ pri = "wait" /\ pri' \in {"wait", "copy"} /\ ~jnl.printing /\ mbox # <<>>
      /\ mbox' = Tail(mbox) /\ ret' = 0 /\ eja' = NoReceipt
  BY DEF TakeRequest, RefuseRequest, CanTake, paper
<1>2. /\ AskedInv' /\ TurnInv' /\ (Due' <=> Due) /\ paid' = paid
      /\ Holds' <=> Holds
      /\ StagedInv'
      /\ \A p : InQueue(p)' <=> InQueue(p)
  BY <1>1, PrinterLeaves, QueueStays
<1>3. /\ mbox' \in Seq(JobIds) /\ \A i \in DOMAIN mbox' : mbox'[i] \in Jobs
      /\ Head(mbox) \in Jobs /\ Head(mbox) \in JobIds
  <2>1. mbox \in Seq(JobIds) /\ \A i \in DOMAIN mbox : mbox[i] \in Jobs
    BY DEF JInv, JournalTypeOK, QueueInv
  <2>2. Head(mbox) = mbox[1] /\ 1 \in DOMAIN mbox
    BY <1>1, <2>1
  <2> QED BY <1>1, <2>1, <2>2, HeadTailProperties
<1>4. \/ /\ pri' = "copy" /\ tgt' = Head(mbox) /\ dropped' = dropped
         /\ jnl' = [printing |-> TRUE, job |-> NoJob, final |-> FALSE]
      \/ /\ pri' = "wait" /\ tgt' = tgt /\ jnl' = IdleJnl
         /\ dropped' = dropped \cup {asked[Head(mbox)]}
  BY <1>1 DEF TakeRequest, RefuseRequest, IdleJnl, paper
<1>5. asked[Head(mbox)] \in Payments
  BY <1>3 DEF JInv, JournalTypeOK, Jobs
<1>6. JournalTypeOK'
  <2>1. eja' \in Buffers /\ jnl' \in Controls
    <3>1. NoJob \in JobIds /\ NoReceipt \in Buffers /\ IdleJnl \in Controls
      BY TypesNow
    <3>2. [printing |-> TRUE, job |-> NoJob, final |-> FALSE] \in Controls
      BY <3>1, Made
    <3> QED BY <1>1, <1>4, <3>1, <3>2
  <2> QED BY <1>1, <1>3, <1>4, <1>5, <2>1, TypesNow, PrinterTypes DEF history
<1>7. QueueInv'
  BY <1>1, <1>2, <1>3, <1>4 DEF JInv, QueueInv, Jobs
<1>8. BufferInv'
  BY <1>1, <1>3, <1>4 DEF BufferInv, Copying, Jobs, IdleJnl, NoReceipt
<1>9. SentInv'
  BY <1>1, <1>4 DEF JInv, SentInv, IdleJnl
<1>10. KeptInv'
  <2>1. ~eja.printing
    BY <1>1 DEF JInv, BufferInv
  <2>2. dropped \subseteq dropped'
    BY <1>4
  <2>3. \A p \in Payments : Pending(p) => Kept(p)'
    BY <1>1, <1>2, <2>1 DEF Kept, Pending, InBuffer
  <2> QED BY <1>1, <2>2, <2>3, KeptStays DEF history
<1> QED BY <1>2, <1>6, <1>7, <1>8, <1>9, <1>10 DEF JInv

\* The control data, its job number and the message are copied to the buffer.
LEMMA CopyKeeps ==
    ASSUME JInv, OpeWaits, UNCHANGED svars, CopyProc \/ CopyJob \/ CopyMsg
    PROVE  JInv'
<1>1. /\ UNCHANGED <<slot, cancel, asked, count, staged, mbox, ret, tgt, sent,
                     printed, spoilt, dropped, served, behind, overtaken>>
      /\ pri \in Copying /\ pri' \in {"job", "msg", "find"}
  BY DEF CopyProc, CopyJob, CopyMsg, Copying, paper, history
<1>2. /\ AskedInv' /\ TurnInv' /\ (Due' <=> Due) /\ paid' = paid
      /\ Holds' <=> Holds
      /\ StagedInv'
      /\ \A p : InQueue(p)' <=> InQueue(p)
  BY <1>1, PrinterLeaves, QueueStays DEF Copying
<1>3. /\ eja \in Buffers /\ jnl \in Controls
      /\ tgt \in Jobs /\ jnl.printing /\ ~jnl.final /\ ret # 1
      /\ ret = 99 => Holds /\ count = 1 /\ slot # tgt
  BY <1>1, TypesNow DEF JInv, BufferInv
<1>4. \/ /\ pri = "copy" /\ pri' = "job" /\ jnl' = [printing |-> TRUE, job |-> tgt, final |-> FALSE]
         /\ eja' = [printing |-> TRUE, job |-> tgt, msg |-> tgt]
               \/ eja' = [printing |-> TRUE, job |-> NoJob, msg |-> NoJob]
      \/ /\ pri = "job" /\ pri' = "msg" /\ jnl' = jnl /\ jnl.job = tgt
         /\ eja' = [printing |-> TRUE, job |-> tgt, msg |-> eja.msg] /\ eja.msg \in {tgt, NoJob}
      \/ /\ pri = "msg" /\ pri' = "find" /\ jnl' = jnl /\ jnl.job = tgt
         /\ eja' = [printing |-> TRUE, job |-> tgt, msg |-> tgt]
  <2>1. CASE CopyProc
    <3>1. eja = NoReceipt \/ Loaded(tgt)
      BY <2>1 DEF JInv, BufferInv, CopyProc
    <3>2. jnl' = [printing |-> TRUE, job |-> tgt, final |-> FALSE]
      BY <1>3, <2>1 DEF CopyProc, Controls
    <3>3. CASE eja = NoReceipt
      <4>1. eja' = [printing |-> TRUE, job |-> NoJob, msg |-> NoJob]
        BY <2>1, <3>3 DEF CopyProc, NoReceipt
      <4> QED BY <2>1, <3>2, <4>1 DEF CopyProc
    <3>4. CASE Loaded(tgt)
      <4>1. eja' = [printing |-> TRUE, job |-> tgt, msg |-> tgt]
        BY <2>1, <3>4 DEF CopyProc, Loaded
      <4> QED BY <2>1, <3>2, <4>1 DEF CopyProc
    <3> QED BY <3>1, <3>3, <3>4
  <2>2. CASE CopyJob
    <3>1. jnl.job = tgt /\ (Loaded(tgt) \/ eja = [NoReceipt EXCEPT !.printing = TRUE])
      BY <2>2 DEF JInv, BufferInv, CopyJob
    <3>2. eja.printing /\ eja.msg \in {tgt, NoJob}
      BY <3>1 DEF NoReceipt, Loaded
    <3>3. eja' = [printing |-> TRUE, job |-> tgt, msg |-> eja.msg]
      BY <1>3, <2>2, <3>1, <3>2 DEF CopyJob, Buffers
    <3> QED BY <2>2, <3>1, <3>2, <3>3 DEF CopyJob
  <2>3. CASE CopyMsg
    <3>1. jnl.job = tgt /\ eja.printing /\ eja.job = tgt
      BY <2>3 DEF JInv, BufferInv, CopyMsg
    <3>2. eja' = [printing |-> TRUE, job |-> tgt, msg |-> tgt]
      BY <1>3, <2>3, <3>1 DEF CopyMsg, Buffers
    <3> QED BY <2>3, <3>1, <3>2 DEF CopyMsg
  <2> QED BY <2>1, <2>2, <2>3
<1>5. JournalTypeOK'
  <2>1. eja' \in Buffers /\ jnl' \in Controls
    <3>1. NoJob \in JobIds /\ tgt \in JobIds /\ eja.msg \in JobIds /\ jnl \in Controls
      BY TypesNow DEF Buffers
    <3>2. /\ [printing |-> TRUE, job |-> tgt, final |-> FALSE] \in Controls
          /\ [printing |-> TRUE, job |-> tgt, msg |-> tgt] \in Buffers
          /\ [printing |-> TRUE, job |-> NoJob, msg |-> NoJob] \in Buffers
          /\ [printing |-> TRUE, job |-> tgt, msg |-> eja.msg] \in Buffers
      BY <3>1, Made
    <3> QED BY <1>4, <3>1, <3>2
  <2> QED BY <1>1, <1>4, <2>1, TypesNow, PrinterTypes
<1>6. QueueInv'
  BY <1>1, <1>2 DEF JInv, QueueInv, Jobs
<1>7. BufferInv'
  BY <1>1, <1>2, <1>3, <1>4 DEF BufferInv, Loaded, Processing, Copying, Jobs, NoReceipt
<1>8. SentInv'
  BY <1>1, <1>4 DEF JInv, SentInv
<1>9. KeptInv'
  <2>1. \A p : InBuffer(p) => InBuffer(p)'
    <3>1. eja.printing /\ eja.msg # NoJob => eja.msg = tgt
      BY <1>1, <1>4 DEF JInv, BufferInv, Loaded, NoReceipt, Copying
    <3>2. CASE eja.printing /\ eja.msg # NoJob
      <4>1. eja'.printing /\ eja'.msg = tgt
        <5>1. CASE pri = "copy"
          <6>1. Loaded(tgt)
            BY <3>2, <5>1 DEF JInv, BufferInv, NoReceipt
          <6> QED BY <5>1, <6>1 DEF CopyProc, CopyJob, CopyMsg, Loaded
        <5>2. CASE pri # "copy"
          BY <1>4, <3>1, <3>2, <5>2
        <5> QED BY <5>1, <5>2
      <4> QED BY <1>1, <3>1, <3>2, <4>1 DEF InBuffer
    <3> QED BY <3>2 DEF InBuffer
  <2>2. \A p \in Payments : Pending(p) => Kept(p)'
    BY <1>1, <1>2, <2>1 DEF Kept, Pending
  <2> QED BY <1>1, <2>2, KeptStays
<1> QED BY <1>2, <1>5, <1>6, <1>7, <1>8, <1>9 DEF JInv

\* The entry of the receipt in the buffer leaves the queue.
LEMMA DelKeeps ==
    ASSUME JInv, OpeWaits, UNCHANGED svars, DelQue \/ DelStore \/ Resume
    PROVE  JInv'
<1>1. /\ UNCHANGED <<slot, cancel, asked, eja, mbox, jnl, sent, printed, spoilt, dropped,
                     served, behind, overtaken>>
      /\ pri \in {"find", "delete", "resume"}
      /\ pri' \in {"delete", "resume", "edit", "copy"}
  BY DEF DelQue, DelStore, Resume, NmiMark, NmiStore, AfterFind, kept, paper, history
<1>2. /\ AskedInv' /\ TurnInv' /\ (Due' <=> Due) /\ paid' = paid
      /\ pc' = pc /\ pc \notin {"boot", "stage", "store", "put"}
      /\ pri # "delete" => staged = <<>>
      /\ Due => cancel = paid
  BY <1>1, PrinterLeaves
<1> DEFINE j == jnl.job
<1>3. /\ Processing(j) /\ ~jnl.final
      /\ pri # "resume" => IF ret = 1 THEN tgt = NoJob ELSE tgt = j
      /\ pri = "resume" => ret = 1 /\ Unqueued(j)
      /\ ret = 99 => Holds /\ count = 1 /\ (pri = "find" => slot # tgt)
      /\ pri = "delete" => slot = j /\ staged = << 0 >> /\ count = 1
  <2>1. CASE pri \in {"find", "delete"}
    <3>1. IF ret = 1 THEN tgt = NoJob /\ Processing(jnl.job) ELSE Processing(tgt)
      BY <2>1 DEF JInv, BufferInv
    <3>2. Processing(j) /\ (ret # 1 => tgt = j)
      BY <3>1 DEF Processing
    <3> QED BY <2>1, <3>1, <3>2 DEF JInv, BufferInv, QueueInv, StagedInv
  <2>2. CASE pri = "resume"
    BY <2>2 DEF JInv, BufferInv
  <2> QED BY <1>1, <2>1, <2>2
<1>4. Processing(j)' /\ j' = j /\ ~jnl'.final
  BY <1>1, <1>3 DEF Processing, Loaded, Jobs
<1> HIDE DEF j
<1>5. \/ /\ pri = "find" /\ ret' = ret /\ tgt' = tgt
         /\ \/ count = 1 /\ slot = j /\ staged' = << 0 >> /\ count' = count /\ pri' = "delete"
            \/ ~(count > 0 /\ slot = j) /\ pri' = AfterFind /\ UNCHANGED <<count, staged>>
      \/ /\ pri = "delete" /\ ret' = ret /\ tgt' = tgt
         /\ staged' = <<>> /\ count' = 0 /\ pri' = AfterFind
      \/ /\ pri = "resume" /\ pri' = "copy" /\ tgt' = j /\ UNCHANGED <<count, staged>>
         /\ ret' = IF count > 0 THEN 99 ELSE 98
  <2>1. CASE DelQue
    <3>1. count \in 0..1
      BY TypesNow
    <3>2. CASE Queued
      <4>1. count = 1 /\ slot = j
        BY <3>1, <3>2 DEF Queued, j
      <4> QED BY <2>1, <3>2, <4>1 DEF DelQue, NmiMark
    <3>3. CASE ~Queued
      BY <2>1, <3>3 DEF DelQue, Queued, kept, j
    <3> QED BY <3>2, <3>3
  <2>2. CASE DelStore
    <3>1. staged # <<>> /\ staged[1] = 0
      BY <1>3, <2>2 DEF DelStore
    <3> QED BY <2>2, <3>1 DEF DelStore, NmiStore
  <2>3. CASE Resume
    <3>1. eja.msg = j
      BY <1>3 DEF Processing, Loaded
    <3> QED BY <2>3, <3>1 DEF Resume, kept
  <2> QED BY <2>1, <2>2, <2>3
<1>6. AfterFind = (IF ret = 1 THEN "resume" ELSE "edit")
  BY DEF AfterFind
<1>7. JournalTypeOK'
  <2>1. j \in JobIds
    BY TypesNow DEF j, Controls
  <2> QED BY <1>1, <1>5, <1>6, <2>1, TypesNow, PrinterTypes
<1>8. /\ pri = "find" => (Holds <=> count = 1)
      /\ pri = "delete" => ~Holds
      /\ pri = "resume" => (Holds <=> count = 1)
  BY <1>2, <1>3 DEF Holds
<1>9. /\ Holds' => Holds
      /\ pri' \in {"resume", "edit"} => Unqueued(j)'
      /\ pri' = "copy" => Unqueued(j)' /\ (Holds' <=> count' = 1)
      /\ ret' = 99 => Holds' /\ count' = 1 /\ slot # tgt'
  <2>1. count \in 0..1
    BY TypesNow
  <2>2. CASE pri = "find"
    <3>1. CASE pri' = "delete"
      <4>1. staged' = <<0>> /\ slot = j /\ count = 1
        BY <1>5, <1>6, <2>2, <3>1
      <4>2. ret # 99
        BY <1>3, <2>2, <4>1
      <4> QED BY <1>3, <1>5, <1>8, <2>2, <3>1, <4>1, <4>2 DEF Holds
    <3>2. CASE pri' # "delete"
      <4>1. ~(count > 0 /\ slot = j) /\ UNCHANGED <<count, staged>> /\ ret' = ret /\ tgt' = tgt
            /\ pri' \in {"resume", "edit"}
        BY <1>5, <1>6, <2>2, <3>2
      <4>2. Holds' <=> Holds
        BY <4>1 DEF Holds
      <4>3. Unqueued(j)'
        BY <1>1, <1>8, <2>1, <2>2, <4>1, <4>2, <1>4 DEF Unqueued
      <4> QED BY <1>3, <2>2, <4>1, <4>2, <4>3
    <3> QED BY <3>1, <3>2
  <2>3. CASE pri = "delete"
    <3>1. staged' = <<>> /\ count' = 0 /\ ret' = ret /\ pri' \in {"resume", "edit"} /\ ret # 99
      BY <1>3, <1>5, <1>6, <1>8, <2>3
    <3>2. ~Holds'
      BY <3>1 DEF Holds
    <3> QED BY <3>1, <3>2 DEF Unqueued
  <2>4. CASE pri = "resume"
    <3>1. /\ pri' = "copy" /\ tgt' = j /\ UNCHANGED <<count, staged>>
          /\ ret' = 99 => count = 1
      BY <1>5, <2>1, <2>4
    <3>2. Holds' <=> Holds
      BY <3>1 DEF Holds
    <3>3. Unqueued(j) /\ Unqueued(j)'
      BY <1>1, <1>3, <1>4, <2>4, <3>2 DEF Unqueued
    <3> QED BY <1>8, <2>4, <3>1, <3>2, <3>3 DEF Unqueued
  <2> QED BY <1>1, <2>2, <2>3, <2>4
<1>10. QueueInv'
  <2>1. StagedInv'
    BY <1>2, <1>5, <1>6 DEF StagedInv
  <2> QED BY <1>1, <1>9, <2>1 DEF JInv, QueueInv, Jobs
<1>11. BufferInv'
  <2>1. Processing(jnl.job)' /\ jnl'.job = j
    BY <1>4 DEF j
  <2>2. CASE pri' = "delete"
    BY <1>3, <1>4, <1>5, <1>6, <1>9, <1>1, <2>1, <2>2 DEF BufferInv, Copying
  <2>3. CASE pri' = "resume"
    <3>1. ret' = 1
      BY <1>5, <1>6, <2>3
    <3> QED BY <1>4, <1>9, <2>1, <2>3, <3>1 DEF BufferInv, Copying, Unqueued, j
  <2>4. CASE pri' = "edit"
    <3>1. ret' # 1 /\ tgt' = j
      BY <1>3, <1>5, <1>6, <2>4
    <3>2. Processing(tgt)' /\ Unqueued(tgt)'
      BY <1>4, <1>9, <2>4, <3>1 DEF Processing, Unqueued, Loaded
    <3> QED BY <1>4, <1>9, <2>4, <3>1, <3>2 DEF BufferInv, Copying
  <2>5. CASE pri' = "copy"
    <3>1. tgt' = j /\ ret' \in {98, 99}
      BY <1>5, <1>6, <2>5
    <3>2. tgt' \in Jobs' /\ jnl'.printing /\ Loaded(tgt)'
      BY <1>4, <3>1 DEF Processing, Loaded
    <3> QED BY <1>1, <1>4, <1>9, <2>5, <3>1, <3>2 DEF BufferInv, Copying
  <2> QED BY <1>1, <2>2, <2>3, <2>4, <2>5
<1>12. SentInv'
  BY <1>1, <1>5, <1>6 DEF JInv, SentInv
<1>13. KeptInv'
  <2> SUFFICES ASSUME NEW p \in Payments, Pending(p) PROVE Pending(p)'
    BY <1>1, KeptStays DEF Kept
  <2>1. InBuffer(p) => InBuffer(p)'
    BY <1>1 DEF InBuffer
  <2>2. InQueue(p) => InQueue(p)' \/ InBuffer(p)
    <3> SUFFICES ASSUME InQueue(p), ~InQueue(p)' PROVE InBuffer(p)
      OBVIOUS
    <3>1. slot # NoJob /\ asked[slot] = p /\ Holds
      BY DEF InQueue, Holds
    <3>2. ~Holds'
      BY <1>1, <3>1 DEF InQueue, Holds
    <3>3. slot = j
      BY <1>1, <1>5, <1>8, <3>1, <3>2 DEF Holds
    <3> QED BY <1>3, <3>1, <3>3 DEF Processing, Loaded, InBuffer
  <2> QED BY <1>1, <2>1, <2>2 DEF Pending
<1> QED BY <1>2, <1>7, <1>10, <1>11, <1>12, <1>13 DEF JInv

\* A receipt is edited from the one copy of the payment, which may by now be
\* that of a later one, never of an earlier.
LEMMA EditKeeps ==
    ASSUME JInv, OpeWaits, UNCHANGED svars, EditFirst \/ EditLast
    PROVE  JInv'
<1>1. /\ UNCHANGED <<slot, cancel, asked, count, staged, eja, mbox, ret, tgt,
                     printed, spoilt, dropped, served, behind, overtaken>>
      /\ pri = "edit" \/ (pri = "wait" /\ jnl.printing /\ ~jnl.final)
      /\ pri' = "wait"
  BY DEF EditFirst, EditLast, kept, paper, history
<1>2. /\ AskedInv' /\ TurnInv' /\ (Due' <=> Due) /\ paid' = paid
      /\ Holds' <=> Holds
      /\ StagedInv'
      /\ \A p : InQueue(p)' <=> InQueue(p)
      /\ \A j : Unqueued(j)' <=> Unqueued(j)
  BY <1>1, PrinterLeaves, QueueStays
<1>3. Processing(tgt) /\ Unqueued(tgt) /\ ret # 1 /\ (ret = 99 => Holds /\ count = 1)
  BY <1>1 DEF JInv, BufferInv
<1>4. /\ Content = cancel /\ asked[tgt] <= cancel /\ asked[tgt] \in Payments
      /\ cancel \in Payments \cup {Garbage} /\ cancel \in Nat
  <2>1. tgt \in Jobs /\ tgt # NoJob
    BY <1>3 DEF Processing, Jobs, NoJob, JInv, JournalTypeOK
  <2>2. asked[tgt] \in Payments /\ asked[tgt] <= cancel
    BY <2>1, TypesNow DEF JInv, AskedInv, Jobs
  <2> QED BY <2>1, <2>2, TypesNow DEF Content, JInv, JournalTypeOK
<1>5. /\ jnl' \in Controls /\ jnl'.printing /\ jnl'.job = jnl.job
      /\ IF pri = "edit" THEN ~jnl'.final ELSE jnl'.final
  <2>1. jnl \in Controls /\ (pri = "edit" => ~jnl.final)
    BY TypesNow DEF JInv, BufferInv
  <2> QED BY <1>1, <1>3, <2>1 DEF EditFirst, EditLast, Controls, Processing
<1>6. /\ sent' \in Seq(Payments \cup {Garbage})
      /\ pri = "edit" => sent' = <<cancel>>
      /\ pri # "edit" => /\ Len(sent) = 1 /\ sent' = Append(sent, cancel)
                         /\ Len(sent') = 2 /\ sent'[1] = sent[1] /\ sent'[2] = cancel
  <2>1. CASE pri = "edit"
    <3>1. sent' = <<cancel>>
      BY <1>1, <1>4, <2>1 DEF EditFirst, EditLast
    <3>2. <<cancel>> \in Seq(Payments \cup {Garbage})
      BY <1>4
    <3> QED BY <2>1, <3>1, <3>2
  <2>2. CASE pri # "edit"
    <3>1. Len(sent) = 1 /\ sent \in Seq(Payments \cup {Garbage})
      BY <1>1, <2>2, TypesNow DEF JInv, SentInv
    <3>2. sent' = Append(sent, cancel)
      BY <1>1, <1>4, <2>2 DEF EditFirst, EditLast
    <3>3. /\ Append(sent, cancel) \in Seq(Payments \cup {Garbage})
          /\ Len(Append(sent, cancel)) = Len(sent) + 1
          /\ Append(sent, cancel)[1] = sent[1] /\ Append(sent, cancel)[Len(sent) + 1] = cancel
      <4>1. cancel \in Payments \cup {Garbage} /\ 1 \in 1 .. Len(sent)
        BY <1>4, <3>1
      <4> DEFINE S == Payments \cup {Garbage}
      <4>2. sent \in Seq(S) /\ cancel \in S /\ 1 \in 1 .. Len(sent)
        BY <3>1, <4>1
      <4> HIDE DEF S
      <4>3. /\ Append(sent, cancel) \in Seq(S)
            /\ Len(Append(sent, cancel)) = Len(sent) + 1
            /\ Append(sent, cancel)[1] = sent[1] /\ Append(sent, cancel)[Len(sent) + 1] = cancel
        BY <4>2, AppendProperties
      <4> QED BY <4>3 DEF S
    <3> QED BY <2>2, <3>1, <3>2, <3>3
  <2> QED BY <2>1, <2>2
<1>7. JournalTypeOK'
  BY <1>1, <1>5, <1>6, TypesNow, PrinterTypes
<1>8. QueueInv'
  BY <1>1, <1>2 DEF JInv, QueueInv, Jobs
<1>9. BufferInv'
  <2>1. Processing(tgt)'
    BY <1>1, <1>3, <1>5 DEF Processing, Loaded, Jobs
  <2> QED BY <1>1, <1>2, <1>3, <1>5, <2>1 DEF BufferInv, Copying
<1>10. SentInv'
  <2>1. CASE pri = "edit"
    <3>1. Len(sent') = 1 /\ sent'[1] = cancel
      BY <1>6, <2>1
    <3> QED BY <1>1, <1>4, <1>5, <2>1, <3>1 DEF JInv, SentInv
  <2>2. CASE pri # "edit"
    <3>1. asked[tgt] <= sent[1] /\ sent[1] <= cancel
      BY <1>1, <2>2 DEF JInv, SentInv
    <3>2. Len(sent') = 2 /\ sent'[1] = sent[1] /\ sent'[2] = cancel
      BY <1>6, <2>2
    <3>3. pri' = "wait" /\ jnl'.final /\ UNCHANGED <<asked, tgt, cancel, spoilt>>
      BY <1>1, <1>5, <2>2
    <3>4. cancel <= cancel
      BY <1>4
    <3>5. \A r \in spoilt :
             r.own # Garbage /\ r.own <= r.blocks[1] /\ r.blocks[1] <= r.blocks[2]
      BY DEF JInv, SentInv
    <3> QED BY <3>1, <3>2, <3>3, <3>4, <3>5 DEF SentInv
  <2> QED BY <2>1, <2>2
<1>11. KeptInv'
  <2>1. \A p \in Payments : Pending(p) => Kept(p)'
    BY <1>1, <1>2 DEF Kept, Pending, InBuffer
  <2> QED BY <1>1, <2>1, KeptStays
<1> QED BY <1>2, <1>7, <1>8, <1>9, <1>10, <1>11 DEF JInv

\* The receipt is on paper: whole, or with the blocks of a payment and of a later one.
LEMMA WrittenKeeps ==
    ASSUME JInv, OpeWaits, UNCHANGED svars, Written
    PROVE  JInv'
<1>1. /\ UNCHANGED <<slot, cancel, asked, count, staged, eja, mbox, ret, tgt, jnl, sent,
                     dropped, served, behind, overtaken>>
      /\ pri = "wait" /\ jnl.printing /\ jnl.final /\ pri' = "written"
  BY DEF Written, kept, history
<1>2. /\ AskedInv' /\ TurnInv' /\ (Due' <=> Due) /\ paid' = paid
      /\ Holds' <=> Holds
      /\ StagedInv'
      /\ \A p : InQueue(p)' <=> InQueue(p)
      /\ \A j : Unqueued(j)' <=> Unqueued(j)
  BY <1>1, PrinterLeaves, QueueStays
<1>3. Processing(tgt) /\ Unqueued(tgt) /\ ret # 1 /\ (ret = 99 => Holds /\ count = 1)
  BY <1>1 DEF JInv, BufferInv
<1>4. /\ sent \in Seq(Payments \cup {Garbage}) /\ Len(sent) = 2
      /\ sent[1] <= sent[2] /\ sent[2] <= cancel /\ asked[tgt] <= sent[1]
      /\ sent[1] \in Nat /\ sent[2] \in Nat /\ cancel \in Nat
      /\ asked[tgt] \in Payments /\ asked[tgt] \in Nat /\ asked[tgt] # Garbage
  <2>1. sent \in Seq(Payments \cup {Garbage}) /\ Len(sent) = 2 /\ Payments \cup {Garbage} \subseteq Nat
    BY <1>1, TypesNow DEF JInv, SentInv, Garbage
  <2>2. asked[tgt] \in Payments
    BY <1>3, TypesNow DEF Processing, Jobs
  <2>3. asked[tgt] \in Nat /\ asked[tgt] # Garbage
    BY <2>2, MaxPayAssumption DEF Payments, Garbage
  <2>4. sent[1] <= sent[2] /\ sent[2] <= cancel /\ asked[tgt] <= sent[1]
    BY <1>1 DEF JInv, SentInv
  <2>5. sent[1] \in Nat /\ sent[2] \in Nat
    <3>1. sent \in [1 .. 2 -> Payments \cup {Garbage}]
      BY <2>1, LenProperties
    <3>2. 1 \in 1 .. 2 /\ 2 \in 1 .. 2
      OBVIOUS
    <3>3. sent[1] \in Payments \cup {Garbage} /\ sent[2] \in Payments \cup {Garbage}
      BY <3>1, <3>2
    <3> QED BY <2>1, <3>3
  <2>6. cancel \in Nat
    BY TypesNow
  <2> QED BY <2>1, <2>2, <2>3, <2>4, <2>5, <2>6
<1>5. Receipt = [own |-> asked[tgt], blocks |-> sent] /\ Receipt \in Receipts
  <2>1. tgt # NoJob
    BY <1>3, TypesNow DEF Processing, Jobs, NoJob
  <2>2. Receipt = [own |-> asked[tgt], blocks |-> sent]
    BY <2>1 DEF Receipt
  <2> QED BY <1>4, <2>2 DEF Receipts
<1>6. Own(Receipt) <=> sent[1] = asked[tgt] /\ sent[2] = asked[tgt]
  BY <1>4, <1>5 DEF Own
<1>7. \/ /\ sent[1] = asked[tgt] /\ sent[2] = asked[tgt]
         /\ printed' = printed \cup {asked[tgt]} /\ spoilt' = spoilt
      \/ /\ ~(sent[1] = asked[tgt] /\ sent[2] = asked[tgt])
         /\ spoilt' = spoilt \cup {[own |-> asked[tgt], blocks |-> sent]} /\ printed' = printed
  BY <1>5, <1>6 DEF Written
<1>8. JournalTypeOK'
  <2>1. printed' \subseteq Payments
    BY <1>4, <1>7, TypesNow
  <2>2. spoilt' \in SUBSET Receipts
    BY <1>5, <1>7, TypesNow
  <2> QED BY <1>1, <1>4, <2>1, <2>2, TypesNow, PrinterTypes
<1>9. QueueInv'
  BY <1>1, <1>2 DEF JInv, QueueInv, Jobs
<1>10. BufferInv'
  <2>1. Processing(tgt)'
    BY <1>1, <1>3 DEF Processing, Loaded, Jobs
  <2> QED BY <1>1, <1>2, <1>3, <2>1 DEF BufferInv, Copying
<1>11. SentInv'
  <2>1. asked[tgt] = cancel => cancel \in printed'
    BY <1>4, <1>7
  <2>2. \A r \in spoilt' :
           r.own # Garbage /\ r.own <= r.blocks[1] /\ r.blocks[1] <= r.blocks[2]
    <3>1. DEFINE w == [own |-> asked[tgt], blocks |-> sent]
    <3>2. w.own # Garbage /\ w.own <= w.blocks[1] /\ w.blocks[1] <= w.blocks[2]
      BY <1>4
    <3>3. spoilt' \subseteq spoilt \cup {w}
      BY <1>7
    <3> HIDE DEF w
    <3> QED BY <3>2, <3>3 DEF JInv, SentInv
  <2>3. sent[1] <= cancel
    BY <1>4
  <2> QED BY <1>1, <1>4, <2>1, <2>2, <2>3 DEF SentInv
<1>12. KeptInv'
  <2>1. printed \subseteq printed'
    BY <1>7
  <2>2. \A p \in Payments : Pending(p) => Kept(p)'
    BY <1>1, <1>2 DEF Kept, Pending, InBuffer
  <2> QED BY <1>1, <2>1, <2>2, KeptStays
<1> QED BY <1>2, <1>8, <1>9, <1>10, <1>11, <1>12 DEF JInv

\* Then the buffer is cleared: the last payment is on paper if it was its.
LEMMA EndKeeps ==
    ASSUME JInv, OpeWaits, UNCHANGED svars, EndPrint
    PROVE  JInv'
<1>1. /\ UNCHANGED <<slot, cancel, asked, count, staged, mbox, ret, tgt, sent,
                     printed, spoilt, dropped, behind, overtaken>>
      /\ pri = "written" /\ pri' = "wait"
      /\ eja' = NoReceipt /\ jnl' = IdleJnl 
      /\ served' = [j \in DOMAIN served |-> IF j = tgt THEN served[j] + 1 ELSE served[j]]
  BY DEF EndPrint
<1>2. /\ AskedInv' /\ TurnInv' /\ (Due' <=> Due) /\ paid' = paid
      /\ Holds' <=> Holds
      /\ StagedInv'
      /\ \A p : InQueue(p)' <=> InQueue(p)
      /\ Due => cancel = paid
  BY <1>1, PrinterLeaves, QueueStays
<1>3. Processing(tgt) /\ Unqueued(tgt) /\ ret # 1 /\ (ret = 99 => Holds /\ count = 1)
  BY <1>1 DEF JInv, BufferInv
<1>4. tgt \in Jobs /\ tgt \in JobIds /\ eja.msg = tgt
  BY <1>3, TypesNow DEF Processing, Loaded
<1>5. JournalTypeOK'
  <2>1. served \in Seq(Nat) /\ Len(served) = Len(asked)
    BY TypesNow
  <2>2. served' \in [1 .. Len(served) -> Nat]
    BY <1>1, <2>1
  <2>3. served' \in Seq(Nat) /\ Len(served') = Len(served)
    BY <2>1, <2>2
  <2> QED BY <1>1, <1>4, <2>1, <2>3, TypesNow, PrinterTypes
<1>6. QueueInv'
  BY <1>1, <1>2, <1>3, <1>4 DEF JInv, QueueInv, Jobs, Unqueued
<1>7. BufferInv'
  BY <1>1, <1>2, <1>3 DEF BufferInv, Copying, NoReceipt, IdleJnl
<1>8. SentInv'
  BY <1>1 DEF JInv, SentInv, IdleJnl
<1>9. KeptInv'
  <2>1. \A p : cancel = p /\ InBuffer(p) => p \in printed
    BY <1>1, <1>4 DEF InBuffer, JInv, SentInv
  <2>2. \A p \in Payments : Pending(p) => Kept(p)'
    BY <1>1, <1>2, <2>1 DEF Kept, Pending
  <2> QED BY <1>1, <2>2, KeptStays
<1> QED BY <1>2, <1>5, <1>6, <1>7, <1>8, <1>9 DEF JInv

-----------------------------------------------------------------------------
(***************************************************************************)
(* How often a request is printed                                          *)
(***************************************************************************)
\* How often job j may be printed, and that it may be printed once more.
May(j)   == IF j \in behind THEN 2 ELSE 1
Fresh(j) == j \in Jobs /\ served[j] < May(j)

Inbox == {mbox[i] : i \in DOMAIN mbox}

\* Places from which the operation task may still ask for a receipt at start-up.
Before == {"boot", "restore", "boot15", "data", "save", "mark", "add", "log", "copy",
           "stage", "store", "put"}

\* Job tgt is being processed.
Working == \/ pri \in {"mark", "edit", "written"} \cup Copying
           \/ pri = "wait" /\ jnl.printing
           \/ pri \in {"find", "delete"} /\ ret # 1

\* What start-up finds and what is in the mailbox may be printed; what is being
\* printed is in the mailbox as well only if start-up took it from the queue.
ServedInv ==
    /\ behind \subseteq Jobs
    /\ \A j \in Jobs : served[j] <= May(j)
    /\ Holds => served[slot] = 0
    /\ \A j \in Inbox : Fresh(j)
    /\ \A i, k \in DOMAIN mbox : mbox[i] = mbox[k] => i = k
    /\ Asking => Len(asked) \notin Inbox /\ served[Len(asked)] = 0
    /\ ret = 99 => Inbox \subseteq behind
    /\ pri = "off" => mbox = <<>> \/ (Len(mbox) = 1 /\ pc \notin Before)
    /\ ret = 1 \/ (pri \in {"read", "mark"} /\ ret = 0) => mbox = <<>>
    /\ pri = "off" /\ eja.printing => Fresh(eja.msg)
    /\ ret = 1 => Fresh(jnl.job)
    /\ Working => Fresh(tgt) /\ (tgt \in Inbox => served[tgt] = 0 /\ tgt \in behind)

\* The mailbox as a set.
LEMMA InboxAppend ==
    ASSUME NEW q \in Seq(JobIds), NEW j \in JobIds,
           \A i, k \in DOMAIN q : q[i] = q[k] => i = k,
           \A i \in DOMAIN q : q[i] # j
    PROVE  LET r == Append(q, j)
           IN  /\ {r[i] : i \in DOMAIN r} = {q[i] : i \in DOMAIN q} \cup {j}
               /\ \A i, k \in DOMAIN r : r[i] = r[k] => i = k
               /\ Len(r) = Len(q) + 1
<1> DEFINE r == Append(q, j)
<1>1. /\ r \in Seq(JobIds) /\ Len(r) = Len(q) + 1 /\ Len(q) \in Nat
      /\ DOMAIN r = 1 .. Len(q) + 1 /\ DOMAIN q = 1 .. Len(q)
      /\ \A i \in 1 .. Len(q) : r[i] = q[i]
      /\ r[Len(q) + 1] = j
  BY AppendProperties
<1> HIDE DEF r
<1>2. DOMAIN r = DOMAIN q \cup {Len(q) + 1} /\ Len(q) + 1 \notin DOMAIN q
  BY <1>1
<1>3. {r[i] : i \in DOMAIN r} = {q[i] : i \in DOMAIN q} \cup {j}
  <2>1. \A i \in DOMAIN q : r[i] = q[i]
    BY <1>1
  <2> QED BY <1>1, <1>2, <2>1
<1>4. \A i, k \in DOMAIN r : r[i] = r[k] => i = k
  <2>1. \A i \in DOMAIN q : r[i] = q[i]
    BY <1>1
  <2>2. r[Len(q) + 1] = j
    BY <1>1
  <2> QED BY <1>2, <2>1, <2>2
<1> QED BY <1>1, <1>3, <1>4 DEF r

LEMMA InboxTail ==
    ASSUME NEW q \in Seq(JobIds), q # <<>>,
           \A i, k \in DOMAIN q : q[i] = q[k] => i = k
    PROVE  LET r == Tail(q)
           IN  /\ {r[i] : i \in DOMAIN r} = {q[i] : i \in DOMAIN q} \ {Head(q)}
               /\ Head(q) \in {q[i] : i \in DOMAIN q}
               /\ \A i, k \in DOMAIN r : r[i] = r[k] => i = k
               /\ Len(r) = Len(q) - 1
<1> DEFINE r == Tail(q)
<1>1. /\ r \in Seq(JobIds) /\ Len(r) = Len(q) - 1 /\ Len(q) \in Nat /\ Len(q) # 0
      /\ DOMAIN r = 1 .. Len(q) - 1 /\ DOMAIN q = 1 .. Len(q)
      /\ \A i \in 1 .. Len(q) - 1 : r[i] = q[i + 1]
      /\ Head(q) = q[1]
  BY HeadTailProperties, EmptySeq
<1> HIDE DEF r
<1>2. {r[i] : i \in DOMAIN r} = {q[i] : i \in DOMAIN q} \ {Head(q)}
  <2>1. ASSUME NEW i \in DOMAIN r PROVE r[i] \in {q[k] : k \in DOMAIN q} \ {q[1]}
    <3>1. r[i] = q[i + 1] /\ i + 1 \in DOMAIN q /\ i + 1 # 1 /\ 1 \in DOMAIN q
      BY <1>1, <2>1
    <3> QED BY <3>1
  <2>2. ASSUME NEW k \in DOMAIN q, q[k] # q[1] PROVE q[k] \in {r[i] : i \in DOMAIN r}
    <3>1. k # 1
      BY <2>2
    <3>2. k - 1 \in DOMAIN r /\ r[k - 1] = q[k]
      BY <1>1, <2>2, <3>1
    <3> QED BY <3>2
  <2> QED BY <1>1, <2>1, <2>2
<1>3. \A i, k \in DOMAIN r : r[i] = r[k] => i = k
  <2> SUFFICES ASSUME NEW i \in DOMAIN r, NEW k \in DOMAIN r, r[i] = r[k] PROVE i = k
    OBVIOUS
  <2>1. q[i + 1] = q[k + 1] /\ i + 1 \in DOMAIN q /\ k + 1 \in DOMAIN q
    BY <1>1
  <2>2. i + 1 = k + 1
    BY <2>1
  <2> QED BY <1>1, <2>2
<1>4. Head(q) \in {q[i] : i \in DOMAIN q}
  BY <1>1
<1> QED BY <1>1, <1>2, <1>3, <1>4 DEF r

\* The steps that leave the journal alone, and those that complete a store.
LEMMA ServedPlain ==
    ASSUME JInv, PInv, ServedInv, PlainStep, PrinterWaits,
           pri = "off" /\ pc \notin Before => pc' \notin Before
    PROVE  ServedInv'
BY DEF PlainStep, jvars, kept, paper, history, task, ServedInv, Inbox, Fresh, May, Jobs, Holds,
       Asking, Working, Copying, Before

LEMMA ServedStart ==
    ASSUME JInv, PInv, ServedInv, StartsStore
    PROVE  ServedInv'
<1>1. /\ NmiStore /\ UNCHANGED <<task, paper>>
      /\ pc = "boot" /\ pc' \notin {"boot", "stage", "store", "put"}
  BY DEF StartsStore, Fukuden, FukudenPay, FukudenClose, FukudenNone, PInv, PhaseTypeOK, PhaseInv,
         phases, numbers, logs, sums
<1>2. (Holds <=> Holds') /\ UNCHANGED <<slot, cancel, eja, asked>>
  BY <1>1, StoreHoldsOn
<1>3. pri = "off"
  BY <1>1 DEF JInv, TurnInv
<1>4. mbox = <<>>
  BY <1>1, <1>3 DEF ServedInv, Before
<1> QED BY <1>1, <1>2, <1>3, <1>4 DEF paper, history, task, ServedInv, Inbox, Fresh, May, Jobs,
       Asking, Working, Copying

\* A request is made: its job is new.
LEMMA ServedAskReceipt ==
    ASSUME JInv, PInv, ServedInv, AskReceipt, PrinterWaits
    PROVE  ServedInv'
<1> DEFINE n == Len(asked)
<1>1. /\ asked \in Seq(Payments) /\ served \in Seq(Nat) /\ Len(served) = n /\ n \in Nat /\ Jobs = 1 .. n
      /\ paid \in Payments /\ mbox \in Seq(JobIds)
  BY DEF JInv, JournalTypeOK, PInv, PhaseTypeOK, PhaseInv, AskReceipt, Jobs
<1>2. /\ asked' = Append(asked, paid) /\ slot' = n + 1 /\ served' = Append(served, 0)
      /\ UNCHANGED <<count, staged, eja, mbox, pri, ret, tgt, jnl, behind>>
      /\ pc = "copy" /\ pc' = "stage" /\ pri \in {"off", "wait"}
  BY DEF AskReceipt, WriteQue, Requested, task, PrinterWaits
<1>3. /\ Len(asked') = n + 1 /\ Jobs' = 1 .. n + 1
      /\ \A j \in Jobs : served'[j] = served[j]
      /\ served'[n + 1] = 0
  BY <1>1, <1>2, AppendProperties DEF Jobs
<1>4. \A j \in Jobs : j \in Jobs' /\ j # n + 1
  BY <1>1, <1>3
<1>5. Jobs' = Jobs \cup {n + 1}
  BY <1>1, <1>3
<1>6. Inbox' = Inbox /\ Inbox \subseteq Jobs
  BY <1>2 DEF Inbox, ServedInv, Fresh
<1> HIDE DEF n
<1>7. /\ \A j : May(j)' = May(j)
      /\ \A j : May(j) \in 1..2
      /\ \A j : Fresh(j) => Fresh(j)'
  <2>1. behind' = behind
    BY <1>2
  <2>2. \A j : May(j)' = May(j)
    BY <2>1 DEF May
  <2>3. \A j : May(j) \in 1..2
    BY DEF May
  <2>4. ASSUME NEW j, Fresh(j) PROVE Fresh(j)'
    <3>1. j \in Jobs /\ served[j] < May(j)
      BY <2>4 DEF Fresh
    <3>2. j \in Jobs' /\ served'[j] < May(j)
      BY <1>3, <1>4, <3>1
    <3> QED BY <2>1, <3>2 DEF Fresh, May
  <2> QED BY <2>2, <2>3, <2>4
<1>8. \A j \in Jobs' : served'[j] <= May(j)'
  <2> SUFFICES ASSUME NEW j \in Jobs' PROVE served'[j] <= IF j \in behind THEN 2 ELSE 1
    BY <1>2 DEF May
  <2>1. CASE j \in Jobs
    <3>1. served[j] <= IF j \in behind THEN 2 ELSE 1
      BY <2>1 DEF ServedInv, May
    <3> QED BY <1>3, <2>1, <3>1
  <2>2. CASE j = n + 1
    BY <1>3, <2>2
  <2> QED BY <1>5, <2>1, <2>2
<1>9. pri = "off" => mbox = <<>>
  BY <1>2 DEF ServedInv, Before
<1>10. Working' <=> Working
  BY <1>2 DEF Working
<1>11. Working => /\ Fresh(tgt)' /\ tgt' = tgt
                  /\ tgt \in Inbox => served'[tgt] = 0 /\ tgt \in behind'
  <2> SUFFICES ASSUME Working PROVE /\ Fresh(tgt)' /\ tgt' = tgt
                                    /\ tgt \in Inbox => served'[tgt] = 0 /\ tgt \in behind'
    OBVIOUS
  <2>1. Fresh(tgt) /\ (tgt \in Inbox => served[tgt] = 0 /\ tgt \in behind)
    BY DEF ServedInv
  <2>2. tgt \in Jobs /\ served[tgt] < May(tgt)
    BY <2>1 DEF Fresh
  <2>3. served'[tgt] = served[tgt] /\ tgt \in Jobs' /\ tgt' = tgt /\ behind' = behind
    BY <1>2, <1>3, <1>4, <2>2
  <2>4. Fresh(tgt)'
    BY <2>2, <2>3 DEF Fresh, May
  <2> QED BY <2>1, <2>3, <2>4
<1>12. Len(asked') \notin Inbox' /\ served'[Len(asked')] = 0
  BY <1>3, <1>4, <1>6
<1>13. pri' = "off" /\ eja'.printing => Fresh(eja.msg)'
  <2> SUFFICES ASSUME pri' = "off", eja'.printing PROVE Fresh(eja.msg)'
    OBVIOUS
  <2>1. Fresh(eja.msg) /\ eja' = eja /\ behind' = behind
    BY <1>2 DEF ServedInv
  <2>2. eja.msg \in Jobs' /\ served'[eja.msg] = served[eja.msg]
    BY <1>3, <1>4, <2>1 DEF Fresh
  <2> QED BY <2>1, <2>2 DEF Fresh, May
<1>14. ret' = 1 => Fresh(jnl.job)'
  <2> SUFFICES ASSUME ret' = 1 PROVE Fresh(jnl.job)'
    OBVIOUS
  <2>1. Fresh(jnl.job) /\ jnl' = jnl /\ behind' = behind
    BY <1>2 DEF ServedInv
  <2>2. jnl.job \in Jobs' /\ served'[jnl.job] = served[jnl.job]
    BY <1>3, <1>4, <2>1 DEF Fresh
  <2> QED BY <2>1, <2>2 DEF Fresh, May
<1>16. \A j \in Inbox' : Fresh(j)'
  BY <1>6, <1>7 DEF ServedInv
<1>17. Holds' => served'[slot'] = 0
  BY <1>2, <1>3
<1>15. behind' \subseteq Jobs'
  BY <1>2, <1>5 DEF ServedInv
<1> QED BY <1>2, <1>6, <1>8, <1>9, <1>10, <1>11, <1>12, <1>13, <1>14, <1>15, <1>16, <1>17 DEF ServedInv

LEMMA ServedAskStores ==
    ASSUME JInv, PInv, ServedInv, AskStage \/ AskStore \/ AskPut, PrinterWaits
    PROVE  ServedInv'
<1>1. /\ UNCHANGED <<slot, cancel, eja, asked, pri, ret, tgt, jnl, served>>
      /\ Asking /\ pri \in {"off", "wait"} /\ pc' \in {"store", "put", "settled"}
  BY DEF AskStage, AskStore, AskPut, NmiMark, NmiStore, PutRequest, kept, task, paper, history,
         Asking, PrinterWaits
<1>2. /\ slot = Len(asked) /\ slot \in Jobs /\ slot \in JobIds /\ Jobs' = Jobs
      /\ pri = "wait" /\ jnl.printing => slot # tgt
      /\ mbox \in Seq(JobIds)
  BY <1>1 DEF JInv, AskedInv, JournalTypeOK, Jobs
<1>3. served[slot] = 0
  <2>1. Len(asked) = slot /\ pc \in Before
    BY <1>1, <1>2 DEF Asking, Before
  <2> QED BY <1>1, <2>1 DEF ServedInv
<1>4. ret # 1 /\ slot \notin Inbox /\ (pri = "off" => mbox = <<>>)
  BY <1>1, <1>2 DEF ServedInv, JInv, BufferInv, Asking, Before
<1>5. CASE ~AskPut
  <2>1. UNCHANGED <<mbox, behind>> /\ pc' \in {"store", "put"}
    BY <1>5 DEF AskStage, AskStore, NmiMark, NmiStore, kept, task, paper, history
  <2> QED BY <1>1, <1>2, <1>3, <1>4, <2>1 DEF ServedInv, Inbox, Fresh, May, Jobs, Asking, Before,
       Working, Copying
<1>6. CASE AskPut
  <2>1. /\ mbox' = Append(mbox, slot) /\ pc' = "settled"
        /\ behind' = IF ret = 99 THEN behind \cup {slot} ELSE behind
    BY <1>2, <1>6 DEF AskPut, PutRequest
  <2>2. /\ Inbox' = Inbox \cup {slot}
        /\ \A i, k \in DOMAIN mbox' : mbox'[i] = mbox'[k] => i = k
        /\ Len(mbox') = Len(mbox) + 1
    <3>1. \A i \in DOMAIN mbox : mbox[i] # slot
      BY <1>4 DEF Inbox
    <3>2. \A i, k \in DOMAIN mbox : mbox[i] = mbox[k] => i = k
      BY DEF ServedInv
    <3> QED BY <1>2, <2>1, <3>1, <3>2, InboxAppend DEF Inbox
  <2>3. \A j : Fresh(j) => Fresh(j)'
    BY <1>1, <1>2, <2>1 DEF Fresh, May, JInv, JournalTypeOK, Jobs
  <2>4. Fresh(slot)'
    BY <1>1, <1>2, <1>3 DEF Fresh, May
  <2>5. \A j \in Jobs : served[j] <= May(j)'
    BY <1>1, <1>2, <1>3, <2>1 DEF ServedInv, May
  <2>6. Working' <=> Working
    BY <1>1 DEF Working
  <2>7. Working => tgt # slot
    BY <1>1, <1>2 DEF Working, Copying
  <2>8. ret = 99 => Inbox' \subseteq behind'
    BY <2>1, <2>2 DEF ServedInv
  <2>9. pri = "off" => Len(mbox') = 1 /\ pc' \notin Before
    BY <1>4, <2>1, <2>2, EmptySeq DEF Before
  <2>10. behind' \subseteq Jobs'
    BY <1>2, <2>1 DEF ServedInv
  <2>11. Holds' => served'[slot'] = 0
    BY <1>1, <1>3
  <2>12. ~Asking'
    BY <2>1 DEF Asking
  <2> QED BY <1>1, <1>2, <1>4, <2>1, <2>2, <2>3, <2>4, <2>5, <2>6, <2>7, <2>8, <2>9, <2>10, <2>11, <2>12
       DEF ServedInv
<1> QED BY <1>5, <1>6

\* What a cut leaves in the buffer was being printed.
LEMMA ServedCut ==
    ASSUME JInv, PInv, ServedInv, Cut, "receipt" \notin CutIn
    PROVE  ServedInv'
<1>1. /\ UNCHANGED <<slot, count, staged, cancel, eja, asked, served, behind>>
      /\ pc' = "boot" /\ mbox' = <<>> /\ pri' = "off" /\ ret' = 0 /\ tgt' = NoJob /\ jnl' = IdleJnl
  BY DEF Cut, LosePower, kept, paper, history
<1>2. ~HalfCopied
  <2>1. "receipt" \in DOMAIN Window /\ Window["receipt"] = HalfCopied
    BY DEF Window
  <2> QED BY <2>1 DEF Cut
<1>3. eja.printing => Fresh(eja.msg)
  <2> SUFFICES ASSUME eja.printing PROVE Fresh(eja.msg)
    OBVIOUS
  <2>1. pri \in {"off", "wait", "read", "mark", "copy", "job", "msg", "find",
                 "delete", "resume", "edit", "written"}
    BY DEF JInv, JournalTypeOK
  <2>2. CASE pri = "off"
    BY <2>2 DEF ServedInv
  <2>3. CASE pri \in {"read", "mark"} \/ (pri = "wait" /\ ~jnl.printing)
    BY <2>3 DEF JInv, BufferInv
  <2>4. CASE pri \in {"copy", "job", "msg"}
    <3>1. Fresh(tgt)
      BY <2>4 DEF ServedInv, Working, Copying
    <3>2. eja.msg = tgt
      BY <1>2, <2>4 DEF JInv, BufferInv, HalfCopied, Loaded, NoReceipt
    <3> QED BY <3>1, <3>2
  <2>5. CASE ret = 1
    <3>1. Processing(jnl.job)
      BY <2>1, <2>3, <2>4, <2>5 DEF JInv, BufferInv, Copying
    <3> QED BY <2>5, <3>1 DEF ServedInv, Processing, Loaded
  <2>6. CASE ret # 1 /\ (\/ pri \in {"find", "delete", "resume", "edit", "written"}
                         \/ pri = "wait" /\ jnl.printing)
    <3>1. Processing(tgt) /\ pri # "resume"
      BY <2>6 DEF JInv, BufferInv
    <3> QED BY <2>6, <3>1 DEF ServedInv, Working, Processing, Loaded
  <2> QED BY <2>1, <2>2, <2>3, <2>4, <2>5, <2>6
<1>4. DOMAIN mbox' = {}
  BY <1>1, EmptySeq
<1>5. Inbox' = {}
  BY <1>4 DEF Inbox
<1>6. Holds' <=> Holds
  BY <1>1 DEF Holds
<1> QED BY <1>1, <1>3, <1>4, <1>5, <1>6 DEF ServedInv, Fresh, May, Jobs, Asking, Working, Copying, IdleJnl

\* What does not change with the steps of the printer task that print nothing
\* to its end.
LEMMA ServedSame ==
    ASSUME JInv, ServedInv, OpeWaits, UNCHANGED svars,
           UNCHANGED <<slot, asked, served, behind, mbox>>, Holds' => Holds
    PROVE  /\ Jobs' = Jobs /\ Inbox' = Inbox /\ ~Asking'
           /\ \A j : Fresh(j)' <=> Fresh(j)
           /\ \A j \in Jobs : served'[j] <= May(j)'
           /\ Holds' => served'[slot'] = 0
           /\ \A j \in Inbox' : Fresh(j)'
           /\ \A i, k \in DOMAIN mbox' : mbox'[i] = mbox'[k] => i = k
           /\ behind' \subseteq Jobs'
<1>1. ~Asking'
  BY DEF OpeWaits, svars, volatile, Asking
<1>2. Jobs' = Jobs /\ Inbox' = Inbox /\ (\A j : Fresh(j)' <=> Fresh(j)) /\ (\A j : May(j)' = May(j))
  BY DEF Jobs, Inbox, Fresh, May
<1> QED BY <1>1, <1>2 DEF ServedInv

LEMMA ServedReWrite ==
    ASSUME JInv, ServedInv, OpeWaits, UNCHANGED svars, ReWriteCheck \/ ReWriteQueued
    PROVE  ServedInv'
<1>1. /\ UNCHANGED <<slot, asked, count, staged, eja, served, behind, tgt>>
      /\ pri' \in {"find", "read", "wait"}
  BY DEF ReWriteCheck, ReWriteQueued, kept, paper, history
<1>2. (Holds' <=> Holds) /\ Jobs' = Jobs /\ (\A j : Fresh(j)' <=> Fresh(j)) /\ (\A j : May(j)' = May(j))
  BY <1>1 DEF Holds, Jobs, Fresh, May
<1>3. ~Asking'
  BY DEF OpeWaits, svars, volatile, Asking
<1>4. CASE ReWriteCheck
  <2>1. mbox' = <<>>
    <3>1. mbox = <<>> \/ Len(mbox) = 1
      BY <1>4 DEF ServedInv, ReWriteCheck
    <3>2. mbox \in Seq(JobIds) /\ (mbox # <<>> => Len(Tail(mbox)) = Len(mbox) - 1 /\ Tail(mbox) \in Seq(JobIds))
      BY HeadTailProperties DEF JInv, JournalTypeOK
    <3> QED BY <1>4, <3>1, <3>2, EmptySeq DEF ReWriteCheck, PrnMsgBoxClear
  <2>2. DOMAIN mbox' = {} /\ Inbox' = {}
    BY <2>1, EmptySeq DEF Inbox
  <2>3. ret' = 1 => Fresh(jnl'.job)
    <3>1. ret = 0
      BY <1>4 DEF JInv, BufferInv, ReWriteCheck
    <3>2. CASE eja.printing
      <4>1. PICK j \in Jobs : Loaded(j)
        BY <1>4, <3>2 DEF JInv, BufferInv, ReWriteCheck
      <4>2. eja.job = eja.msg /\ Fresh(eja.msg)
        BY <1>4, <3>2, <4>1 DEF ServedInv, ReWriteCheck, Loaded
      <4> QED BY <1>4, <3>2, <4>2 DEF ReWriteCheck
    <3>3. CASE ~eja.printing
      BY <1>4, <3>1, <3>3 DEF ReWriteCheck
    <3> QED BY <3>2, <3>3
  <2>4. ~Working'
    <3>1. ~jnl.printing /\ ret = 0
      BY <1>4 DEF JInv, BufferInv, ReWriteCheck
    <3> QED BY <1>4, <3>1 DEF ReWriteCheck, Working, Copying
  <2>5. pri' # "off"
    BY <1>1
  <2> QED BY <1>1, <1>2, <1>3, <2>1, <2>2, <2>3, <2>4, <2>5 DEF ServedInv
<1>5. CASE ReWriteQueued
  <2>1. pri' = "read" /\ ret' = 99 /\ ret = 99 /\ mbox' = mbox
    BY <1>5 DEF ReWriteQueued
  <2>2. Inbox' = Inbox /\ ~Working'
    BY <2>1 DEF Inbox, Working, Copying
  <2> QED BY <1>1, <1>2, <1>3, <2>1, <2>2 DEF ServedInv
<1> QED BY <1>4, <1>5

LEMMA ServedRead ==
    ASSUME JInv, ServedInv, OpeWaits, UNCHANGED svars, ReadQue \/ MarkRead
    PROVE  ServedInv'
<1>1. /\ UNCHANGED <<slot, asked, count, staged, mbox, served, behind>>
      /\ pri \in {"read", "mark"} /\ pri' \in {"mark", "copy"} /\ ret' # 1
      /\ ret' = 99 => ret = 99
      /\ pri' = "mark" => ret' = ret
  BY DEF ReadQue, MarkRead, paper, history, JInv, BufferInv
<1>2. Holds' <=> Holds
  BY <1>1 DEF Holds
<1>3. tgt' = slot /\ Holds /\ slot \in Jobs /\ ret \in {0, 99}
  BY <1>1 DEF JInv, BufferInv, QueueInv, ReadQue, MarkRead
<1>4. served[slot] = 0 /\ Fresh(slot)
  BY <1>3 DEF ServedInv, Fresh, May
<1>5. slot \in Inbox => slot \in behind
  <2>1. CASE ret = 0
    <3>1. DOMAIN mbox = {}
      BY <1>1, <2>1, EmptySeq DEF ServedInv
    <3> QED BY <3>1 DEF Inbox
  <2>2. CASE ret = 99
    BY <2>2 DEF ServedInv
  <2> QED BY <1>3, <2>1, <2>2
<1>6. /\ Jobs' = Jobs /\ Inbox' = Inbox /\ ~Asking'
      /\ \A j : Fresh(j)' <=> Fresh(j)
      /\ \A j \in Jobs : served'[j] <= May(j)'
      /\ Holds' => served'[slot'] = 0
      /\ \A j \in Inbox' : Fresh(j)'
      /\ \A i, k \in DOMAIN mbox' : mbox'[i] = mbox'[k] => i = k
      /\ behind' \subseteq Jobs'
  BY <1>1, <1>2, ServedSame
<1>7. ret' = 99 => Inbox' \subseteq behind'
  BY <1>1, <1>6 DEF ServedInv
<1>8. pri' = "mark" /\ ret' = 0 => mbox' = <<>>
  BY <1>1 DEF ServedInv
<1> QED BY <1>1, <1>3, <1>4, <1>5, <1>6, <1>7, <1>8 DEF ServedInv

LEMMA ServedTake ==
    ASSUME JInv, ServedInv, OpeWaits, UNCHANGED svars, TakeRequest \/ RefuseRequest
    PROVE  ServedInv'
<1>1. /\ UNCHANGED <<slot, asked, count, staged, served, behind>>
      /\ pri = "wait" /\ pri' \in {"wait", "copy"} /\ mbox # <<>>
      /\ mbox' = Tail(mbox) /\ ret' = 0
      /\ pri' = "copy" => tgt' = Head(mbox)
      /\ pri' = "wait" => ~jnl'.printing
  BY DEF TakeRequest, RefuseRequest, CanTake, paper, history, IdleJnl
<1>2. /\ Inbox' = Inbox \ {Head(mbox)} /\ Head(mbox) \in Inbox
      /\ \A i, k \in DOMAIN mbox' : mbox'[i] = mbox'[k] => i = k
  <2>1. mbox \in Seq(JobIds) /\ mbox # <<>>
    BY <1>1 DEF JInv, JournalTypeOK
  <2>2. \A i, k \in DOMAIN mbox : mbox[i] = mbox[k] => i = k
    BY DEF ServedInv
  <2> HIDE DEF ServedInv
  <2>3. LET r == Tail(mbox)
        IN  /\ {r[i] : i \in DOMAIN r} = {mbox[i] : i \in DOMAIN mbox} \ {Head(mbox)}
            /\ Head(mbox) \in {mbox[i] : i \in DOMAIN mbox}
            /\ \A i, k \in DOMAIN r : r[i] = r[k] => i = k
    BY <2>1, <2>2, InboxTail
  <2> QED BY <1>1, <2>3 DEF Inbox
<1>3. /\ Jobs' = Jobs /\ (\A j : Fresh(j)' <=> Fresh(j)) /\ (\A j : May(j)' = May(j)) /\ (Holds' <=> Holds)
  BY <1>1 DEF Jobs, Fresh, May, Holds
<1>4. ~Asking'
  BY DEF OpeWaits, svars, volatile, Asking
<1>5. Working' => tgt' = Head(mbox)
  BY <1>1 DEF Working, Copying
<1> QED BY <1>1, <1>2, <1>3, <1>4, <1>5 DEF ServedInv

LEMMA ServedCopy ==
    ASSUME JInv, ServedInv, OpeWaits, UNCHANGED svars, CopyProc \/ CopyJob \/ CopyMsg
    PROVE  ServedInv'
<1>1. /\ UNCHANGED <<slot, asked, count, staged, mbox, ret, tgt, served, behind>>
      /\ pri \in Copying /\ pri' \in {"job", "msg", "find"}
  BY DEF CopyProc, CopyJob, CopyMsg, Copying, paper, history
<1>2. Working /\ ret # 1
  BY <1>1 DEF Working, JInv, BufferInv
<1>3. Holds' <=> Holds
  BY <1>1 DEF Holds
<1> QED BY <1>1, <1>2, <1>3, ServedSame DEF ServedInv

LEMMA ServedDel ==
    ASSUME JInv, ServedInv, OpeWaits, UNCHANGED svars, DelQue \/ DelStore \/ Resume
    PROVE  ServedInv'
<1>1. /\ UNCHANGED <<slot, asked, mbox, jnl, served, behind>>
      /\ pri \in {"find", "delete", "resume"} /\ pri' \in {"delete", "resume", "edit", "copy"}
      /\ pri # "resume" => UNCHANGED <<ret, tgt>> /\ pri' # "copy"
      /\ pri = "resume" => tgt' = eja.msg /\ ret' \in {98, 99} /\ pri' = "copy"
      /\ pri' = "resume" => ret = 1
      /\ pri' = "edit" => ret # 1
  BY DEF DelQue, DelStore, Resume, NmiMark, NmiStore, AfterFind, kept, paper, history
<1>2. Holds' => Holds
  <2>1. CASE DelQue
    <3>1. staged = <<>>
      BY <2>1, PrinterLeaves DEF DelQue, JInv, QueueInv, StagedInv, JournalTypeOK, OpeWaits
    <3>2. CASE Queued
      <4>1. count \in 0..1 /\ count > 0 /\ staged' = <<count - 1>>
        BY <2>1, <3>2, TypesNow DEF DelQue, NmiMark, Queued
      <4>2. count - 1 = 0
        BY <4>1
      <4>3. staged' = << 0 >>
        BY <4>1, <4>2
      <4>4. ~Holds'
        BY <4>3 DEF Holds
      <4> QED BY <4>4
    <3>3. CASE ~Queued
      BY <2>1, <3>3 DEF DelQue, kept, Holds
    <3> QED BY <3>2, <3>3
  <2>2. CASE DelStore
    <3>1. staged = << 0 >>
      BY <2>2 DEF DelStore, JInv, QueueInv, StagedInv
    <3>2. staged # <<>> /\ staged[1] = 0
      BY <3>1
    <3>3. staged' = <<>> /\ count' = 0
      BY <2>2, <3>2 DEF DelStore, NmiStore
    <3> QED BY <3>3 DEF Holds
  <2>3. CASE Resume
    BY <2>3 DEF Resume, kept, Holds
  <2> QED BY <2>1, <2>2, <2>3
<1>3. /\ Jobs' = Jobs /\ Inbox' = Inbox /\ ~Asking'
      /\ \A j : Fresh(j)' <=> Fresh(j)
      /\ \A j \in Jobs : served'[j] <= May(j)'
      /\ Holds' => served'[slot'] = 0
      /\ \A j \in Inbox' : Fresh(j)'
      /\ \A i, k \in DOMAIN mbox' : mbox'[i] = mbox'[k] => i = k
      /\ behind' \subseteq Jobs'
  BY <1>1, <1>2, ServedSame
<1>4. CASE pri # "resume"
  <2>1. Working' => Working /\ tgt' = tgt
    BY <1>1, <1>4 DEF Working, Copying
  <2> QED BY <1>1, <1>3, <1>4, <2>1 DEF ServedInv
<1>5. CASE pri = "resume"
  <2>1. ret = 1 /\ Processing(jnl.job)
    BY <1>5 DEF JInv, BufferInv
  <2>2. tgt' = jnl.job /\ Fresh(tgt') /\ mbox = <<>>
    BY <1>1, <1>5, <2>1 DEF ServedInv, Processing, Loaded
  <2>3. Inbox' = {} /\ mbox' = <<>>
    <3>1. DOMAIN mbox = {}
      BY <2>2, EmptySeq
    <3> QED BY <1>1, <2>2, <3>1 DEF Inbox
  <2> QED BY <1>1, <1>3, <1>5, <2>2, <2>3 DEF ServedInv
<1> QED BY <1>4, <1>5

LEMMA ServedEdit ==
    ASSUME JInv, ServedInv, OpeWaits, UNCHANGED svars, EditFirst \/ EditLast \/ Written
    PROVE  ServedInv'
<1>1. /\ UNCHANGED <<slot, asked, count, staged, mbox, ret, tgt, served, behind>>
      /\ pri = "edit" \/ (pri = "wait" /\ jnl.printing)
  BY DEF EditFirst, EditLast, Written, kept, paper, history
<1>2. Working /\ ret # 1 /\ pri' \in {"wait", "written"}
  BY <1>1 DEF Working, JInv, BufferInv, EditFirst, EditLast, Written
<1>3. Holds' <=> Holds
  BY <1>1 DEF Holds
<1> QED BY <1>1, <1>2, <1>3, ServedSame DEF ServedInv

\* The receipt is done: its entry had gone before, and its message is still to
\* come only if start-up took it from the queue.
LEMMA ServedEnd ==
    ASSUME JInv, ServedInv, OpeWaits, UNCHANGED svars, EndPrint
    PROVE  ServedInv'
<1>1. /\ UNCHANGED <<slot, asked, count, staged, mbox, ret, tgt, behind>>
      /\ pri = "written" /\ pri' = "wait" /\ jnl' = IdleJnl
      /\ served' = [j \in DOMAIN served |-> IF j = tgt THEN served[j] + 1 ELSE served[j]]
  BY DEF EndPrint
<1>2. served \in [Jobs -> Nat] /\ DOMAIN served = Jobs
  <2>1. served \in Seq(Nat) /\ Len(served) = Len(asked) /\ asked \in Seq(Payments)
    BY DEF JInv, JournalTypeOK
  <2> QED BY <2>1 DEF Jobs
<1>3. Fresh(tgt) /\ (tgt \in Inbox => served[tgt] = 0 /\ tgt \in behind) /\ Unqueued(tgt) /\ ret # 1
  BY <1>1 DEF ServedInv, Working, JInv, BufferInv
<1>4. tgt \in Jobs /\ served[tgt] \in Nat /\ served[tgt] < May(tgt)
  BY <1>2, <1>3 DEF Fresh
<1>5. /\ \A j \in Jobs : j # tgt => served'[j] = served[j]
      /\ served'[tgt] = served[tgt] + 1
  BY <1>1, <1>2, <1>4
<1>6. Jobs' = Jobs /\ Inbox' = Inbox /\ (\A j : May(j)' = May(j)) /\ (Holds' <=> Holds)
  BY <1>1 DEF Jobs, Inbox, May, Holds
<1>7. ~Asking' /\ ~Working'
  BY <1>1 DEF OpeWaits, svars, volatile, Asking, Working, Copying, IdleJnl
<1>8. \A j \in Jobs : served'[j] <= May(j)
  <2> SUFFICES ASSUME NEW j \in Jobs PROVE served'[j] <= May(j)
    OBVIOUS
  <2>1. CASE j = tgt
    BY <1>4, <1>5, <2>1 DEF May
  <2>2. CASE j # tgt
    BY <1>5, <2>2 DEF ServedInv
  <2> QED BY <2>1, <2>2
<1>9. \A j \in Inbox : j \in Jobs /\ served'[j] < May(j)
  <2> SUFFICES ASSUME NEW j \in Inbox PROVE j \in Jobs /\ served'[j] < May(j)
    OBVIOUS
  <2>1. j \in Jobs /\ served[j] < May(j)
    BY DEF ServedInv, Fresh
  <2>2. CASE j = tgt
    <3>1. served'[j] = 1 /\ May(j) = 2
      BY <1>3, <1>5, <2>2 DEF May
    <3> QED BY <2>1, <3>1
  <2>3. CASE j # tgt
    BY <1>5, <2>1, <2>3
  <2> QED BY <2>2, <2>3
<1>10. Holds => served'[slot] = 0
  BY <1>3, <1>5 DEF ServedInv, Unqueued, JInv, QueueInv
<1> QED BY <1>1, <1>3, <1>6, <1>7, <1>8, <1>9, <1>10 DEF ServedInv, Fresh

-----------------------------------------------------------------------------
(***************************************************************************)
(* Every behaviour                                                         *)
(***************************************************************************)
\* A machine that has never been used.
LEMMA JInit == Init => JInv /\ ServedInv
<1> SUFFICES ASSUME Init PROVE JInv /\ ServedInv
  OBVIOUS
<1> USE DEF Init, JournalInit
<1>1. asked = <<>> /\ Jobs = {} /\ ~Holds
  BY DEF Jobs, Holds
<1>2. JournalTypeOK
  BY EmptySeq DEF JournalTypeOK, JobIds, NoJob, Garbage, NoReceipt, IdleJnl
<1>3. AskedInv
  BY <1>1 DEF AskedInv, Asking, Garbage
<1>4. QueueInv /\ TurnInv
  BY <1>1 DEF QueueInv, StagedInv, TurnInv, PrinterWaits
<1>5. BufferInv
  BY <1>1 DEF BufferInv, NoReceipt, IdleJnl, Copying
<1>6. SentInv /\ KeptInv
  BY DEF SentInv, KeptInv, Due, Payments
<1>7. ServedInv
  BY <1>1 DEF ServedInv, Inbox, Asking, Working, Copying, NoReceipt, IdleJnl
<1> QED BY <1>2, <1>3, <1>4, <1>5, <1>6, <1>7 DEF JInv

LEMMA JUnchanged == ASSUME JInv, ServedInv, UNCHANGED vars PROVE JInv' /\ ServedInv'
BY DEF vars, jvars, kept, paper, history, task, svars, phases, volatile, JInv, JournalTypeOK, AskedInv, Asking, Jobs,
       QueueInv, StagedInv, Holds, TurnInv, PrinterWaits, OpeWaits, BufferInv, Loaded, Processing,
       Unqueued, Copying, SentInv, KeptInv, Kept, Pending, Due, InQueue, InBuffer, ServedInv, Inbox,
       Fresh, May, Working

\* A step of the operation task goes back to where it may ask for a receipt only
\* when the printer task has been started, or when the power is cut.
LEMMA PlainGoesOn ==
    ASSUME PInv, PlainStep, PayStep \/ CloseStep \/ Restarts, pri = "off", pc \notin Before
    PROVE  pc' \notin Before
<1> USE DEF PInv, PhaseTypeOK, PhaseInv, Going, Before
<1>1. CASE PayStep
  BY <1>1 DEF PayStep, PayoutComplete, PayDataSet, SaveTotals, MarkSaved, AddTo, MarkAdded, LogPayment,
              AskReceipt, AskStage, AskStore, AskPut, MarkLogged, CountUp, CountReturn, MarkCounted, LogMoney
<1>2. CASE CloseStep
  BY <1>2 DEF CloseStep, PrintReport, ReportPrinted, CloseSave, CloseAdd, CloseMarkAdded, CloseLog,
              CloseLogged, CloseSaveT, CloseTake, CloseMarkTaken, TCountUp, TCountReturn, volatile
<1>3. CASE Restarts
  BY <1>3 DEF Restarts, Fukuden, FukudenRestore, FukudenClose, FukudenRelog, FukudenResave,
              FukudenRetake, FukudenNone
<1> QED BY <1>1, <1>2, <1>3

\* Every step keeps the invariants.
LEMMA JNext ==
    ASSUME JInv, ServedInv, PInv, "receipt" \notin CutIn, [Next]_vars
    PROVE  JInv' /\ ServedInv'
<1>1. CASE PrinterWaits /\ PayStep
  <2>1. CASE AskStep
    BY <1>1, <2>1, AskReceiptKeeps, AskStoresKeep, ServedAskReceipt, ServedAskStores DEF AskStep
  <2>2. CASE ~AskStep
    BY <1>1, <2>2, PayPlain, PlainKeeps, PlainGoesOn, ServedPlain
  <2> QED BY <2>1, <2>2
<1>2. CASE PrinterWaits /\ CloseStep
  BY <1>2, ClosePlain, PlainKeeps, PlainGoesOn, ServedPlain
<1>3. CASE PrinterWaits /\ Restarts
  <2>1. CASE StartsStore
    BY <2>1, StartStores, ServedStart
  <2>2. CASE ~StartsStore /\ ~Cut
    <3>1. PlainStep
      BY <1>3, <2>2, StartPlain DEF Restarts, StartStep
    <3> QED BY <1>3, <3>1, PlainKeeps, PlainGoesOn, ServedPlain
  <2>3. CASE Cut
    BY <2>3, CutKeeps, ServedCut
  <2> QED BY <2>1, <2>2, <2>3
<1>4. CASE Cut
  BY <1>4, CutKeeps, ServedCut
<1>5. CASE PrinterRuns
  <2>1. OpeWaits /\ UNCHANGED svars
    BY <1>5 DEF PrinterRuns
  <2>2. JInv'
    BY <1>5, <2>1, ReWriteKeeps, ReadKeeps, TakeKeeps, CopyKeeps, DelKeeps, EditKeeps,
       WrittenKeeps, EndKeeps DEF PrinterRuns, PrinterGoesOn, PrinterPass
  <2>3. ServedInv'
    BY <1>5, <2>1, ServedReWrite, ServedRead, ServedTake, ServedCopy, ServedDel, ServedEdit,
       ServedEnd DEF PrinterRuns, PrinterGoesOn, PrinterPass
  <2> QED BY <2>2, <2>3
<1>6. CASE UNCHANGED vars
  BY <1>6, JUnchanged
<1> QED BY <1>1, <1>2, <1>3, <1>4, <1>5, <1>6
    DEF Next, OpeGoesOn, Customer, Settles, Closes, PayStep, CloseStep

LEMMA JInvariant == ASSUME "receipt" \notin CutIn PROVE Spec => [](PInv /\ JInv /\ ServedInv)
<1>1. Init => PInv /\ JInv /\ ServedInv
  BY InitInv, JInit DEF IInv
<1>2. PInv /\ JInv /\ ServedInv /\ [Next]_vars => (PInv /\ JInv /\ ServedInv)'
  BY NextPInv, JNext
<1> QED BY <1>1, <1>2, PTL DEF Spec

\* The whole state is of its type, what is kept across a power cut and what is
\* not, if no cut comes in one of the four windows: in particular a request that
\* the printer takes or refuses is one of a payment, and the count that start-up
\* completes is a count.
THEOREM TypeCorrect == ASSUME Shut, "receipt" \notin CutIn PROVE Spec => []TypeOK
<1>1. IInv /\ JInv => TypeOK
  BY DEF IInv, PInv, JInv, TypeOK, SettleTypeOK
<1> QED BY <1>1, Invariant, JInvariant, PTL

\* Whatever is cut (half way through the copy to the buffer apart), refused or
\* asked for while something is printed, and for every payment, not only the
\* last: its receipt is printed by its own request, given up to a printer error,
\* found by the next start-up, or was overtaken by a payment settled while it was
\* kept; a request is printed to its end once, or twice if it was asked for while
\* start-up still had to print the queue; and a receipt that shows other payments
\* than its own shows later ones (queset, PrnDat_WriteQue, PrnDat_DelQue,
\* PrnCmd_ReWriteCheck, PrnINJI_END).
THEOREM ReceiptsHold == ASSUME "receipt" \notin CutIn PROVE Spec => []ReceiptsAccounted
<1>1. PInv /\ JInv /\ ServedInv => ReceiptsAccounted
  <2> SUFFICES ASSUME PInv, JInv, ServedInv PROVE ReceiptsAccounted
    OBVIOUS
  <2>1. Accounted
    <3> SUFFICES ASSUME NEW p \in Payments, p < paid \/ (p = paid /\ cycl \in {0, 17, 19})
                 PROVE  Kept(p)
      BY DEF Accounted, Kept
    <3>1. p # 0
      BY DEF Payments
    <3> QED BY <3>1 DEF JInv, KeptInv, Due
  <2>2. ServedOnce
    <3>1. DOMAIN served = Jobs
      BY DEF JInv, JournalTypeOK, Jobs
    <3> QED BY <3>1 DEF ServedOnce, ServedInv, May
  <2>3. NoGarbage
    BY DEF NoGarbage, JInv, BufferInv, SentInv
  <2> QED BY <2>1, <2>2, <2>3 DEF ReceiptsAccounted
<1> QED BY <1>1, JInvariant, PTL

=============================================================================
