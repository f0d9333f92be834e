----------------------------- MODULE Settlement -----------------------------
(***************************************************************************)
(* The settlement of a payment by the operation task, and what start-up    *)
(* does about one that a power cut ended: kan_syuu and syuukei_clr(0) of   *)
(* src/Source/ope/syuukei.c, Log_regist(LOG_PAYMENT) of ope/logctrl.c,     *)
(* CountGet and CountUp of ope/oiban.c, and fukuden of ope/fukuden.c.      *)
(*                                                                         *)
(* A payment is added to the T totals, the totals of its place and the     *)
(* totals of the day, logged, asked for on the journal, and the payment    *)
(* number goes up.  A T close adds the T totals that were printed to the   *)
(* GT totals and takes them off the T totals.  The phase of each           *)
(* (ac_flg.cycl_fg, ac_flg.syusyu) is kept in battery-backed memory and    *)
(* fukuden goes on from it, with the work copy `work` of the totals.       *)
(*                                                                         *)
(* A total is the number of payments in it.  The acceptance of a log       *)
(* record is one step: LogStore shows that a record accepted before a      *)
(* power cut is written after it, with the phase it stands for.            *)
(*                                                                         *)
(* Four windows in which a power cut does harm are named; CutIn says which *)
(* of them a cut may use.                                                  *)
(***************************************************************************)
EXTENDS JournalPrint

CONSTANTS
    MaxCuts,        \* power cuts in a behaviour
    MaxCloses,      \* T closes in a behaviour
    CutIn           \* windows of `Window` that a power cut may use

ASSUME BoundsAssumption == MaxCuts \in Nat /\ MaxCloses \in Nat

Areas == {"t", "place", "day"}      \* sky.tsyuk, loktl.tloktl, daily totals

VARIABLES
    \* battery-backed
    cycl,           \* ac_flg.cycl_fg: 0, 13..17 or 19
    syu,            \* ac_flg.syusyu: 0 or 11..18
    total,          \* the totals, one for each area
    work,           \* wksky, wkloktotal and the copy of the daily totals
    gt,             \* sky.gsyuk
    skyprn,         \* the T totals of the T report being printed or closed
    paid,           \* PayData: the payment being settled, or the last one
    number,         \* the next payment number
    lent,           \* oiban_work of the payment number, 0 when not lent
    tnumber, tlent, \* the same of the T total
    paylog,         \* numbers of the payments logged, in order
    tlog,           \* numbers of the T totals logged
    \* lost in a power cut
    pc,             \* where the operation task is
    added,          \* areas kan_syuu has added the payment to
    report,         \* a T report is being printed
    \* how often
    cuts, closes

phases == <<cycl, syu>>
sums == <<total, work, gt, skyprn>>
numbers == <<number, lent, tnumber, tlent>>
logs == <<paylog, tlog>>
volatile == <<pc, added, report>>
svars == <<phases, sums, paid, numbers, logs, volatile, cuts, closes>>
vars == <<jvars, svars>>

PhaseTypeOK ==
    /\ cycl \in {0, 13, 14, 15, 16, 17, 19}
    /\ syu \in {0} \cup 11..18
    /\ paid \in Payments \cup {0}
    /\ number \in Nat /\ lent \in Nat /\ tnumber \in Nat /\ tlent \in Nat
    /\ paylog \in Seq(Nat) /\ tlog \in Seq(Nat)
    /\ pc \in {"idle", "data", "save", "mark", "add", "log", "copy", "stage",
               "store", "put", "settled", "count", "return", "counted", "money",
               "close", "summed", "taken", "tcount", "treturn",
               "boot", "restore", "boot15", "reclose", "retake",
               "resub"}
    /\ report \in BOOLEAN
    /\ cuts \in 0..MaxCuts /\ closes \in 0..MaxCloses

TotalsTypeOK ==
    /\ total \in [Areas -> Nat] /\ work \in [Areas -> Nat]
    /\ gt \in Nat /\ skyprn \in Nat
    /\ added \subseteq Areas

SettleTypeOK == PhaseTypeOK /\ TotalsTypeOK

TypeOK == JournalTypeOK /\ SettleTypeOK

Zero == [a \in Areas |-> 0]

Init ==
    /\ JournalInit
    /\ cycl = 0 /\ syu = 0
    /\ total = Zero /\ work = Zero /\ gt = 0 /\ skyprn = 0
    /\ paid = 0
    /\ number = 1 /\ lent = 0 /\ tnumber = 1 /\ tlent = 0
    /\ paylog = <<>> /\ tlog = <<>>
    /\ pc = "boot" /\ added = {} /\ report = FALSE
    /\ cuts = 0 /\ closes = 0

-----------------------------------------------------------------------------
(* A payment is settled.                                                   *)

\* The change has been paid out: payout complete (13).  A payment does not
\* begin while a T report has a number (CountCheck).
PayoutComplete ==
    /\ pc = "idle" /\ pri # "off" /\ ~report
    /\ paid + 1 \in Payments
    /\ paid' = paid + 1
    /\ cycl' = 13
    /\ pc' = "data"
    /\ UNCHANGED <<jvars, syu, sums, numbers, logs, added, report, cuts, closes>>

\* CountGet: a number already lent is used again.
CountGet == IF lent = 0 THEN number ELSE lent

\* PayData_set, at first and again after a power cut before the log.
PayDataSet ==
    /\ pc \in {"data", "boot15"}
    /\ lent' = CountGet
    /\ pc' = IF pc = "data" THEN "save" ELSE "log"
    /\ UNCHANGED <<jvars, phases, sums, paid, number, tnumber, tlent, logs,
                   added, report, cuts, closes>>

\* kan_syuu: the work copies, and DailyAggregateDataBKorRES(0) ...
SaveTotals ==
    /\ pc = "save"
    /\ work' = total
    /\ added' = {}
    /\ pc' = "mark"
    /\ UNCHANGED <<jvars, phases, total, gt, skyprn, paid, numbers, logs,
                   report, cuts, closes>>

\* ... the phase that says they are complete (14) ...
MarkSaved ==
    /\ pc = "mark"
    /\ cycl' = 14
    /\ pc' = "add"
    /\ UNCHANGED <<jvars, syu, sums, paid, numbers, logs, added, report, cuts, closes>>

\* ... the additions ...
AddTo(a) ==
    /\ pc = "add" /\ a \notin added
    /\ total' = [total EXCEPT ![a] = @ + 1]
    /\ added' = added \cup {a}
    /\ UNCHANGED <<jvars, phases, work, gt, skyprn, paid, numbers, logs, pc,
                   report, cuts, closes>>

\* ... and the phase that says they are done (15).
MarkAdded ==
    /\ pc = "add" /\ added = Areas
    /\ cycl' = 15
    /\ pc' = "log"
    /\ UNCHANGED <<jvars, syu, sums, paid, numbers, logs, added, report, cuts, closes>>

\* Log_Write accepts the payment record and sets 16.
LogPayment ==
    /\ pc = "log"
    /\ paylog' = Append(paylog, lent)
    /\ cycl' = 16
    /\ pc' = "copy"
    /\ UNCHANGED <<jvars, syu, sums, paid, numbers, tlog, added, report, cuts, closes>>

\* Cancel_pri_work and queset: entry, counters, message.
AskReceipt ==
    /\ pc = "copy"
    /\ WriteQue(paid)
    /\ pc' = "stage"
    /\ UNCHANGED <<phases, sums, paid, numbers, logs, added, report, cuts, closes>>

AskStage ==
    /\ pc = "stage"
    /\ NmiMark(1)
    /\ pc' = "store"
    /\ UNCHANGED <<task, paper, phases, sums, paid, numbers, logs, added, report, cuts, closes>>

AskStore ==
    /\ pc = "store"
    /\ NmiStore
    /\ pc' = "put"
    /\ UNCHANGED <<task, paper, phases, sums, paid, numbers, logs, added, report, cuts, closes>>

AskPut ==
    /\ pc = "put"
    /\ PutRequest
    /\ pc' = "settled"
    /\ UNCHANGED <<phases, sums, paid, numbers, logs, added, report, cuts, closes>>

\* Registered (19).
MarkLogged ==
    /\ pc = "settled"
    /\ cycl' = 19
    /\ pc' = "count"
    /\ UNCHANGED <<jvars, syu, sums, paid, numbers, logs, added, report, cuts, closes>>

\* CountUp: the number after the lent one, then the loan ends.
CountUp ==
    /\ pc = "count"
    /\ number' = IF lent # 0 THEN lent + 1 ELSE number
    /\ pc' = "return"
    /\ UNCHANGED <<jvars, phases, sums, paid, lent, tnumber, tlent, logs,
                   added, report, cuts, closes>>

CountReturn ==
    /\ pc = "return"
    /\ lent' = 0
    /\ pc' = "counted"
    /\ UNCHANGED <<jvars, phases, sums, paid, number, tnumber, tlent, logs,
                   added, report, cuts, closes>>

\* Counted (17).
MarkCounted ==
    /\ pc = "counted"
    /\ cycl' = 17
    /\ pc' = "money"
    /\ UNCHANGED <<jvars, syu, sums, paid, numbers, logs, added, report, cuts, closes>>

\* The money management log ends the cycle.
LogMoney ==
    /\ pc = "money"
    /\ cycl' = 0
    /\ pc' = "idle"
    /\ UNCHANGED <<jvars, syu, sums, paid, numbers, logs, added, report, cuts, closes>>
-----------------------------------------------------------------------------
(* A T close.                                                              *)

\* syuukei_prn fixes what the report prints; the T total number is lent.
PrintReport ==
    /\ pc = "idle" /\ pri # "off" /\ ~report /\ closes < MaxCloses
    /\ skyprn' = total["t"]
    /\ tlent' = tnumber
    /\ report' = TRUE
    /\ UNCHANGED <<jvars, phases, total, work, gt, paid, number, lent, tnumber,
                   logs, pc, added, cuts, closes>>

\* The report has been printed (11): the close begins (12).
ReportPrinted ==
    /\ pc = "idle" /\ report
    /\ report' = FALSE
    /\ syu' = 12
    /\ pc' = "close"
    /\ closes' = closes + 1
    /\ UNCHANGED <<jvars, cycl, sums, paid, numbers, logs, added, cuts>>

CloseSave ==
    /\ pc = "close" /\ syu = 12
    /\ work' = [work EXCEPT !["t"] = gt]
    /\ syu' = 13
    /\ UNCHANGED <<jvars, cycl, total, gt, skyprn, paid, numbers, logs, volatile,
                   cuts, closes>>

CloseAdd ==
    /\ pc = "close" /\ syu = 13
    /\ gt' = gt + skyprn
    /\ pc' = "summed"
    /\ UNCHANGED <<jvars, phases, total, work, skyprn, paid, numbers, logs,
                   added, report, cuts, closes>>

CloseMarkAdded ==
    /\ pc = "summed"
    /\ syu' = 14
    /\ pc' = "close"
    /\ UNCHANGED <<jvars, cycl, sums, paid, numbers, logs, added, report, cuts, closes>>

\* Log_Write accepts the T total and sets 15.
CloseLog ==
    /\ pc = "close" /\ syu = 14
    /\ tlog' = Append(tlog, tlent)
    /\ syu' = 15
    /\ UNCHANGED <<jvars, cycl, sums, paid, numbers, paylog, volatile, cuts, closes>>

CloseLogged ==
    /\ pc = "close" /\ syu = 15
    /\ syu' = 16
    /\ UNCHANGED <<jvars, cycl, sums, paid, numbers, logs, volatile, cuts, closes>>

CloseSaveT ==
    /\ pc = "close" /\ syu = 16
    /\ work' = [work EXCEPT !["t"] = total["t"]]
    /\ syu' = 17
    /\ UNCHANGED <<jvars, cycl, total, gt, skyprn, paid, numbers, logs, volatile,
                   cuts, closes>>

CloseTake ==
    /\ pc = "close" /\ syu = 17
    /\ total' = [total EXCEPT !["t"] = @ - skyprn, !["place"] = 0]
    /\ pc' = "taken"
    /\ UNCHANGED <<jvars, phases, work, gt, skyprn, paid, numbers, logs,
                   added, report, cuts, closes>>

\* Seeded fault: the phase does not say that the totals have been taken off.
CloseMarkTaken_None ==
    /\ pc = "taken"
    /\ pc' = "tcount"
    /\ UNCHANGED <<jvars, phases, sums, paid, numbers, logs, added, report, cuts, closes>>

CloseMarkTaken ==
    /\ pc = "taken"
    /\ syu' = 18
    /\ pc' = "tcount"
    /\ UNCHANGED <<jvars, cycl, sums, paid, numbers, logs, added, report, cuts, closes>>

\* CountUp of the T total.
TCountUp ==
    /\ pc = "tcount"
    /\ tnumber' = IF tlent # 0 THEN tlent + 1 ELSE tnumber
    /\ pc' = "treturn"
    /\ UNCHANGED <<jvars, phases, sums, paid, number, lent, tlent, logs,
                   added, report, cuts, closes>>

TCountReturn ==
    /\ pc = "treturn"
    /\ tlent' = 0
    /\ pc' = "idle"
    /\ UNCHANGED <<jvars, phases, sums, paid, number, lent, tnumber, logs,
                   added, report, cuts, closes>>

-----------------------------------------------------------------------------
(* Start-up: nmitrap, then fukuden goes on from the phases.  When neither  *)
(* has anything to do the loans of what was only printed end (CountFree).  *)

\* Seeded fault: a registered payment is taken for one that has ended.
FukudenPay_Registered ==
    CASE cycl = 13 -> "data"
      [] cycl = 14 -> "restore"
      [] cycl = 15 -> "boot15"
      [] cycl = 16 -> "copy"
      [] cycl = 19 -> "idle"
      [] cycl = 17 -> "money"

FukudenPay ==
    CASE cycl = 13 -> "data"
      [] cycl = 14 -> "restore"
      [] cycl = 15 -> "boot15"
      [] cycl = 16 -> "copy"
      [] cycl = 19 -> "count"
      [] cycl = 17 -> "money"

Fukuden ==
    /\ pc = "boot" /\ cycl # 0
    /\ pc' = FukudenPay
    /\ NmiStore
    /\ UNCHANGED <<task, paper, phases, sums, paid, numbers, logs, added, report,
                   cuts, closes>>

\* Case 14.  The comment says the work copy goes back to the T totals; the
\* destination is skyprn, the copy for the T report.
FukudenRestore ==
    /\ pc = "restore"
    /\ skyprn' = work["t"]
    /\ total' = [work EXCEPT !["t"] = total["t"]]
    /\ cycl' = 13
    /\ pc' = "data"
    /\ UNCHANGED <<jvars, syu, work, gt, paid, numbers, logs, added, report,
                   cuts, closes>>

\* Seeded fault: the GT totals are added to again without being put back.
FukudenGT_Kept == gt

\* Case 13 puts the GT totals back.
FukudenGT == IF syu = 13 THEN work["t"] ELSE gt

\* Cases 14 and 15 do not clear the totals of the places, the others end as
\* the close does; a close that was only to count its number (18) is over.
FukudenClose ==
    /\ pc = "boot" /\ cycl = 0 /\ syu \in 12..17
    /\ gt' = FukudenGT
    /\ syu' = IF syu = 13 THEN 12 ELSE syu
    /\ pc' = IF syu \in {14, 15} THEN "reclose" ELSE "close"
    /\ NmiStore
    /\ UNCHANGED <<task, paper, cycl, total, work, skyprn, paid, numbers, logs,
                   added, report, cuts, closes>>

\* Seeded fault: a T total that has been logged (15) is logged again.
FukudenRelog_Again ==
    /\ pc = "reclose"
    /\ tlog' = Append(tlog, tlent)
    /\ syu' = 16
    /\ pc' = "retake"
    /\ UNCHANGED <<jvars, cycl, sums, paid, numbers, paylog, added, report,
                   cuts, closes>>

FukudenRelog ==
    /\ pc = "reclose"
    /\ tlog' = IF syu = 14 THEN Append(tlog, tlent) ELSE tlog
    /\ syu' = 16
    /\ pc' = "retake"
    /\ UNCHANGED <<jvars, cycl, sums, paid, numbers, paylog, added, report,
                   cuts, closes>>

FukudenResave ==
    /\ pc = "retake"
    /\ work' = [work EXCEPT !["t"] = total["t"]]
    /\ syu' = 17
    /\ pc' = "resub"
    /\ UNCHANGED <<jvars, cycl, total, gt, skyprn, paid, numbers, logs, added,
                   report, cuts, closes>>

FukudenRetake ==
    /\ pc = "resub"
    /\ total' = [total EXCEPT !["t"] = @ - skyprn]
    /\ pc' = "taken"
    /\ UNCHANGED <<jvars, phases, work, gt, skyprn, paid, numbers, logs, added,
                   report, cuts, closes>>

FukudenNone ==
    /\ pc = "boot" /\ cycl = 0 /\ syu \in {0, 18}
    /\ syu' = 0
    /\ lent' = 0 /\ tlent' = 0
    /\ pc' = "idle"
    /\ NmiStore
    /\ UNCHANGED <<task, paper, cycl, sums, paid, number, tnumber, logs, added,
                   report, cuts, closes>>

-----------------------------------------------------------------------------
(* The windows, and the power cut.                                         *)

\* The T totals have been added to and are not put back.
TotalsAdded == cycl = 14 /\ pc = "add" /\ "t" \in added

\* The T totals have been taken off and are not put back.
TotalsTaken == syu = 17 /\ pc = "taken"

\* The T total number has not gone up, and nothing does it later.
TNumberKept == syu = 18 /\ pc = "tcount"

Window == [totals  |-> TotalsAdded, taken   |-> TotalsTaken,
           tnumber |-> TNumberKept, receipt |-> HalfCopied]

\* pc = "boot" is left at once: a cut there is the cut before.
Cut ==
    /\ cuts < MaxCuts /\ pc # "boot"
    /\ \A w \in DOMAIN Window : Window[w] => w \in CutIn
    /\ cuts' = cuts + 1
    /\ LosePower
    /\ pc' = "boot" /\ added' = {} /\ report' = FALSE
    /\ UNCHANGED <<phases, sums, paid, numbers, logs, closes>>

-----------------------------------------------------------------------------
(* Tasks give up the processor only where they wait: the operation task    *)
(* between operations and where it waits for a log.                        *)

OpeWaits == pc \in {"idle", "log", "settled", "money"}

Settles ==
    \/ PayDataSet \/ SaveTotals \/ MarkSaved \/ (\E a \in Areas : AddTo(a))
    \/ MarkAdded \/ LogPayment
    \/ AskReceipt \/ AskStage \/ AskStore \/ AskPut \/ MarkLogged
    \/ CountUp \/ CountReturn \/ MarkCounted \/ LogMoney

Closes ==
    \/ CloseSave \/ CloseAdd \/ CloseMarkAdded \/ CloseLog \/ CloseLogged
    \/ CloseSaveT \/ CloseTake \/ CloseMarkTaken \/ TCountUp \/ TCountReturn

Restarts ==
    \/ Fukuden \/ FukudenRestore \/ FukudenClose \/ FukudenRelog
    \/ FukudenResave \/ FukudenRetake \/ FukudenNone

OpeGoesOn == PrinterWaits /\ (Settles \/ Closes \/ Restarts)

Customer == PrinterWaits /\ (PayoutComplete \/ PrintReport \/ ReportPrinted)

PrinterRuns ==
    /\ OpeWaits /\ (pri = "off" => pc = "idle")
    /\ PrinterGoesOn \/ PrinterPass
    /\ UNCHANGED svars

Next == OpeGoesOn \/ Customer \/ PrinterRuns \/ Cut

Fairness == WF_vars(OpeGoesOn) /\ WF_vars(PrinterRuns)

Spec == Init /\ [][Next]_vars /\ Fairness

-----------------------------------------------------------------------------
(* What the code is to guarantee.                                          *)

\* Payments the totals must hold once the operation task has nothing to do.
Settled == pc = "idle"

\* Each settled payment is once in the totals of the day and once in the T
\* or GT totals, whatever power cuts ended its settlement or a close
\* (fukuden.c cases 13-17, syuukei.c 113-129, 4114-4217).  The place totals
\* hold those of the T totals, and perhaps payments of a close that a cut ended.
TotalsRight ==
    Settled => /\ total["day"] = paid
               /\ total["t"] + gt = paid
               /\ total["place"] \in total["t"]..paid

\* Payments are logged once each, in order, under consecutive numbers (CountGet
\* and CountUp of oiban.c, resumed by fukuden), wherever the power is cut.
PaymentNumbersRight ==
    /\ \A i \in DOMAIN paylog : paylog[i] = i
    /\ Len(paylog) = IF cycl \in {13, 14, 15} THEN paid - 1 ELSE paid

\* So are T totals, unless the power is cut in the window "tnumber".
TNumbersRight == \A i \in DOMAIN tlog : tlog[i] = i

\* A cut there gives the next T total the same number (syuukei.c 4217, no case
\* 18 in fukuden); no cut leaves out a number or goes back to an earlier one.
TNumbersSteady ==
    \A i \in DOMAIN tlog :
        IF i = 1 THEN tlog[i] = 1 ELSE tlog[i] - tlog[i - 1] \in {0, 1}

\* The receipt of every payment that has been registered (19) is printed by its
\* own request, given up to a printer error, or kept where the next start-up
\* finds it - unless the next payment was settled while it was still kept: the
\* code has room for one entry and one copy of a payment (pri_cmn.c 4095-4138,
\* logctrl.c 651), and that is the only way a receipt may go missing.
Accounted ==
    \A p \in Payments :
        p < paid \/ (p = paid /\ cycl \in {0, 17, 19})
            => p \in printed \cup dropped \cup overtaken \/ Pending(p)

\* No request is printed to its end twice, whatever start-up finds in the
\* buffer, the queue and the mailbox (PrnDat_DelQue, PrnCmd_ReWriteCheck and
\* PrnINJI_END, pri_cmn.c 4171-4203 and 3788-3830) - but one that is asked for
\* while start-up still has to print the queue is in both the queue and the
\* mailbox (pritask.c 339-349), and may be printed from each, never more.
ServedOnce ==
    \A j \in DOMAIN served : served[j] <= IF j \in behind THEN 2 ELSE 1

\* A receipt that does not show its own payment shows later ones, which took
\* the place of its own in the one copy; nothing is printed from a cleared
\* message or goes back to an earlier payment, and a receipt kept behind the
\* one started again is still queued at its turn (pri_cmn.c 3842-3915).
NoGarbage ==
    /\ \A r \in spoilt :
          r.own # Garbage /\ r.own <= r.blocks[1] /\ r.blocks[1] <= r.blocks[2]
    /\ pri = "wait" /\ ret = 99 /\ ~jnl.printing => count > 0

\* Every receipt is accounted for, no request is printed again beyond the one
\* case named, and none shows what was cleared or a payment before its own,
\* across power cuts, refused jobs and payments settled while one is printed.
ReceiptsAccounted == Accounted /\ ServedOnce /\ NoGarbage

\* A settlement ends, after a power cut too (fukuden.c 986), and the last
\* receipt comes out, is given up, or is overtaken by a payment.
SettlementEnds ==
    /\ cycl # 0 ~> cycl = 0
    /\ \A p \in Payments :
          paid = p /\ cycl = 19 ~> p \in printed \/ p \in dropped \/ paid # p

-----------------------------------------------------------------------------
(* A settlement and a T close are atomic.                                  *)

\* While the additions of a payment can still be put back, the totals are the
\* work copies; what a close has still to log or to take off is done.
BookedDay == IF cycl = 14 THEN work["day"] ELSE total["day"]

BookedT ==
    IF cycl = 14 THEN work["t"]
    ELSE IF cycl = 0 /\ syu \in 14..17 /\ pc # "taken" THEN total["t"] - skyprn
    ELSE total["t"]

BookedGT == IF cycl = 0 /\ syu = 13 THEN work["t"] ELSE gt

BookedPayments == IF cycl = 15 THEN Append(paylog, number) ELSE paylog

BookedClosings ==
    IF cycl = 0 /\ syu = 14 THEN Append(tlog, tnumber) ELSE tlog

Books == INSTANCE Ledger WITH
    day <- BookedDay, t <- BookedT, gt <- BookedGT,
    payments <- BookedPayments, closings <- BookedClosings

\* Seen through the phases, totals, log and numbers change together: a payment
\* when 15 says that it has been added, a T close when 14 says that it has been
\* added, whatever power cuts come before and after (syuukei.c 96-131 and
\* 4107-4217 with fukuden.c 165-290 and 1000-1090).
ImplementsLedger == Books!Spec
=============================================================================
