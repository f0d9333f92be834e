---------------------------- MODULE JournalPrint ----------------------------
(***************************************************************************)
(* The journal side of a settled payment: the print queue of               *)
(* src/Source/pri/pri_cmn.c that keeps a receipt request across a power    *)
(* cut, the print buffer eja_prn_buff that keeps the receipt being         *)
(* printed, and the passes of the printer task (src/Source/pri/pritask.c)  *)
(* that print on the journal printer or the electronic journal.            *)
(*                                                                         *)
(* Only receipt requests (PREQ_RYOUSYUU to J_PRI) are queued.  A request   *)
(* holds a job number and a pointer to the one retained copy of the        *)
(* payment, Cancel_pri_work, which is read when a block is edited.  A      *)
(* receipt is edited in two blocks, the second when the first has gone     *)
(* out.                                                                    *)
(*                                                                         *)
(* A power cut ends a task between two of the steps below; what is kept in *)
(* battery-backed memory stays as the last step left it.                   *)
(***************************************************************************)
EXTENDS Naturals, Sequences

CONSTANTS
    MaxPay          \* payments in a behaviour

ASSUME MaxPayAssumption == MaxPay \in Nat

Payments == 1..MaxPay

NoJob   == 0        \* job number of a cleared message: its pointer is NULL
Garbage == 0        \* what is printed from a NULL pointer

VARIABLES
    \* battery-backed
    slot,           \* job in the one place of prn_dat_que
    count,          \* prn_dat_que.count
    staged,         \* <<>> or the count nmisave is about to store (FLAGPT)
    cancel,         \* Cancel_pri_work: the payment it holds
    eja,            \* eja_prn_buff: [printing, job, msg], msg the job of PrnMsg
    asked,          \* payments asked for; prn_job_id is the length
    \* lost in a power cut
    mbox,           \* receipt requests in the mailbox of the printer task
    pri,            \* where the printer task is
    ret,            \* its `ret`: 1 to start the kept receipt again, 98 or 99
                    \* while it is printed (99: one more in the queue), or 0
    tgt,            \* job of the message being processed
    jnl,            \* jnl_proc_data: [printing, job, final]
    sent,           \* blocks of the receipt sent to the printer
    \* the paper, and what a printer error gave up
    printed,        \* payments whose own request printed their receipt
    spoilt,         \* receipts with blocks that are not of their own payment
    dropped,        \* payments whose request ended with a printer error
    \* what the properties compare with
    served,         \* how often each job was printed and cleared
    behind,         \* jobs asked for while start-up had to print the queue
    overtaken       \* payments settled over while their receipt was kept

kept == <<slot, count, staged, cancel, eja, asked>>
history == <<served, behind, overtaken>>
paper == <<printed, spoilt, dropped, history>>
task == <<mbox, pri, ret, tgt, jnl, sent>>
jvars == <<kept, task, paper>>

JobIds   == Nat
Receipts == [own : Payments \cup {Garbage}, blocks : Seq(Payments \cup {Garbage})]

JournalTypeOK ==
    /\ slot \in JobIds
    /\ count \in 0..1
    /\ staged \in {<<>>, <<0>>, <<1>>}
    /\ cancel \in Payments \cup {Garbage}
    /\ eja \in [printing : BOOLEAN, job : JobIds, msg : JobIds]
    /\ asked \in Seq(Payments)
    /\ mbox \in Seq(JobIds)
    /\ pri \in {"off", "wait", "read", "mark", "copy", "job", "msg", "find",
                "delete", "resume", "edit", "written"}
    /\ ret \in {0, 1, 98, 99}
    /\ tgt \in JobIds
    /\ jnl \in [printing : BOOLEAN, job : JobIds, final : BOOLEAN]
    /\ sent \in Seq(Payments \cup {Garbage})
    /\ printed \subseteq Payments
    /\ spoilt \in SUBSET Receipts
    /\ dropped \subseteq Payments
    /\ served \in Seq(Nat) /\ Len(served) = Len(asked)
    /\ behind \subseteq JobIds
    /\ overtaken \subseteq Payments

NoReceipt == [printing |-> FALSE, job |-> NoJob, msg |-> NoJob]
IdleJnl   == [printing |-> FALSE, job |-> NoJob, final |-> FALSE]

JournalInit ==
    /\ slot = NoJob /\ count = 0 /\ staged = <<>> /\ cancel = Garbage
    /\ eja = NoReceipt /\ asked = <<>>
    /\ mbox = <<>> /\ pri = "off" /\ ret = 0 /\ tgt = NoJob
    /\ jnl = IdleJnl /\ sent = <<>>
    /\ printed = {} /\ spoilt = {} /\ dropped = {}
    /\ served = <<>> /\ behind = {} /\ overtaken = {}

-----------------------------------------------------------------------------
(* Where the receipt of payment p may still come from.                     *)

InQueue(p)  == /\ slot # NoJob /\ asked[slot] = p
               /\ IF staged = <<>> THEN count = 1 ELSE staged = <<1>>
InBuffer(p) == eja.printing /\ eja.msg # NoJob /\ asked[eja.msg] = p
Pending(p)  == cancel = p /\ (InQueue(p) \/ InBuffer(p))

-----------------------------------------------------------------------------
(* queset of a receipt request, run by the task that settles payments.     *)
(* PrnDat_WriteQue writes the place, then stores the counters through      *)
(* nmisave; PutMsg follows.  With one place a full queue loses its only    *)
(* entry to the new one.                                                   *)

\* A receipt still to come when another payment is asked for is overtaken.
Requested(p) ==
    /\ served' = Append(served, 0)
    /\ overtaken' = overtaken \cup {q \in {cancel} \ {p} : Pending(q)}

\* Seeded fault: the counters are stored before the entry is written.
WriteQue_CountFirst(p) ==
    /\ cancel' = p
    /\ asked' = Append(asked, p)
    /\ staged' = <<1>>
    /\ Requested(p)
    /\ UNCHANGED <<slot, count, eja, task, printed, spoilt, dropped, behind>>

WriteQue(p) ==
    /\ cancel' = p
    /\ asked' = Append(asked, p)
    /\ slot' = Len(asked) + 1
    /\ Requested(p)
    /\ UNCHANGED <<count, staged, eja, task, printed, spoilt, dropped, behind>>

\* nmisave: the new value is staged and marked, then stored; a start-up
\* completes a store that was marked (nmitrap).
NmiMark(n) ==
    /\ staged' = <<n>>
    /\ UNCHANGED <<slot, count, cancel, eja, asked>>

NmiStore ==
    /\ count' = IF staged = <<>> THEN count ELSE staged[1]
    /\ staged' = <<>>
    /\ UNCHANGED <<slot, cancel, eja, asked>>

PutRequest ==
    /\ mbox' = Append(mbox, Len(asked))
    /\ behind' = IF ret = 99 THEN behind \cup {Len(asked)} ELSE behind
    /\ UNCHANGED <<kept, pri, ret, tgt, jnl, sent, printed, spoilt, dropped,
                   served, overtaken>>

-----------------------------------------------------------------------------
(* The printer task.  It gives up the processor only at "wait".            *)

PrnMsgBoxClear == IF mbox = <<>> THEN <<>> ELSE Tail(mbox)

\* PrnCmd_ReWriteCheck at start-up: a receipt that was being printed comes
\* first, then the queue.
ReWriteCheck ==
    /\ pri = "off"
    /\ mbox' = PrnMsgBoxClear
    /\ IF eja.printing
       THEN /\ jnl' = [printing |-> TRUE, job |-> eja.job, final |-> FALSE]
            /\ pri' = "find"
            /\ ret' = 1
       ELSE /\ pri' = IF count > 0 THEN "read" ELSE "wait"
            /\ UNCHANGED <<jnl, ret>>
    /\ UNCHANGED <<kept, tgt, sent, paper>>

\* The receipt kept in the buffer is done and another one is queued.
ReWriteQueued ==
    /\ pri = "wait" /\ ret = 99 /\ ~jnl.printing /\ count > 0
    /\ pri' = "read"
    /\ UNCHANGED <<kept, mbox, ret, tgt, jnl, sent, paper>>

ReadQue ==
    /\ pri = "read"
    /\ eja' = [printing |-> FALSE, job |-> slot, msg |-> slot]
    /\ jnl' = [IdleJnl EXCEPT !.job = slot]
    /\ tgt' = slot
    /\ pri' = "mark"
    /\ UNCHANGED <<slot, count, staged, cancel, asked, mbox, ret, sent, paper>>

\* Printing is set last; PrnCmd_ReWriteStart(1) then processes the message
\* before any other.
MarkRead ==
    /\ pri = "mark"
    /\ eja' = [eja EXCEPT !.printing = TRUE]
    /\ jnl' = [jnl EXCEPT !.printing = TRUE]
    /\ ret' = IF ret = 99 THEN 0 ELSE 98
    /\ pri' = "copy"
    /\ UNCHANGED <<slot, count, staged, cancel, asked, mbox, tgt, sent, paper>>

\* A new request, taken while nothing is printed and no kept receipt waits.
CanTake == pri = "wait" /\ ~jnl.printing /\ ret # 99 /\ mbox # <<>>

\* RcvCheckWait: the printer can print; the control area and the buffer are
\* cleared for the new receipt.
TakeRequest ==
    /\ CanTake
    /\ tgt' = Head(mbox)
    /\ mbox' = Tail(mbox)
    /\ ret' = 0
    /\ eja' = NoReceipt
    /\ jnl' = [IdleJnl EXCEPT !.printing = TRUE]
    /\ pri' = "copy"
    /\ UNCHANGED <<slot, count, staged, cancel, asked, sent, paper>>

\* Inji_ErrEnd: the printer is out of order; the request ends, its entry in
\* the queue stays.
RefuseRequest ==
    /\ CanTake
    /\ dropped' = dropped \cup {asked[Head(mbox)]}
    /\ mbox' = Tail(mbox)
    /\ ret' = 0
    /\ eja' = NoReceipt
    /\ jnl' = IdleJnl
    /\ UNCHANGED <<slot, count, staged, cancel, asked, pri, tgt, sent, printed,
                   spoilt, history>>

-----------------------------------------------------------------------------
(* PrnCmd_WriteStartEnd(0): the control data and the message are copied to *)
(* the buffer, then the entry of this job leaves the queue.                *)

\* eja_proc_data: Printing is its first field, Prn_Job_id its last.
CopyProc ==
    /\ pri = "copy"
    /\ jnl' = [jnl EXCEPT !.job = tgt]
    /\ eja' = [eja EXCEPT !.printing = TRUE]
    /\ pri' = "job"
    /\ UNCHANGED <<slot, count, staged, cancel, asked, mbox, ret, tgt, sent, paper>>

CopyJob ==
    /\ pri = "job"
    /\ eja' = [eja EXCEPT !.job = jnl.job]
    /\ pri' = "msg"
    /\ UNCHANGED <<slot, count, staged, cancel, asked, mbox, ret, tgt, jnl, sent, paper>>

CopyMsg ==
    /\ pri = "msg"
    /\ eja' = [eja EXCEPT !.msg = tgt]
    /\ pri' = "find"
    /\ UNCHANGED <<slot, count, staged, cancel, asked, mbox, ret, tgt, jnl, sent, paper>>

\* PrnDat_DelQue: only the entry of this very job is deleted.
Queued == count > 0 /\ slot = jnl.job

AfterFind == IF ret = 1 THEN "resume" ELSE "edit"

DelQue ==
    /\ pri = "find"
    /\ IF Queued THEN NmiMark(count - 1) /\ pri' = "delete"
                 ELSE pri' = AfterFind /\ UNCHANGED kept
    /\ UNCHANGED <<mbox, ret, tgt, jnl, sent, paper>>

DelStore ==
    /\ pri = "delete"
    /\ NmiStore
    /\ pri' = AfterFind
    /\ UNCHANGED <<mbox, ret, tgt, jnl, sent, paper>>

\* The rest of PrnCmd_ReWriteCheck, and PrnCmd_ReWriteStart(1): the receipt
\* in the buffer is started again from its first block.
Resume ==
    /\ pri = "resume"
    /\ ret' = IF count > 0 THEN 99 ELSE 98
    /\ tgt' = eja.msg
    /\ pri' = "copy"
    /\ UNCHANGED <<kept, mbox, jnl, sent, paper>>

-----------------------------------------------------------------------------
(* The receipt.                                                            *)

\* RYOUSYUU_edit reads the payment through the pointer of the message.
Content == IF tgt = NoJob THEN Garbage ELSE cancel

EditFirst ==
    /\ pri = "edit"
    /\ sent' = <<Content>>
    /\ pri' = "wait"
    /\ UNCHANGED <<kept, mbox, ret, tgt, jnl, paper>>

\* PrnINJI_END of the first block, and the edit of the last.
EditLast ==
    /\ pri = "wait" /\ jnl.printing /\ ~jnl.final
    /\ sent' = Append(sent, Content)
    /\ jnl' = [jnl EXCEPT !.final = TRUE]
    /\ UNCHANGED <<kept, mbox, pri, ret, tgt, paper>>

\* The receipt as printed, with the payment that its request is of.
Receipt == [own |-> IF tgt = NoJob THEN Garbage ELSE asked[tgt], blocks |-> sent]

Own(r) == r.own # Garbage /\ \A i \in DOMAIN r.blocks : r.blocks[i] = r.own

\* The printer has printed the last block ...
Written ==
    /\ pri = "wait" /\ jnl.printing /\ jnl.final
    /\ IF Own(Receipt)
       THEN printed' = printed \cup {Receipt.own} /\ UNCHANGED spoilt
       ELSE spoilt' = spoilt \cup {Receipt} /\ UNCHANGED printed
    /\ pri' = "written"
    /\ UNCHANGED <<kept, mbox, ret, tgt, jnl, sent, dropped, history>>

\* ... and PrnINJI_END clears the control area and the buffer.
EndPrint ==
    /\ pri = "written"
    /\ eja' = NoReceipt
    /\ jnl' = IdleJnl
    /\ served' = [j \in DOMAIN served |-> IF j = tgt THEN served[j] + 1 ELSE served[j]]
    /\ pri' = "wait"
    /\ UNCHANGED <<slot, count, staged, cancel, asked, mbox, ret, tgt, sent,
                   printed, spoilt, dropped, behind, overtaken>>

PrinterWaits == pri \in {"off", "wait"}

\* What the task does once it has taken something up.
PrinterGoesOn ==
    \/ ReadQue \/ MarkRead
    \/ CopyProc \/ CopyJob \/ CopyMsg \/ DelQue \/ DelStore \/ Resume
    \/ EditFirst \/ EndPrint

PrinterPass ==
    \/ ReWriteCheck \/ ReWriteQueued
    \/ TakeRequest \/ RefuseRequest
    \/ EditLast \/ Written

\* A power cut; the printer is started again when the operation task is up.
LosePower ==
    /\ mbox' = <<>> /\ pri' = "off" /\ ret' = 0 /\ tgt' = NoJob
    /\ jnl' = IdleJnl /\ sent' = <<>>
    /\ UNCHANGED <<kept, paper>>

\* The cut comes while a new receipt is half copied to the buffer: job
\* number without message, or no job number at all.
HalfCopied == pri \in {"job", "msg"} /\ (eja.job # jnl.job \/ eja.msg # tgt)

=============================================================================
