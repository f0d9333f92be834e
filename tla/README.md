# TLA+ verification of the GT-4100 parking payment machine

The program is the firmware of a parking payment machine (Renesas RX630): a
cooperative multitasking kernel, drivers for printer, coin and note units, LCD
board, e-money reader and networks, the payment dialogue, and a boot loader that
installs updates. The code is C with a few assembler files; comments are in
Japanese. Paths below are relative to the repository (`src/`).

## How the system runs

* **Tasks** (`sys/idletask.c` 67-219) are switched to in a fixed round by
  `idletask`. They never preempt each other: the only task switch is `taskchg`
  (`sys/taskchag.src`). A task waits by looping over `taskchg` until its mailbox
  has a message.
* **Interrupt handlers** (`sys/int_ram.c`) run between any two instructions
  outside of `_di2`/`_ei2` sections, and the timer handlers re-enable interrupts,
  so handlers nest. They count time (`sys/lagtim.c`), move bytes, and send messages.
* **Messages** (`queset`, `sys/comfnc.c` 22-56) are the common way to
  talk: fixed-size buffers from one pool, linked into one mailbox per task.
* **Retained RAM** survives a power cut. Multi-field updates go through
  `nmisave`/`nmimset` (`sys/comfnc.c` 659-752), which stage a copy and a `mod` flag so
  that `nmitrap` can finish an interrupted copy at start-up.

## Inventory

| component | state | operations | what makes it hard | correct when |
|---|---|---|---|---|
| message kernel (`sys/idletask.c`, `sys/comfnc.c`) | pool `mcb`, mailboxes `tcb[]`, `MESSAGEFULL` | `queset`, `GetBuf`, `PutMsg`, `GetMsg`, `Target_MsgGet`, `FreeBuf`, reset | nested handlers, exhausted pool, selective receive | mailboxes are FIFO, no buffer lost or owned twice, everything sent is received |
| lag timers (`sys/lagtim.c`) | counters per task and slot, 10 ms, 20 ms and 500 ms tables | `Lagtim`, `Lagcan`, `LagChk…`, `LagTim…`, `LagCan` | counters changed by tasks and decremented by nested handlers; a time-out already in the mailbox when the timer is stopped | a started timer fires once, a stopped one is silent, the busy bitmap matches the counters |
| journal print queue and buffer (`pri/pri_cmn.c` 3400-4251) | one queued request, its counters and the receipt being printed, in retained RAM; the retained payment | `PrnDat_WriteQue`, `ReadQue`, `DelQue`, `PrnCmd_ReWriteCheck`, `nmisave`, `nmitrap` | power cut between entry, counters, copy and completion; a full queue; one payment copy for all jobs | every receipt is printed by its own request, given up, kept or overtaken by a payment; no request printed twice needlessly; nothing printed from cleared memory |
| settlement (`ope/syuukei.c`, `oiban.c`, `fukuden.c`) | phases `cycl_fg` and `syusyu`, totals, work copies, lent numbers, in retained RAM | `kan_syuu`, `syuukei_clr`, `CountGet`, `CountUp`, `fukuden` | power cut at any store, and another one while start-up repairs the first | each payment once in totals and log, numbers without gap |
| print request deferral (`pri/pritask.c` 355-405, 1375-1465) | mailbox plus a `PREQ_DUMMY` marker and saved message | `TgtMsGet`, re-registration | allocation failure while re-registering | requests keep their order and none is lost |
| CAN link (`can/cantask.c`) | transmit and receive rings, SDO state, segment counter | `canrcv`, `cansnd`, `canchk`, ring operations | handler against task, lost and stale frames, abort against late answer | a message is delivered whole, once, or reported |
| LCD packet link (`pkt/*.c`) | send and resend rings, control block, log phases, TCP session | `SetSendCommand`, `SetReSendCommand`, the messages and packets of the packet task | retries that switch tasks in the middle of an insertion; disconnections in the middle of a log transfer; time-outs that race answers | commands leave in the order they were set, none lost silently; a record leaves its log only when the LCD has it; the link recovers |
| log store (`ope/logctrl.c`, `logctrl2.c`, `fla/flatask.c`) | banks in retained RAM, flash sectors, `log_bakup`, `params.log`, unread and void-read counts per target | `Log_Write`, `Log_Write_Pon`, `FLT_WriteLog`, `FLT_WriteLog_Pon`, void read, undo, pointer update | power cut between any two assignments; a sector recycled under its readers; two tasks and the flash task | the newest records are there, once and in order, and each reader gets each once |
| boot loader and updates (`GT4100_boot/Source/GT4100_boot.c`, `ope/updateope.c`, `mnt/AppServSub.c`) | program ROM, serial flash, `BootInfo` and parameters in retained RAM, two parameter areas | erase, write, verify, watchdog retry; switch of areas; recovery of parameters at start-up | power cut at any point, retry limit, two memories that must agree | the jump to the program happens only over a complete program; the parameters in force are those last chosen |
| payment dialogue, coin and note units, e-money, NT-NET, centre protocol, remote access, maintenance, … | see `PROJECT.json` | | | listed there with the reason they are left out or planned |

## Plan

1. `MsgQueue`, its promise `Mailbox`, the refinement `MCMsgQueue`, proofs in
   `MsgQueueProofs` (done).
2. `PktBuffer`: the rings of the packet link, byte by byte, proofs in `PktBufferProofs` (done).
3. `PktLink`: the session of the packet task with the LCD board, proofs in `PktLinkProofs` (done).
4. `LogStore`: the logs in retained RAM and flash under power cuts, with their readers, proofs in
   `LogStoreProofs`, `LogBankProofs` and `LogContentProofs` (done).
5. `Update`: program update and parameter areas under power cuts, flash errors and
   watchdog resets, proofs in `UpdateProofs` (done).
6. `JournalPrint` and `Settlement`: a payment from its totals to its receipt under power cuts,
   its promise `Ledger`, proofs in `SettlementProofs` (done).
7. `CanLink`: SDO block transfer between the task, its handlers and a lossy bus.
8. `LagTimer`: timers and the mailboxes, with nested timer interrupts.
9. Later: I2C arbitration, NT-NET telegram lists, centre send buffers, JVMA link.

Abstract specifications still worth stating: for `PktLink` and `LogStore` a log from which
every record is handed over in order, at least once.

Theorems in view: `StoreHolds` and `UnreadRight` of `LogStore` with power cuts outside the six windows; without
cuts they are proved.

## MsgQueue, Mailbox, MCMsgQueue

`MsgQueue` models the pool and the mailboxes at the grain of the critical sections.

* All tasks together are context 0, since they never preempt each other;
  interrupt levels are contexts 1 to `MAX_NEST`. A context runs only while no deeper one is
  active (`Running`).
* `queset` is `Queset` (the test of the pool that `GetBuf` makes with interrupts
  enabled), `GetBuf` (its critical section) and `QuesetPut` (message copied, `PutMsg`).
  Handlers can run between any two of these. `GetBufRace` is the critical section
  that finds the pool emptied since the test: the code loads a list head through a null
  pointer, so the new head is any value.
* `GetMsg`, `Target_MsgGet`, `Release` (the free at the start of the next
  `GetMsgWait`) and `Requeue` (a task puts back what it took) are the task's side. `Search`
  follows the links; `Unlink` has the code's three cases and its 8-bit index.
* `idle_subtask` is the reset that `err_chk` makes when `MESSAGEFULL` is set.
* `que` is an auxiliary variable: the order each list is meant to have. No guard reads it
  except the bound `Load`; the invariants compare the pointers with it.

`Mailbox` states what callers rely on: FIFO mailboxes with selective receive.
`MCMsgQueue` reads the mailbox contents off the pointers and checks that `MsgQueue` implements it.

| run | question | result |
|---|---|---|
| `queue_mailbox` | with `Load` < `MSGBUF_CNT`: types, list structure, event flags, ownership, refinement of `Mailbox`, one interrupt level | hold |
| `queue_served` | handlers that interrupt handlers inside `queset`, and a task holding two messages: is everything sent to a running task received? (list structure and ownership under nesting are proved, for every number of levels) | yes |
| `queue_full` | pool exhausted and damaged: does the reset follow and repair it? | holds |

What the model also shows of the code, beyond these runs:

* A pool that was drained exactly leaves `mcb.msg_end` at the last buffer taken, and the next `FreeBuf`
  links behind it (847): with `Load` = `MSGBUF_CNT` an empty mailbox returns a message. The
  passing runs about lists keep `Load` below.
* `GetBuf` tests the pool before `_di2` (`idletask.c` 753). When a handler takes the last
  buffer in between, it fails without setting `MESSAGEFULL` and loads a list head from address 0
  (`GetBufRace`; it is part of `queue_full`, where the next refusal still leads to the reset).
* `Target_MsgGet` counts with a `uchar` (899) although a mailbox may hold 512 messages: a match
  behind exactly 256 others unlinks the head instead (`Unlink`; with `UCHAR_MOD` below `Load`
  `ImplementsMailbox` fails).
* Messages are still sent to the lock task's mailbox (`ntnet/ntnetctrl.c` 813), which no task empties any
  more (`idletask.c` 123-124); each costs a buffer until the pool is dry. `ServedIsReceived` is about
  the tasks in `Served` only.

Bounds. Two mailboxes suffice for crossing messages between lists (the pool is a third
list); the mailboxes are symmetric except for `EventDriven` and `REMOTEDLTCBNO`, and both kinds occur.
Three and four buffers give lists with a head, a middle and a tail. `UCHAR_MOD` stands for 256 and is
not below `Load`, as 256 is not below the traffic the product
normally has. `MAX_HOLD` bounds what a task
has taken and not released, `Load` the buffers outstanding, and `MAX_NEST` the interrupt levels.

Fairness. A handler runs to its end (weak fairness). Handlers are short compared
with the period of the timers that raise them, so the interrupted task progresses however often it
is interrupted (strong fairness for context 0). `idletask` switches to each served task in
every round, so its receive step is taken if it is enabled again and again (strong
fairness). Nothing is assumed of the callers of `queset`.

## PktBuffer, MCPktBuffer

`PktBuffer` models `pkt/pkt_buffer.c` and the building of packets
(`PKTsnd_Create_Packet`): the send ring, from which commands are read, and the resend ring, which
keeps what was read until it is acknowledged. Bytes are in the model, because
the interesting things happen at the end of a ring: a cell holds which byte of which
command it is.

* Two tasks alternate, the payment dialogue (`OPE`) and the packet task (`PKT`). `Switch` is
  the end of a task's turn.
* `PKTcmd` fills a work area (shared or not, `WorkOf`) and sets the command. When there is no room
  the caller waits over task switches, and `SetSendCommandRetry` goes on with it: `Insert` copies as many
  bytes as the call was made with, from the work area as it is then.
* `CreatePacket`, `ReadSendCommand`, `SetReSendCommand`, `DelReSendCommand`, `ReadReSendCommand` and
  `ClearReSendCommand` are the packet task's side.
* `harm` is auxiliary. "mixed" is a copy in a length that is not that of the command found in the work area;
  "split" (`SplitLength`) is the read of a length word that lies across the end of a ring. Both happen in the code,
  and both are steps of the model; what the rings look like afterwards is not modelled (`Harmed`).

| run | question | result |
|---|---|---|
| `pkt_rings` | odd and even lengths, a shared work area: do both rings hold exactly the accepted commands across wrap-around and overflow, can a packet be sent again in full, whose command does a call set that waited, does everybody get on? | the rings hold until a command is mixed in; its own, or one of the other task from the same area; yes |

What the model shows of the code here:

* Texts are edited in a work area of their own and only by one task. All other commands are edited in
  `SendCmdDt` (`pktctrl.c` 33) by both tasks. While one waits for room (`pkt_buffer.c` 307) the other may edit
  its own command there, and the first call then sets that one and returns TRUE, which its comment calls "パケット送信予約 正常終了"
  (`pktctrl.c` 51): the command of the caller is lost and the other one is set twice. `SetsOwnOrShared` says that
  this is all that happens to a command that waits. When the two have different lengths the ring is out of step with its
  length words ("mixed").
* Texts and notices can have an odd length; then a later length word can lie across the end of a ring, and all three
  readers (103, 190, 390) read it as one word without wrapping ("split"). The rings are right up to then.
* `PKTbuf_CheckReSendCommand` (262) looks at the start of the buffer, not at the read pointer, and is wrong
  once an older command was dropped.

Bounds: rings of 10 and 8 bytes with commands of 3, 5, 5 and 6 wrap at every offset and overflow after
two commands; in the shared area there are two commands of one length, one of each task, and one of another.
All three readers reach a split length. Two tries stand for the code's retry count. A removed command's bytes are blanked,
since nothing reads them again. Fairness: `idletask` visits
every task in every round, so each task gets its turn (strong fairness of `Switch`) and uses it.
The receive ring of the same file has no writer (`PKTbuf_SetRecvCommand` is never called) and is
not modelled.

## PktLink, MCPktLink

`PktLink` models the packet task (`pkt/pkttask.c`): one action per message it handles, per kind of
packet it receives, and per branch of its send section.

* `pc` is where the task is when others run: waiting for a message, in the receive loop, or
  before the send section. `box` is its mailbox; a timer is named by the message it sends.
* `pktctrl` has the fields of the control block; `phase` the four `…_LogSend`
  fields; `logs` the unread records of each kind with the void read (read, not yet consumed).
* `snd_buf` and `rsnd_add_cmd` are the rings of `PktBuffer` as sequences, unbounded: what
  happens when they are full is the subject of `PktBuffer`.
* The LCD board, the network, the start of the payment dialogue and its commands are external.
  `Faults` names what can go wrong and `MAX_FAULTS` how often: a broken or refused connection,
  no socket, a failing send, a NAK, a forced ACK, silence, a negative response, a garbled packet,
  the wish to reset the LCD.
* Timers run out when nothing else can happen (`Quiet`), in any order. A timer in `Late` can also run
  out at any other moment, at the cost of a fault.
* `issued`, `rcvd`, `taken` are auxiliary: the commands that were set, for each command the ones the LCD received
  no later, and the records it received.

| run | question | result |
|---|---|---|
| `link_logs` | two records of different kinds, two failures of any kind but a failing send, a late timer and the wish to reset the LCD: does a record stay in its log until the LCD has it, does every answer settle the record it belongs to, can the task fall asleep for good? | records are kept, answers are settled, it never does |
| `link_recovery` | one record, any failure, a time-out that races the ACK included: does the link come back for good, is the record delivered? | yes |
| `link_commands` | without disconnections, with enough retries: are commands kept, in order, delivered? | yes |

Limits of the code outside the bounds of these runs. Commands that were on their way when a
connection broke are not sent again, and the first ACK after the reconnection clears them (902).
A missing `break` (1325) lets the response to a receipt settle the QR record of the same payment as well. It is
in the model; `link_logs` has no receipt record and does not reach it.
Any ACK clears `reset_req` (868), so that the wish to reset the LCD can be lost. An ACK is never compared with
`wait_seqno` (775), so that one that arrives after its wait ran out is counted for the next packet
(`AckIsItsOwn` holds only without `Late` timers). With keepalive off no timer is left after a
retry-over (2770; `NeverStalls` holds with keepalive on). With `rsnd_rtry_ov` set a packet that begins with a
configuration request is given up with the other commands in it (2391; `CommandKept` holds while the
retries do not run out).

Bounds: two records or two commands give every pair of activities that share a packet slot, a
retry counter or a ring; two failures give a failure during the recovery from another one. In
`link_commands` keepalive is off, because with it a keepalive
retry-over may reset the link; `link_logs` and `link_recovery` have it on, at its shortest.
`SENT_MAX` = 2 stands for 9999 and makes the counters wrap.

Fairness: the packet task runs again and again, a running timer runs out, the LCD
and the network answer what reaches them unless they fail, and failures end. Nothing is
assumed of the payment dialogue except that it starts.

Left out of `PktLink`: the error-guard and disconnect-wait timers, which only filter error
records; error records; encryption and its failure, which is treated like a CRC error; packets
that arrive in pieces; the sequence number check of received packets; the restore
notices, which are ordinary commands; the failure to build a log packet, which the
code calls unreachable; the system reset after fifty failures to make a socket.

## LogStore, MCLogStore

`LogStore` models the logs from `Log_Write` to the flash sectors and to the readers, at the
grain of single assignments to retained RAM, since the power may go between any two of them.

* A log is in two banks of RAM that take turns (payments), in one bank that holds a single record, or in
  a ring without flash sectors. `Accept` is the copy to `log_bakup` that makes a record safe; `Copy`,
  `Count`, `Mark`, `Advance`, … are the rest of `Log_Write`, each followed by its `f_recover` mark.
* `FltStart` to `FltUnlock` are `flt_WriteLog`, run by the flash task, or by start-up while it recovers.
* `LogWritePon` enters the same steps after the last mark (`Entry`, `ToDo`), `PonLog` to `PonEnd` are
  `FLT_WriteLog_Pon`, in the order of `opetask.c` 418-425.
* The readers (NT-NET, LCD, …) are `TargetDataVoidRead`, `UndoTargetDataVoidRead`,
  `TargetVoidReadPointerUpdate`, `TargetDataGet` and `UnreadToRead`, each one step.
* `accepted`, `handed`, `sent`, `lapped` are auxiliary.

| run | question | result |
|---|---|---|
| `log_power` | one task, two power cuts at any step, also during the recovery: does each log hold its newest records once and in order, are its readers where they were, does start-up end? | yes, outside six windows |
| `log_tasks` | two tasks, the flash task and a reader that sends in bursts: is a bank left alone while it is copied, is anything lost or sent twice when sectors are recycled, does every wait end? | nothing is lost or handed over out of order, every wait ends |

A comment promises a record against a power cut while it is written (`flatask.c` 5632). Six windows, named
by `Window` and opened by `CutIn`, are where the code does not keep this; each of them, opened in `log_power`,
breaks `StoreHolds` or `UnreadRight`:

* `unlock`: `f_recover` is 0 again and the request still set; the sector is written twice (`flatask.c` 2198).
* `recycle`: `secttop` is moved on without a saved value to compare with (2179).
* `size`: `FLT_WriteLog_Pon` lowers the reader's index by the bank size of the log that has
  the reader's number (5671).
* `overrun`: a bank fills while the other bank's request stands, and recovery takes that
  request for the new one (`logctrl2.c` 499).
* `first`: `AppServ_LogWriteCompleteCheckParam` is zero, not `0xffffffff`, while `Log_Write_Pon`
  runs, which names log 0 (`AppServSub.c` 1555).
* `pon`: `FLT_WriteLog_Pon` does not save the sector it chose (5646).

Further limits of the code, outside the bounds of the runs: `log_bakup` is one record for all tasks, so a cut with
two tasks inside `Log_Write` is not repaired (hence one task in `log_power`); the branch for a bank that is still
full (`logctrl2.c` 111-134) loses the bank, and is reached only when two tasks write one log, as they can with the error log
(the last part of `StoreHolds` shows that it is not taken otherwise); a ring that wraps during recovery
leaves its unread index; `Ope_Log_UnreadToRead` does not wrap the index of a ring (1259); a void read
during which a sector is recycled skips a record; a failed write of the error log's sector makes the flash
task wait for itself (2163).

Bounds. Logs 0, 1 and 2 are one of each kind. Two records to a bank and two sectors make banks turn, sectors
recycle and readers lag with four to six records. Two cuts give a cut during a recovery.
Fairness: a task that has the processor goes on, a task that waits is asked again in every round.

Abstracted: `ac_flg` phases (see `Settlement`), the contents of records, near-full alarms, sequence
numbers. Not modelled: write errors of the flash.

## Update, MCUpdate

`Update` models what replaces the program and the parameters: the boot loader, the switch between the two parameter
areas in flash, the decision at start-up whether RAM or flash has the good parameters, the flash task's
writing of an area, and the edits and downloads of the operator.

* `pc` goes through the loader (`Main`, `FcuInit`, `Erase`, `NextRegion`, `Write`, `Verify`, `Done`,
  `FcuError`), through start-up (`GetSwData` to `Ready`), and then through operation.
* A block or sector is erased and written whole; a cut tears the one at hand (`Torn`).
* `Restart` is the reset by the watchdog, by the operator or after a power cut: RAM without battery is lost.
* `wanted`, `gaveup`, `errs`, `bare`, `ferr` are auxiliary: the parameters last chosen, that and after how many errors the
  loader gave up, that an edit was cut before its mark, that a flash write failed.

`update_cuts` asks, with any two mishaps: is a program that is not whole ever started
(`LostOnlyIfGivenUp`), are the parameters in force those last chosen, and when can
both memories be bad (`ParamsInForce`), do the two records of the active area agree and is a saved edit in
flash once the flash task is idle (`FlashFollows`), does the loader retry `ERR_MAX` times (`GivesUpLate`), and do
updates and start-ups end (`UpdateEnds`). All hold. What the exceptions in them stand for:

* A cut between `parameterset.c` 615 and 617 leaves an edited RAM without its mark; when the save before it has not
  reached flash, that save is lost, or RAM and flash are both bad (`bare`).
* `ftp_check_stby_param` judges a standby area by two bytes of its first sector (`sysmnt2.c` 1550). After a flash
  error in a later sector the switch is offered, start-up destroys the sum in RAM and then erases the
  area (`ferr` in `ParamsInForce`).
* The result of `FLT_write_parm_swdata` is ignored (`updateope.c` 224), so that after a flash error the two
  records disagree (`ferr` in `FlashFollows`).
* After it gave up, the loader jumps into an incomplete program at the next power-on; the comments
  at `GT4100_boot.c` 265 and 275 want it so (`gaveup`).

Two more observations: `update_flag_set` sets the program's flag before the parameters' (365), so that
a cut installs one without the other; the comparison after the write of an area erases it when RAM was
edited meanwhile (`flatask.c` 2020), which only the second request repairs.

Bounds: ROM of three blocks in three of the four regions (one region empty), areas of two sectors, three parameter
sets, `ERR_MAX` 2. Two mishaps give a power cut in the repair of a power cut, an error after an error, and
every mixture. Fairness: the loader, start-up, the flash task and a reset that has been asked for go on.

Abstracted: the change of the layout of parameters between versions (`AppServSub.c` 1360-1373), invalid
parameters, wave data, the loss of battery RAM, the state of a remote download; a ROM block is one
sector of the image.

## JournalPrint, Settlement, Ledger, MCSettlement

`JournalPrint` models the way of a receipt: the print queue and the print buffer in retained RAM and the passes of the
printer task. `Settlement` extends it with what asks for the receipt: the settlement of a payment and the T
close, and what `fukuden` does about both at start-up.

* The phases `cycl` and `syu`, the totals, the work copies and the lent numbers are retained;
  `pc` is where the operation task is between two of their changes. A total is the number of payments in it.
* `PayoutComplete` to `LogMoney` are one payment; `PrintReport` to `TCountReturn` one T close; `Fukuden…`
  the entries of `fukuden` into both.
* `WriteQue`, `NmiMark`, `NmiStore`, `PutRequest` are `queset` of a receipt request; `ReWriteCheck` to
  `Resume` the printer's start-up; `TakeRequest` to `EndPrint` a receipt.
* Tasks give up the processor only where they wait (`OpeWaits`, `PrinterWaits`); a power cut can come anywhere (`Cut`).
* `printed`, `spoilt`, `dropped` are auxiliary: the payments whose own request printed their receipt, the receipts that show
  something else, and what a printer error gave up. So are `served`, `behind` and `overtaken`: how often each request was printed to its end,
  which ones were made while start-up still had to print the queue, and the payments whose receipt was still kept when
  the next payment was asked for. No guard reads them.

`Ledger` is what the totals and the log promise their readers: a payment, and a T close, is one step.
`ImplementsLedger` reads the ledger off the phases: while a payment can still be put back the totals are
the work copies, and what a phase has promised to log is logged.

| run | question | result |
|---|---|---|
| `settlement_cuts` | two payments, two T closes, two cuts: are the totals right, is the ledger implemented (and with it every number), what becomes of each receipt (`ReceiptsAccounted`), does everything end? | yes, outside four windows |
| `settlement_totals` | the same with the window `totals` open: are the totals right? | no: a payment is twice in the T totals |

The windows (`Window`):

* `totals`: case 14 of `fukuden` copies the saved T totals to `ts`, which is `&skyprn` (66), and not to
  `sky.tsyuk`, although the comment beside it says "ﾜｰｸｴﾘｱをＴ集計へ" (178). When the cut comes after the T totals were added to, the
  payment is in them twice. This is the run `settlement_totals`.
* `taken`: a T close is cut after it took the printed totals off; start-up takes them off again
  from totals that it saved a second time (1065-1073).
* `tnumber`: a T close is cut between its last phase and `CountUp`; start-up frees the number, and the next T total has
  the same one.
* `receipt`: the receipt is copied to the print buffer in three steps; a cut between them leaves the
  buffer marked without a message, the queue entry is deleted by its job number, and the block is edited
  through a null pointer.

Further observations outside the properties:

* Cases 14 and 15 of a T close clear neither the totals of the places nor report to `RAU_UpdateCenterSeqNo`, so
  the payments of that close stay in the totals of the place. `TotalsRight` allows this for the place.
* The GT totals of all places are added to in phase 13, but only one `LOKTOTAL_DAT` is saved.
* All requests point at one `Cancel_pri_work` (`logctrl.c` 651), and the queue has one place. A payment settled while a receipt
  waits makes both receipts print the later payment, or replaces the waiting entry; one settled between the two blocks of a receipt
  makes it a mixture of both. The earlier payment is then without a receipt.
* A payment settled while a kept receipt is printed again (`ret` 99) is printed twice, once from the queue and once
  from its message.

What `ReceiptsAccounted` says is therefore no more than this, for every payment. Its receipt is printed by its own request, given up to a
printer error, found by the next start-up, or `overtaken`, and only the first of the two cases above makes it that (`Accounted`).
A request is printed to its end at most once, or twice if it is `behind`, the second case (`ServedOnce`). A receipt that is not
that of its own payment has blocks of later ones, in order, and none of cleared memory (`NoGarbage`). It does not say that
receipts are neither lost, repeated nor mixed up: the code does all three, in these cases.

* A comment says that the queue is never full (`pri_cmn.c` 4105). It is when phase 16 is resumed, and
  after a refused job, whose entry stays and is printed at the next power-on.
* `queset` returns before `PrnDat_WriteQue` when the message pool is empty, and its result is ignored.

Bounds: two payments and two closes give a payment after a payment, a close between payments and a close after
an interrupted one; two cuts give a cut during a recovery. Fairness: the operation task goes on with what it
has begun (it only waits for the log), and the printer task is switched to in every round. Nothing is assumed
of customers and operators.

Abstracted: a log record is accepted in one step (`LogStore` shows that this is justified); the number of all payments and
the individual one are one; the phases 11 and 12 are one. The guard `f_KanSyuu_Cmp` of
`kan_syuu` (107) is left out: it keeps the many places of the dialogue that end a payment (`opemain.c` 12013-12279) from
settling it twice, and is 0 wherever the model settles one, at the first of these calls (`opemain.c` 8006) and after a reset, since
`OPECTL` is in the RAM that start-up clears (`memdata.c` 2579, `dbsct.c`). Not modelled: exits without payment during a
report, passes and electronic money, GT and MT closes, cancels, device resets, write time-outs of the printer.

## What is proved

`MsgQueueProofs` proves `TypeCorrect`: `Spec => []TypeOK` for every number of buffers,
mailboxes, message kinds and interrupt levels, from `BoxAssumption` and `SizeAssumption`. `TypeOK` is
inductive by itself because it states that a context between `GetBuf` and
`PutMsg` holds a real buffer. The lemmas say what `Left` and `Joined` do to a
sequence and what each list operation does to the types.

It then proves that the pointers describe the lists they are meant to: every buffer is
in exactly one place, each mailbox and the pool is the chain of its links, and the event flags agree.
`TypeOK` does not imply this by itself; the inductive invariant `IInv` adds to it the
ownership of the buffers, the shape of each chain and a count of what is outstanding. Two
conditions on the load are needed:
`Load` < `MSGBUF_CNT`, since a pool that was drained exactly leaves a stale `msg_end`, and `Load` <= `UCHAR_MOD`, since the search counts with 8 bits.

It proves the refinement as well, under the same two conditions (`MailboxesHold`, which is `ImplementsMailbox`).
What a task gets is found by following links; that this walk is the list in its intended order (`WalkIsListed`)
follows from `IInv`, and that there is only one such walk from the least place where two could differ. Every step is
then compared with `Mailbox` by what it does to the order: a buffer that joins is a message at the
end (`CarriedJoined`), one that leaves is a message taken from its place (`CarriedLeft`). `CommandInv` adds that what waits
or has been taken carries the command it was sent with: `command` is written only to a buffer in transit.

`UpdateProofs` proves for every ROM layout, area size, number of versions, parameter sets and mishaps: `TypeCorrect`
(with `LoopInv`, which keeps the block counter inside the ROM), `NeverLost` (`LostOnlyIfGivenUp`) and
`RetriesEnough` (`GivesUpLate`). The program that is started is whole because of an invariant over the whole loop: the flag stands from the
request to the end of the update (`FlagInv`) and only over a whole image (`ImageInv`), the blocks below the counter hold the
image (`CopyInv`), outside of an update the ROM holds one program (`WholeInv`), and the retained error
count is the number of errors of this update (`CountInv`).

It also proves `InForce` (`ParamsInForce`) and `Follows` (`FlashFollows`). Nothing less than the whole life of an area is inductive: where each mark and flag
may stand (`MarkInv`), what the flash task has written so far and where (`JobInv`, `BehindInv`), that
the area in use never looks up to date by its last sector alone (`TopInv`), that a standby area is whole or
blank behind start-up (`StandbyInv`), which of RAM and flash has the parameters chosen (`ForceInv`),
how far a switch has come (`SwInv`), and that a save is asked for or done (`FollowInv`).

`PktBufferProofs` proves `TypeCorrect`, `RingsCorrect` (`RingsHold`), `WaitedIsOwnOrShared` (`SetsOwnOrShared`) and `ResendPossible`
(`PacketCanBeResent`) for every set of commands of whatever lengths, every sharing of work areas, all ring sizes and retry limits.
`HarmHasCause` says when the model stops: a command is copied in a wrong length only if the two tasks edit commands of different lengths in
one area, and a length word is read past the end only if some length is odd. The code meets neither
condition, so these are not assumptions of the other theorems. `Laid` says where each byte of each command lies, counted from
the read pointer by the lengths of the commands before it. It is kept by each insertion, removal and reset;
beside it the invariant says that a whole command lies where one waits, its own or one of the other task (`CallInv`), and holds the packet under construction (`JobInv`), the last
commands of the resend ring if it is new and the first ones if it is sent again. `Before` and `Flat` of the model are recursive functions;
that they exist with the values their equations give is derived from the least number where they would not.

`PktLinkProofs` proves, for every set of commands, records and faults and every retry limit:

* `TypeCorrect` and `AnswerSettles` (`AnswerSettlesIt`) without any condition. The invariant `AInv` adds to the types that
  an awaited record is void read and the oldest (`ReadInv`), and that the keepalive count leaves its range only
  when the link is given up (`CountOK`).
* `NeverAsleep` (`NeverStalls`) with keepalive on. `WakeInv`: one of the five timers that lead on is running or
  in the mailbox, and while a connection is made it is the one for its result.
* `AckIsRight` (`AckIsItsOwn`) and `NoRecordLost` (`LogKept`) without late timers and without a send that fails on
  a live connection; outside of that the code does count an ACK for the wrong packet (see above). `LinkInv` follows
  a connection from the first attempt to its loss (`StartInv`, `DownInv`, `OpeningInv`, `UpInv`, `TimerInv`), says that
  at most one packet or its ACK is on the way and only while it is awaited (`FlightInv`), and that it
  carries the record whose ACK is awaited (`RecordInv`).
* `CommandsInOrder` (`InOrder`) and `CommandsKept` (`CommandKept`) under the conditions of `link_commands`, for every number of
  commands and retries: the connection stays up (`StaysUp`: keepalive off, no connection that breaks, no late
  timer, no failing send), no ACK is forced, and no more packets go wrong than one is repeated
  (`EnoughRetries`). A connection may be refused, log records and their responses go between the commands,
  and the reset of the LCD may be asked for. `OpenInv` shows that nothing then takes an open connection down;
  `RingInv` that the resend ring holds what is awaited or to be repeated, and what an ACK on its way has
  brought to the LCD; `CountInv` that every retry, and a packet that will not be
  acknowledged, has its own failure, so that retries never run out; `LineInv` that received commands, the resend ring and the
  send ring, one behind the other, are the commands that were set, in their order.

`LogStoreProofs` proves `BanksRest` (`BankAtRest`) for every number and size of logs, every number of records and cuts and
wherever the power goes, the six windows included: `CutIn` does not occur in the proof. `LogAssumption` is all it rests on,
above all that a log is written by one task. A request names a
bank, and the task that asked for it turns to the other bank before it copies again (`RequestInv`); a log of one bank waits instead.
Start-up knows only `log_bakup`: while `f_recover` says that a record is still to be copied, its bank has no
request (`BakupInv`), which start-up takes over with the record (`CopyInv`) although the requests it meets may stand for
the other bank. While start-up runs nothing else does (`BootInv`).

`LogBankProofs` and `LogContentProofs` prove for every number and size of logs, banks, sectors, targets, tasks and records:
`LogTypes` (`TypeOK`), `LogsHold` (`StoreHolds`), `ReadersFindUnread` (`UnreadRight`) and `HandedFollowsSent`
(`HandedInOrder`), under two conditions (`NoCuts`): the power stays on, and the host asks to skip records only of
logs with flash sectors, since `Ope_Log_UnreadToRead` does not wrap the index of a ring (see above). `log_tasks` is within them.
`LogAssumption` is the rest: a log is written by one task, and log 0 has flash sectors. `NoneAssumption` is about the model only:
an erased sector is told from a written one, since `None` is no bank of records.

None of the four is inductive. `StoreHolds` speaks of logs at rest, while a record passes through up to two
banks and a sector, each written in steps of its own, with the flash task in the middle of an older one. `ContentInv`
is the invariant; it rests on the one of `LogStoreProofs`.

* `TurnOK`: who may run. A task gives the processor away inside `Log_Write` only to wait for the flash task, which gives it
  away only while it waits for the chip.
* `LogOK` describes a log for each pair of places of its task and of the flash task. Records are counted from
  the newest, `accepted`, downwards: the bank in use holds the last ones (`DatOK`), the bank asked for the block before
  them (`AskedOK`), the sectors one block each before that (`SectorsOK`), the sector being written the block asked for
  (`JobOK`); the oldest sector of a full log is left out from the moment it is chosen until it is replaced. `PhaseOK` gives
  `count` and `wtp` at each place of `Log_Write`: it is here that a request is shown never to stand for the bank in use when
  the task goes on, so that no bank is found full.
* `SentOK` ties what a target has sent to its index: the first record in flash, which goes up by a block when a sector is
  recycled, and the index, which goes down by as much in a later step. `HandedOK` says that what is void read follows
  what was sent.
* `RingOK`, `RingPhaseOK` and `RingSentOK` are the same for a ring, where the place written to, the count and the index of
  each target wrap in steps of their own.

There is one lemma for each step (`...Goes`), by what it does to its own log; that the other logs do not change is `OthersKeep`.

`SettlementProofs` proves for every number of payments, closes and cuts:

* wherever the power is cut: `PaymentNumbersHold` (payments are logged once each, under consecutive numbers) and
  `TNumbersNeverSkip` (the number of a T total is that of the one before it or the next one);
* if no cut uses the window `tnumber`: `TNumbersHold` (T totals are logged under consecutive numbers). In the window
  the code gives two T totals one number;
* if no cut uses the windows `totals`, `taken` and `tnumber` (`Shut`): `TotalsHold` (`TotalsRight`), `SettleTypeCorrect` and
  `Atomic` (`ImplementsLedger`).

The properties speak of moments at which nothing goes on; `IInv` says phase by phase
where the task can be (`PhaseInv`), what the totals and work copies hold (`TotalsInv`) and how
far the numbers have come (`NumbersInv`, `TNumbersInv`, and `TSteadyInv` for the case that the window `tnumber` is used). The proof
needs each window exactly once, in the case of `Cut`. From the same invariant each step is a step of `Ledger` or none
(`Atomic`, which is `ImplementsLedger`).

It also proves `ReceiptsHold` (`ReceiptsAccounted`) for every number of payments, closes, cuts and refused jobs, provided
that no cut uses the window `receipt`; the proof needs that only in the case of `Cut`, and the other windows may be used.
`TypeCorrect` (`TypeOK`) needs all four to be shut. The invariant `JInv` follows a receipt from its entry in the queue onto paper: what
the one place of the queue and its staged counter may hold (`QueueInv`), that the two tasks take turns
(`TurnInv`), what buffer, control area and message hold at each place of the printer task (`BufferInv`), that a block
that was sent is never of an earlier payment than the one asked for (`SentInv`), and that the receipt of every payment
is printed, given up, in the queue or the buffer, or overtaken (`KeptInv`). `ServedInv` says how often a request may still be printed:
whatever is in the queue has not been printed, whatever is in the mailbox or found by start-up has one print left, and what is being
printed is in the mailbox as well only if it came from the queue behind a receipt started again.

Only model-checked:

* `TypeOK`, `StoreHolds` and `UnreadRight` of `LogStore` with power cuts outside the six windows (`log_power`): their invariant
  has to say what every pair of interrupted steps leaves and how far each recovery repeats it, a second
  cut included, and is not found yet. Nor is a ring whose records the host skips;
* all liveness properties, `CallsReturn` of `PktBuffer` among them: liveness under fairness is outside of the proof system.

## Not modelled

See `components` in `PROJECT.json`. Vendored code (TCP/IP stack, zlib), generated fee tables, screen drawing, print
layout and maintenance menus have no protocol of their own, and make up most of the lines; the
payment dialogue and the e-money transaction layer are too large to model whole. The CAN link, the lag
timers, the I2C bus and the serial links are worth modules of their own and are not done; their effect on what is modelled is
in the environment (handlers that send messages at any time, timers that run out at any time, payments
and operators that come at any time).
