------------------------------ MODULE LogStore ------------------------------
(***************************************************************************)
(* Logs that survive power cuts:                                           *)
(*   ope/logctrl2.c    Log_Write, which adds a record to a bank of battery *)
(*                     RAM, and Log_Write_Pon, which ends it after a cut   *)
(*   mnt/AppServSub.c  AppServ_LogFlashWriteReq, AppServ_IsLogFlashWriting *)
(*   fla/flatask.c     FLT_WriteLog and flt_WriteLog, which move a full    *)
(*                     bank to a flash sector, and FLT_WriteLog_Pon        *)
(*   ope/logctrl.c     the readers of unsent records (NT-NET, LCD, ...)    *)
(* A log has two banks that take turns, or one bank with room for one      *)
(* record, or is a ring in RAM only.  Tasks switch only where the code     *)
(* calls taskchg; the power may go between any two assignments, so a step  *)
(* is an assignment or an f_recover mark.                                  *)
(***************************************************************************)
EXTENDS Integers, Sequences, FiniteSets, FiniteSetsExt, SequencesExt

CONSTANTS
    Logs,          \* log numbers (eLOG_...); 0 is the payment log
    Flashed,       \* those kept in flash too (below LOG_STRAGEN)
    OneBank,       \* those whose record needs both halves of the RAM area
    LOG_SECORNUM,  \* LOG_SECORNUM[l]: records of a bank, of a sector, of a ring
    sectmax,       \* sectmax[l]: flash sectors of a log
    Targets,       \* readers (eLOG_TARGET_...), numbered like logs
    Tasks,         \* tasks that register records
    TaskOf,        \* TaskOf[l]: the task that writes log l
    Boot, FLT,     \* start-up and the flash task
    None,          \* nobody, nothing
    Skipped,       \* logs the host may ask to take for sent
    CutIn,         \* the windows (see Window) in which the power may go
    MaxRecords,    \* MaxRecords[l]: bound on the records of a log
    MaxTotal,      \* bound on the records of all logs
    MaxHanded,     \* bound on the records handed to one transmission
    MaxCuts        \* bound on power cuts

ASSUME LogAssumption ==
    /\ Logs \subseteq Nat /\ OneBank \subseteq Flashed /\ Flashed \subseteq Logs
    /\ 0 \in Flashed
    /\ LOG_SECORNUM \in [Logs -> Nat \ {0}]
    /\ \A l \in OneBank : LOG_SECORNUM[l] = 1
    /\ sectmax \in [Flashed -> Nat \ {0}]
    /\ Targets \subseteq Logs
    /\ TaskOf \in [Logs -> Tasks]
    /\ {Boot, FLT, None} \cap Tasks = {} /\ Boot # FLT /\ None \notin {Boot, FLT} \cup Logs
    /\ MaxRecords \in [Logs -> Nat]
    /\ MaxTotal \in Nat /\ MaxHanded \in Nat /\ MaxCuts \in Nat

\* An erased sector is told from a written one.
ASSUME NoneAssumption ==
    \A l \in Flashed : None \notin [0 .. LOG_SECORNUM[l] - 1 -> 0 .. MaxRecords[l]]

VARIABLES
    LOG_DAT,     \* log_record of each log, in battery RAM
    log_bakup,   \* log_recover, in battery RAM
    log_mgr,     \* sectors in use, in battery RAM
    req,         \* req[l]: req_tbl says FLT_REQ_EXEC_WRITE, in battery RAM
    params,      \* params.log, in battery RAM
    flash,       \* contents of the flash sectors
    CheckParam,  \* AppServ_LogWriteCompleteCheckParam
    task,        \* where each task is in Log_Write, start-up in its recovery
    flt,         \* where flt_WriteLog is
    cpu,         \* who runs; None: any task may be switched to
    accepted,    \* history: records that got as far as log_bakup
    handed,      \* history: records void-read and not yet confirmed
    sent,        \* history: last record each target is done with
    lapped,      \* history: unsent records were overwritten
    cuts         \* power cuts so far

ram      == <<log_bakup, LOG_DAT>>
flashing == <<log_mgr, req, params, flash, CheckParam, flt>>
reading  == <<handed, sent, lapped>>
history  == <<accepted, reading, cuts>>
vars     == <<ram, flashing, task, cpu, history>>

Bank(l)    == [0 .. LOG_SECORNUM[l] - 1 -> 0 .. MaxRecords[l]]
Sectors(l) == 0 .. sectmax[l] - 1
Next1_NoWrap(l, s) == s + 1
Next1(l, s) == (s + 1) % sectmax[l]
UpTo(m, n)  == [i \in 1 .. n - m |-> m + i]   \* records m + 1 to n

Frame(pc, l, dat, kind) == [pc |-> pc, Lno |-> l, dat |-> dat, kind |-> kind]
Idle == Frame("idle", 0, 0, 0)
NoBakup == [f_recover |-> 0, Lno |-> 0, dat |-> 0, stat_kind |-> 0, stat_wtp |-> 0,
            stat_count |-> 0, f_unread |-> [t \in Targets |-> 0]]

Init ==
    /\ LOG_DAT = [l \in Logs |->
         [kind |-> 0, count |-> [k \in {0, 1} |-> 0], wtp |-> 0,
          dat |-> [k \in {0, 1} |-> [i \in 0 .. LOG_SECORNUM[l] - 1 |-> 0]],
          Fcount |-> 0, unread |-> [t \in Targets |-> 0],
          f_unread |-> [t \in Targets |-> 0], void_read |-> [t \in Targets |-> 0]]]
    /\ log_bakup = NoBakup
    /\ log_mgr = [l \in Flashed |-> [secttop |-> 0, sectnum |-> 0,
                                     record_num |-> [s \in Sectors(l) |-> 0]]]
    /\ req = [l \in Flashed |-> FALSE]
    /\ params = [l \in Flashed |-> [record_num |-> 0, sramlog_kind |-> 0, stat_Fcount |-> 0,
                                    stat_sectnum |-> 0, get_sector |-> 0, f_recover |-> 0]]
    /\ flash = [l \in Flashed |-> [s \in Sectors(l) |-> None]]
    /\ CheckParam = [l \in Flashed |-> None]
    /\ task = [w \in Tasks \cup {Boot} |-> Idle]
    /\ flt = [pc |-> "idle", log |-> 0, by |-> FLT]
    /\ cpu = None
    /\ accepted = [l \in Logs |-> 0]
    /\ handed = [l \in Logs |-> [t \in Targets |-> <<>>]]
    /\ sent = [l \in Logs |-> [t \in Targets |-> 0]]
    /\ lapped = [l \in Logs |-> [t \in Targets |-> FALSE]]
    /\ cuts = 0

-----------------------------------------------------------------------------
\* Log_Write by task w, and Log_Write_Pon: start-up (w = Boot) goes through the
\* same steps from the last mark on.

At(w, pc)   == cpu = w /\ task[w].pc = pc
Goto(w, pc) == task' = [task EXCEPT ![w].pc = pc]
Lno(w)  == task[w].Lno
Kind(w) == task[w].kind
Lp(w)   == LOG_DAT[Lno(w)]
Full_Late(w) == Lp(w).count[Kind(w)] > LOG_SECORNUM[Lno(w)]
Full(w) == Lp(w).count[Kind(w)] >= LOG_SECORNUM[Lno(w)]

ToDo_Again(w, stat, now) == TRUE
\* Recovery repeats an update only if the saved value shows it was not done.
ToDo(w, stat, now) == w # Boot \/ stat = now

\* AppServ_IsLogFlashWriting: CheckParam holds the number of the request made.
IsWriting(l) == CheckParam[l] # None /\ req[CheckParam[l]]
Seen(l)      == [CheckParam EXCEPT ![l] = IF IsWriting(l) THEN @ ELSE None]

Log_Write(w, l) ==
    /\ cpu = None /\ w = TaskOf[l] /\ task[w] = Idle
    /\ accepted[l] < MaxRecords[l] /\ MapThenSumSet(LAMBDA m : accepted[m], Logs) < MaxTotal
    /\ cpu' = w
    /\ accepted' = [accepted EXCEPT ![l] = @ + 1]
    /\ log_bakup' = [f_recover |-> 1, Lno |-> l, dat |-> accepted[l] + 1,
                     stat_kind |-> LOG_DAT[l].kind, stat_wtp |-> LOG_DAT[l].wtp,
                     stat_count |-> LOG_DAT[l].count[LOG_DAT[l].kind],
                     f_unread |-> LOG_DAT[l].f_unread]
    /\ task' = [task EXCEPT ![w] = Frame("accept", l, accepted[l] + 1, LOG_DAT[l].kind)]
    /\ UNCHANGED <<LOG_DAT, flashing, reading, cuts>>

Accept(w) ==
    /\ At(w, "accept")
    /\ IF Lno(w) \in OneBank
       THEN /\ LOG_DAT' = [LOG_DAT EXCEPT ![Lno(w)].kind = 0]
            /\ log_bakup' = [log_bakup EXCEPT !.f_recover = 10]
            /\ Goto(w, IF w = Boot THEN "copy" ELSE "wait10")
       ELSE /\ log_bakup' = [log_bakup EXCEPT !.f_recover = 20]
            /\ Goto(w, "copy")
            /\ UNCHANGED LOG_DAT
    /\ UNCHANGED <<flashing, cpu, history>>

\* The loops that wait for the flash task, and what follows each.
WaitNext == [wait10 |-> "copy", wait30 |-> "request", wait31 |-> "clear31"]
Waits(w) == task[w].pc \in DOMAIN WaitNext

WaitYields(w) ==
    /\ cpu = w /\ Waits(w) /\ IsWriting(Lno(w))
    /\ cpu' = None
    /\ UNCHANGED <<ram, flashing, task, history>>

WaitEnds(w) ==
    /\ cpu \in {w, None} /\ Waits(w) /\ ~IsWriting(Lno(w))
    /\ cpu' = w
    /\ CheckParam' = Seen(Lno(w))
    /\ Goto(w, WaitNext[task[w].pc])
    /\ UNCHANGED <<ram, log_mgr, req, params, flash, flt, history>>

Copy(w) ==
    /\ At(w, "copy")
    /\ LOG_DAT' = [LOG_DAT EXCEPT ![Lno(w)].dat[Kind(w)][Lp(w).wtp] = task[w].dat]
    /\ Goto(w, IF Lno(w) \in Flashed THEN "f2" ELSE "unread")
    /\ UNCHANGED <<log_bakup, flashing, cpu, history>>

\* A ring counts its unread records, up to the size of the ring.
CountUnread(w) ==
    /\ At(w, "unread")
    /\ LOG_DAT' = [LOG_DAT EXCEPT ![Lno(w)].f_unread = [t \in Targets |->
                      IF @[t] < LOG_SECORNUM[Lno(w)] /\ ToDo(w, log_bakup.f_unread[t], @[t])
                      THEN @[t] + 1 ELSE @[t]]]
    /\ lapped' = [lapped EXCEPT ![Lno(w)] = [t \in Targets |->
                      @[t] \/ (w # Boot /\ Lp(w).f_unread[t] = LOG_SECORNUM[Lno(w)])
                           \/ (w = Boot /\ log_bakup.f_unread[t] = LOG_SECORNUM[Lno(w)])]]
    /\ Goto(w, "f2")
    /\ UNCHANGED <<log_bakup, flashing, cpu, accepted, handed, sent, cuts>>

Count(w) ==
    /\ At(w, "count")
    /\ LOG_DAT' = [LOG_DAT EXCEPT ![Lno(w)].count[Kind(w)] =
                      IF ToDo(w, log_bakup.stat_count, @) THEN @ + 1 ELSE @]
    /\ Goto(w, "f3")
    /\ UNCHANGED <<log_bakup, flashing, cpu, history>>

\* The marks: the value put in f_recover and where the code goes on.
Mark(w) ==
    CASE task[w].pc = "f2"   -> <<2, "count">>
      [] task[w].pc = "f3"   -> <<3, IF ~Full(w) THEN "wtp"
                                     ELSE IF Lno(w) \in Flashed THEN "f30" ELSE "cap">>
      [] task[w].pc = "f4"   -> <<4, "end">>
      [] task[w].pc = "f30"  -> <<30, IF w # Boot THEN "wait30"
                                      ELSE IF req[Lno(w)] THEN "f31" ELSE "request">>
      [] task[w].pc = "f31"  -> <<31, IF Lno(w) \notin OneBank THEN "toggle"
                                      ELSE IF w = Boot THEN "clear31" ELSE "wait31">>
      [] task[w].pc = "f311" -> <<311, "end">>
      [] task[w].pc = "f321" -> <<321, "clear">>
      [] task[w].pc = "f323" -> <<323, "end">>
      [] task[w].pc = "f40"  -> <<40, "step">>
      [] task[w].pc = "f41"  -> <<41, IF Lp(w).wtp >= LOG_SECORNUM[Lno(w)] THEN "f42" ELSE "f44">>
      [] task[w].pc = "f42"  -> <<42, "rewind">>
      [] task[w].pc = "f43"  -> <<43, "end">>
      [] task[w].pc = "f44"  -> <<44, "oldest">>

Checkpoint(w) ==
    /\ cpu = w
    /\ task[w].pc \in {"f2", "f3", "f4", "f30", "f31", "f311", "f321", "f323",
                       "f40", "f41", "f42", "f43", "f44"}
    /\ log_bakup' = [log_bakup EXCEPT !.f_recover = Mark(w)[1]]
    /\ Goto(w, Mark(w)[2])
    /\ UNCHANGED <<LOG_DAT, flashing, cpu, history>>

\* The write pointer advances while the bank has room, and always in a ring.
Advance(w) ==
    /\ cpu = w /\ task[w].pc \in {"wtp", "step"}
    /\ LOG_DAT' = [LOG_DAT EXCEPT ![Lno(w)].wtp =
                      IF ToDo(w, log_bakup.stat_wtp, @) THEN @ + 1 ELSE @]
    /\ Goto(w, IF task[w].pc = "wtp" THEN "f4" ELSE "f41")
    /\ UNCHANGED <<log_bakup, flashing, cpu, history>>

\* A full ring: count stays at its maximum and the write pointer wraps.
Cap(w) ==
    /\ At(w, "cap")
    /\ LOG_DAT' = [LOG_DAT EXCEPT ![Lno(w)].count[Kind(w)] = LOG_SECORNUM[Lno(w)]]
    /\ Goto(w, "f40")
    /\ UNCHANGED <<log_bakup, flashing, cpu, history>>

Rewind(w) ==
    /\ At(w, "rewind")
    /\ LOG_DAT' = [LOG_DAT EXCEPT ![Lno(w)].wtp = 0]
    /\ Goto(w, "f43")
    /\ UNCHANGED <<log_bakup, flashing, cpu, history>>

\* A reader whose ring is full of unread records moves to the oldest one.
Oldest(w) ==
    /\ At(w, "oldest")
    /\ LOG_DAT' = [LOG_DAT EXCEPT ![Lno(w)].unread = [t \in Targets |->
                      IF @[t] < Lp(w).wtp /\ Lp(w).f_unread[t] >= LOG_SECORNUM[Lno(w)]
                      THEN Lp(w).wtp ELSE @[t]]]
    /\ Goto(w, "end")
    /\ UNCHANGED <<log_bakup, flashing, cpu, history>>

Toggle_Stays(w) ==
    /\ At(w, "toggle")
    /\ Goto(w, "f321")
    /\ UNCHANGED <<ram, flashing, cpu, history>>

\* The other bank takes over.
Toggle(w) ==
    /\ At(w, "toggle")
    /\ LOG_DAT' = [LOG_DAT EXCEPT ![Lno(w)].kind =
                      IF ToDo(w, log_bakup.stat_kind, @) THEN 1 - Kind(w) ELSE @]
    /\ Goto(w, "f321")
    /\ UNCHANGED <<log_bakup, flashing, cpu, history>>

ClearBank(w) ==
    /\ cpu = w /\ task[w].pc \in {"clear", "clear31"}
    /\ LOG_DAT' = [LOG_DAT EXCEPT ![Lno(w)].count[Lp(w).kind] = 0, ![Lno(w)].wtp = 0]
    /\ Goto(w, IF task[w].pc = "clear" THEN "f323" ELSE "f311")
    /\ UNCHANGED <<log_bakup, flashing, cpu, history>>

\* Log_clear_log_bakupflag; start-up goes on with FLT_WriteLog_Pon.
Finish(w) ==
    /\ At(w, "end")
    /\ log_bakup' = NoBakup
    /\ task' = [task EXCEPT ![w] = IF w = Boot THEN Frame("pon", 0, 0, 0) ELSE Idle]
    /\ cpu' = IF w = Boot THEN Boot ELSE None
    /\ UNCHANGED <<LOG_DAT, flashing, history>>

-----------------------------------------------------------------------------
\* AppServ_LogFlashWriteReq and FLT_WriteLog.

\* FLT_WriteLog hands the bank in use to the flash task.
Requested(l) ==
    /\ params' = [params EXCEPT ![l].record_num = LOG_DAT[l].count[LOG_DAT[l].kind],
                                ![l].sramlog_kind = LOG_DAT[l].kind]
    /\ req' = [req EXCEPT ![l] = TRUE]

\* A task leaves the work to the flash task.
Request(w) ==
    /\ w # Boot /\ At(w, "request")
    /\ Requested(Lno(w))
    /\ CheckParam' = [CheckParam EXCEPT ![Lno(w)] = Lno(w)]
    /\ Goto(w, "f31")
    /\ UNCHANGED <<ram, log_mgr, flash, flt, cpu, history>>

\* Start-up writes the sector itself, unless the bank is empty or
\* AppServ_IsLogFlashWriting says a write goes on.
RequestPon ==
    /\ At(Boot, "request")
    /\ LET l == Lno(Boot) IN
       IF Lp(Boot).count[Lp(Boot).kind] = 0 \/ IsWriting(l)
       THEN /\ UNCHANGED <<params, req, flt, cpu, CheckParam>>
       ELSE /\ Requested(l)
            /\ flt' = [pc |-> "start", log |-> l, by |-> Boot]
            /\ cpu' = FLT
            /\ CheckParam' = [CheckParam EXCEPT ![l] = None]
    /\ Goto(Boot, "f31")
    /\ UNCHANGED <<ram, log_mgr, flash, history>>

-----------------------------------------------------------------------------
\* flt_WriteLog, by the flash task or by start-up.

FltGoto(pc) == flt' = [flt EXCEPT !.pc = pc]
FltMark(n)  == params' = [params EXCEPT ![flt.log].f_recover = n]
Mgr    == log_mgr[flt.log]
Par    == params[flt.log]
\* The flash driver switches tasks while it waits for the chip.
FltAt(pc) == flt.pc = pc /\ cpu \in (IF pc \in {"write", "verify"} THEN {FLT, None} ELSE {FLT})
FltYields == cpu' = IF flt.by = Boot THEN FLT ELSE None

FirstOf(S) == CHOOSE l \in S : \A m \in S : l <= m
Pending    == {l \in Flashed : req[l]}
Started(l) == params' = [params EXCEPT ![l].stat_Fcount = LOG_DAT[l].Fcount,
                                       ![l].stat_sectnum = log_mgr[l].sectnum,
                                       ![l].f_recover = 1]
WriteSector(l) == (log_mgr[l].secttop + log_mgr[l].sectnum) % sectmax[l]

\* flatask takes the first request of the table.
FltStart ==
    /\ \/ /\ FltAt("start")
          /\ Started(flt.log)
          /\ FltGoto("sector")
       \/ /\ cpu = None /\ flt.pc = "idle" /\ Pending # {}
          /\ Started(FirstOf(Pending))
          /\ flt' = [pc |-> "sector", log |-> FirstOf(Pending), by |-> FLT]
    /\ cpu' = FLT
    /\ UNCHANGED <<ram, log_mgr, req, flash, CheckParam, task, history>>

FltSector ==
    /\ FltAt("sector")
    /\ params' = [params EXCEPT ![flt.log].get_sector = WriteSector(flt.log)]
    /\ FltGoto("erase")
    /\ UNCHANGED <<ram, log_mgr, req, flash, CheckParam, task, cpu, history>>

FltErase ==
    /\ FltAt("erase")
    /\ flash' = [flash EXCEPT ![flt.log][Par.get_sector] = None]
    /\ FltGoto("write") /\ FltYields
    /\ UNCHANGED <<ram, log_mgr, req, params, CheckParam, task, history>>

FltWrite ==
    /\ FltAt("write")
    /\ flash' = [flash EXCEPT ![flt.log][Par.get_sector] = LOG_DAT[flt.log].dat[Par.sramlog_kind]]
    /\ FltGoto("verify") /\ FltYields
    /\ UNCHANGED <<ram, log_mgr, req, params, CheckParam, task, history>>

\* flt_CmpLogData finds the bank in the sector.
FltVerified ==
    /\ FltAt("verify")
    /\ flash[flt.log][Par.get_sector] = LOG_DAT[flt.log].dat[Par.sramlog_kind]
    /\ FltMark(2)
    /\ FltGoto("fcount")
    /\ cpu' = FLT
    /\ UNCHANGED <<ram, log_mgr, req, flash, CheckParam, task, history>>

FltFcount ==
    /\ FltAt("fcount")
    /\ IF LOG_DAT[flt.log].Fcount < sectmax[flt.log]
       THEN /\ LOG_DAT' = [LOG_DAT EXCEPT ![flt.log].Fcount = @ + 1]
            /\ FltGoto("f3")
       ELSE /\ FltGoto("info")
            /\ UNCHANGED LOG_DAT
    /\ UNCHANGED <<log_bakup, log_mgr, req, params, flash, CheckParam, task, cpu, history>>

FltInfo ==
    /\ FltAt("info")
    /\ log_mgr' = [log_mgr EXCEPT ![flt.log].record_num[Par.get_sector] = Par.record_num]
    /\ FltGoto(IF Mgr.sectnum + 1 > sectmax[flt.log] THEN "f40" ELSE "f41")
    /\ UNCHANGED <<ram, req, params, flash, CheckParam, task, cpu, history>>

FltCheckpoint ==
    /\ \E m \in {<<"f3", 3, "info">>, <<"f40", 40, "secttop">>, <<"f41", 41, "sectnum">>,
                 <<"f0", 0, "unlock">>} :
         FltAt(m[1]) /\ FltMark(m[2]) /\ FltGoto(m[3])
    /\ UNCHANGED <<ram, log_mgr, req, flash, CheckParam, task, cpu, history>>

FltSecttop ==
    /\ FltAt("secttop")
    /\ log_mgr' = [log_mgr EXCEPT ![flt.log].secttop = Next1(flt.log, @)]
    /\ FltGoto("unread")
    /\ UNCHANGED <<ram, req, params, flash, CheckParam, task, cpu, history>>

Lowered_Not(l, n) == [t \in Targets |-> LOG_DAT[l].unread[t]]
\* The oldest sector is gone: every unread index moves down by a sector.
Lowered(l, n) == [t \in Targets |-> LET u == LOG_DAT[l].unread[t] IN IF u > n[t] THEN u - n[t] ELSE 0]

FltUnread ==
    /\ FltAt("unread")
    /\ LOG_DAT' = [LOG_DAT EXCEPT ![flt.log].unread =
                      Lowered(flt.log, [t \in Targets |-> LOG_SECORNUM[flt.log]])]
    /\ lapped' = [lapped EXCEPT ![flt.log] = [t \in Targets |->
                      @[t] \/ LOG_DAT[flt.log].unread[t] < LOG_SECORNUM[flt.log]]]
    /\ FltGoto("count")
    /\ UNCHANGED <<log_bakup, log_mgr, req, params, flash, CheckParam, task, cpu,
                   accepted, handed, sent, cuts>>

FltSectnum ==
    /\ FltAt("sectnum")
    /\ log_mgr' = [log_mgr EXCEPT ![flt.log].sectnum = @ + 1]
    /\ FltGoto("count")
    /\ UNCHANGED <<ram, req, params, flash, CheckParam, task, cpu, history>>

FltCount ==
    /\ FltAt("count")
    /\ LOG_DAT' = [LOG_DAT EXCEPT ![flt.log].count[Par.sramlog_kind] = 0]
    /\ FltGoto("f0")
    /\ UNCHANGED <<log_bakup, log_mgr, req, params, flash, CheckParam, task, cpu, history>>

FltUnlock_Kept ==
    /\ FltAt("unlock")
    /\ flt' = [flt EXCEPT !.pc = "idle"]
    /\ cpu' = IF flt.by = Boot THEN Boot ELSE None
    /\ UNCHANGED <<ram, log_mgr, req, params, flash, CheckParam, task, history>>

FltUnlock ==
    /\ FltAt("unlock")
    /\ req' = [req EXCEPT ![flt.log] = FALSE]
    /\ flt' = [flt EXCEPT !.pc = "idle"]
    /\ cpu' = IF flt.by = Boot THEN Boot ELSE None
    /\ UNCHANGED <<ram, log_mgr, params, flash, CheckParam, task, history>>

-----------------------------------------------------------------------------
\* Start-up after a cut.

\* Log_Write_Pon: where each mark leads.
Entry ==
    [f \in {1, 10, 20, 2, 3, 30, 31, 321, 40, 41, 42, 44} |->
        CASE f = 1 -> "accept" [] f \in {10, 20} -> "copy" [] f = 2 -> "count" [] f = 3 -> "f3"
          [] f = 30 -> "f30" [] f = 31 -> "f31" [] f = 321 -> "clear" [] f = 40 -> "step"
          [] f = 41 -> "f41" [] f = 42 -> "rewind" [] f = 44 -> "oldest"]

LogWritePon ==
    /\ At(Boot, "bakup")
    /\ task' = [task EXCEPT ![Boot] =
         Frame(IF log_bakup.f_recover \in DOMAIN Entry THEN Entry[log_bakup.f_recover] ELSE "end",
               log_bakup.Lno, log_bakup.dat, log_bakup.stat_kind)]
    /\ UNCHANGED <<ram, flashing, cpu, history>>

\* FLT_WriteLog_Pon: the logs with a request in turn, each from its mark on.
\* The sector is the one flt_WriteLog found, or found anew here; it is kept in dat.
PonLog ==
    /\ At(Boot, "pon") /\ Pending # {}
    /\ LET l == FirstOf(Pending)
           n == params[l].f_recover IN
       /\ task' = [task EXCEPT ![Boot] =
            Frame(CASE n \in {0, 1} -> "ponerase" [] n = 2 -> "ponfcount" [] n = 3 -> "poninfo"
                    [] n = 40 -> "ponsecttop" [] n = 41 -> "ponsectnum",
                  l, IF n \in {0, 1} THEN WriteSector(l) ELSE params[l].get_sector, 0)]
       /\ IF n = 0 THEN Started(l) ELSE UNCHANGED params
    /\ UNCHANGED <<ram, log_mgr, req, flash, CheckParam, flt, cpu, history>>

Sector == task[Boot].dat

PonErase ==
    /\ At(Boot, "ponerase")
    /\ flash' = [flash EXCEPT ![Lno(Boot)][Sector] = None]
    /\ Goto(Boot, "ponwrite")
    /\ UNCHANGED <<ram, log_mgr, req, params, CheckParam, flt, cpu, history>>

PonWrite ==
    /\ At(Boot, "ponwrite")
    /\ flash' = [flash EXCEPT ![Lno(Boot)][Sector] =
                    LOG_DAT[Lno(Boot)].dat[params[Lno(Boot)].sramlog_kind]]
    /\ params' = [params EXCEPT ![Lno(Boot)].f_recover = 2]
    /\ Goto(Boot, "ponfcount")
    /\ UNCHANGED <<ram, log_mgr, req, CheckParam, flt, cpu, history>>

PonFcount ==
    /\ At(Boot, "ponfcount")
    /\ LET l == Lno(Boot) IN
       IF LOG_DAT[l].Fcount < sectmax[l]
       THEN /\ LOG_DAT' = [LOG_DAT EXCEPT ![l].Fcount =
                              IF params[l].stat_Fcount = @ THEN @ + 1 ELSE @]
            /\ params' = [params EXCEPT ![l].f_recover = 3]
       ELSE UNCHANGED <<LOG_DAT, params>>
    /\ Goto(Boot, "poninfo")
    /\ UNCHANGED <<log_bakup, log_mgr, req, flash, CheckParam, flt, cpu, history>>

PonInfo ==
    /\ At(Boot, "poninfo")
    /\ LET l == Lno(Boot) IN
       /\ log_mgr' = [log_mgr EXCEPT ![l].record_num[Sector] = params[l].record_num]
       /\ Goto(Boot, IF log_mgr[l].sectnum + 1 > sectmax[l] THEN "ponsecttop" ELSE "ponsectnum")
    /\ UNCHANGED <<ram, req, params, flash, CheckParam, flt, cpu, history>>

\* The size subtracted here is that of the log whose number is the target's.
PonSecttop ==
    /\ At(Boot, "ponsecttop")
    /\ LET l == Lno(Boot) IN
       /\ log_mgr' = [log_mgr EXCEPT ![l].secttop = Next1(l, @)]
       /\ LOG_DAT' = [LOG_DAT EXCEPT ![l].unread =
                         Lowered(l, [t \in Targets |-> LOG_SECORNUM[t]])]
       /\ lapped' = [lapped EXCEPT ![l] = [t \in Targets |->
                         @[t] \/ LOG_DAT[l].unread[t] < LOG_SECORNUM[l]]]
    /\ Goto(Boot, "ponend")
    /\ UNCHANGED <<log_bakup, req, params, flash, CheckParam, flt, cpu,
                   accepted, handed, sent, cuts>>

PonSectnum ==
    /\ At(Boot, "ponsectnum")
    /\ LET l == Lno(Boot) IN
       log_mgr' = [log_mgr EXCEPT ![l].sectnum =
                      IF params[l].stat_sectnum = @ THEN @ + 1 ELSE @]
    /\ Goto(Boot, "ponend")
    /\ UNCHANGED <<ram, req, params, flash, CheckParam, flt, cpu, history>>

PonEnd_Kept ==
    /\ At(Boot, "ponend")
    /\ params' = [params EXCEPT ![Lno(Boot)].f_recover = 0]
    /\ Goto(Boot, "pon")
    /\ UNCHANGED <<ram, log_mgr, req, flash, CheckParam, flt, cpu, history>>

PonEnd ==
    /\ At(Boot, "ponend")
    /\ LET l == Lno(Boot) IN
       /\ LOG_DAT' = [LOG_DAT EXCEPT ![l].count[params[l].sramlog_kind] = 0]
       /\ req' = [req EXCEPT ![l] = FALSE]
       /\ params' = [params EXCEPT ![l].f_recover = 0, ![l].get_sector = 0,
                                   ![l].stat_Fcount = 0, ![l].stat_sectnum = 0]
    /\ Goto(Boot, "pon")
    /\ UNCHANGED <<log_bakup, log_mgr, flash, CheckParam, flt, cpu, history>>

\* No request is left.  AppServ_FukudenProc resets CheckParam; the tasks start.
BootDone ==
    /\ At(Boot, "pon") /\ Pending = {}
    /\ params' = [l \in Flashed |-> [params[l] EXCEPT !.f_recover = 0, !.get_sector = 0,
                                                      !.stat_Fcount = 0, !.stat_sectnum = 0]]
    /\ CheckParam' = [l \in Flashed |-> None]
    /\ task' = [task EXCEPT ![Boot] = Idle]
    /\ cpu' = None
    /\ UNCHANGED <<ram, log_mgr, req, flash, flt, history>>

-----------------------------------------------------------------------------
\* The readers.  A reader waits while the flash task holds the log, and does
\* not switch tasks between the count and the read.

Ready(l) == cpu = None /\ (l \in Flashed => ~req[l])

\* A record whose writer waits before it copies it is in no bank yet.
InHand(l) == IF \E w \in Tasks : task[w].pc = "wait10" /\ Lno(w) = l THEN 1 ELSE 0

\* Ope_Log_1DataGet by index: the flash sectors in turn, then the bank in use
\* (a log of one bank is read from flash only); a ring from its first slot.
FirstRecords(bank, n) == [i \in 1 .. n |-> bank[i - 1]]
InFlash(l) ==
    FlattenSeq([k \in 1 .. log_mgr[l].sectnum |->
        LET s == (log_mgr[l].secttop + k - 1) % sectmax[l] IN
        IF flash[l][s] = None THEN <<>> ELSE FirstRecords(flash[l][s], log_mgr[l].record_num[s])])
InBank(l) == FirstRecords(LOG_DAT[l].dat[LOG_DAT[l].kind], LOG_DAT[l].count[LOG_DAT[l].kind])
Indexed(l) == IF l \notin Flashed THEN InBank(l)
              ELSE IF l \in OneBank THEN InFlash(l) ELSE InFlash(l) \o InBank(l)

Unread(l, t) == IF l \in Flashed THEN Len(Indexed(l)) - LOG_DAT[l].unread[t]
                                 ELSE LOG_DAT[l].f_unread[t]

\* Ope_Log_TargetDataVoidRead: the record after those already handed over.
VoidIndex_First(l, t, n) == LOG_DAT[l].unread[t] + 1
VoidIndex(l, t, n) ==
    LET i == LOG_DAT[l].unread[t] + n IN
    IF l \notin Flashed /\ i >= LOG_SECORNUM[l] THEN i - LOG_SECORNUM[l] ELSE i

TargetDataVoidRead(l, t, start) ==
    /\ Ready(l)
    /\ LET n == IF start THEN 0 ELSE LOG_DAT[l].void_read[t]
           i == VoidIndex(l, t, n)
           h == IF start THEN <<>> ELSE handed[l][t] IN
       /\ n < MaxHanded /\ n < Unread(l, t)                  \* the caller has counted them
       /\ IF i < Len(Indexed(l))
          THEN /\ LOG_DAT' = [LOG_DAT EXCEPT ![l].void_read[t] = n + 1]
               /\ handed' = [handed EXCEPT ![l][t] = Append(h, Indexed(l)[i + 1])]
          ELSE /\ LOG_DAT' = [LOG_DAT EXCEPT ![l].void_read[t] = n]
               /\ handed' = [handed EXCEPT ![l][t] = h]
    /\ UNCHANGED <<log_bakup, flashing, task, cpu, accepted, sent, lapped, cuts>>

UndoTargetDataVoidRead(l, t) ==
    /\ cpu = None /\ LOG_DAT[l].void_read[t] > 0
    /\ LOG_DAT' = [LOG_DAT EXCEPT ![l].void_read[t] = @ - 1]
    /\ handed' = [handed EXCEPT ![l][t] = Front(@)]
    /\ UNCHANGED <<log_bakup, flashing, task, cpu, accepted, sent, lapped, cuts>>

Wrapped(l, u) == IF l \notin Flashed /\ u >= LOG_SECORNUM[l] THEN u - LOG_SECORNUM[l] ELSE u

\* The reader has sent what was handed over.
TargetVoidReadPointerUpdate(l, t) ==
    /\ Ready(l) /\ LOG_DAT[l].void_read[t] > 0
    /\ LET n == LOG_DAT[l].void_read[t] IN
       IF Unread(l, t) > 0
       THEN /\ LOG_DAT' = [LOG_DAT EXCEPT
                  ![l].unread[t] = Wrapped(l, @ + n),
                  ![l].f_unread[t] = IF l \in Flashed THEN @ ELSE @ - n,
                  ![l].void_read[t] = 0]
            /\ sent' = [sent EXCEPT ![l][t] = Last(handed[l][t])]
       ELSE LOG_DAT' = [LOG_DAT EXCEPT ![l].void_read[t] = 0] /\ UNCHANGED sent
    /\ handed' = [handed EXCEPT ![l][t] = <<>>]
    /\ UNCHANGED <<log_bakup, flashing, task, cpu, accepted, lapped, cuts>>

\* Ope_Log_TargetDataGet with update, by a reader with nothing handed over.
TargetDataGet(l, t) ==
    /\ Ready(l) /\ LOG_DAT[l].void_read[t] = 0
    /\ Unread(l, t) > 0 /\ LOG_DAT[l].unread[t] < Len(Indexed(l))
    /\ LOG_DAT' = [LOG_DAT EXCEPT ![l].unread[t] = Wrapped(l, @ + 1),
                                  ![l].f_unread[t] = IF l \in Flashed THEN @ ELSE @ - 1]
    /\ sent' = [sent EXCEPT ![l][t] = Indexed(l)[LOG_DAT[l].unread[t] + 1]]
    /\ UNCHANGED <<log_bakup, flashing, task, cpu, accepted, handed, lapped, cuts>>

\* The host asks to take every record for sent.
UnreadToRead(l, t) ==
    /\ Ready(l) /\ l \in Skipped
    /\ LOG_DAT' = [LOG_DAT EXCEPT
          ![l].unread[t] = IF l \in Flashed THEN Len(Indexed(l)) ELSE @ + LOG_DAT[l].f_unread[t],
          ![l].f_unread[t] = IF l \in Flashed THEN @ ELSE 0,
          ![l].void_read[t] = 0]
    /\ sent' = [sent EXCEPT ![l][t] = accepted[l] - InHand(l)]
    /\ handed' = [handed EXCEPT ![l][t] = <<>>]
    /\ lapped' = [lapped EXCEPT ![l][t] = FALSE]
    /\ UNCHANGED <<log_bakup, flashing, task, cpu, accepted, cuts>>

-----------------------------------------------------------------------------
\* The power goes, and comes back at start-up.

\* f_recover of a request is back at 0 and the request still set: the sector
\* is written once more.
CutInUnlock == flt.pc = "unlock"
\* secttop has moved on, and recovery moves it again.
CutInRecycle == \E l \in Flashed : req[l] /\ params[l].f_recover = 40 /\ flt.pc # "secttop"
\* Recovery will recycle a sector, and a target has the number of a log with
\* banks of another size.
CutInSize == \E l \in Flashed, t \in Targets :
    /\ req[l] /\ log_mgr[l].sectnum = sectmax[l] /\ LOG_SECORNUM[t] # LOG_SECORNUM[l]
Filling(l) ==
    /\ log_bakup.f_recover \in {1, 10, 20, 2, 3, 30} /\ log_bakup.Lno = l
    /\ log_bakup.stat_count + 1 >= LOG_SECORNUM[l]
\* A bank is full while the other bank's request stands, and recovery takes
\* that request for its own.
CutInOverrun == \E l \in Flashed :
    req[l] /\ Filling(l) /\ params[l].sramlog_kind # log_bakup.stat_kind
\* A bank is full while log 0 has a request: AppServ_IsLogFlashWriting takes
\* the cleared CheckParam for it, and the bank is not written.
CutInFirst == req[0] /\ \E l \in Flashed \ {0} : ~req[l] /\ Filling(l)
\* FLT_WriteLog_Pon has not saved the sector it wrote.
CutInPon == task[Boot].pc \in {"ponfcount", "poninfo", "ponsecttop", "ponsectnum", "ponend"}

Window == [unlock |-> CutInUnlock, recycle |-> CutInRecycle, size |-> CutInSize,
           overrun |-> CutInOverrun, first |-> CutInFirst, pon |-> CutInPon]

PowerCut ==
    /\ cuts < MaxCuts
    /\ \A n \in DOMAIN Window \ CutIn : ~Window[n]
    /\ cuts' = cuts + 1
    /\ task' = [w \in Tasks \cup {Boot} |-> IF w = Boot THEN Frame("bakup", 0, 0, 0) ELSE Idle]
    /\ flt' = [pc |-> "idle", log |-> 0, by |-> FLT]
    /\ CheckParam' = [l \in Flashed |-> 0]     \* cleared, which names log 0
    /\ cpu' = Boot
    /\ UNCHANGED <<ram, log_mgr, req, params, flash, accepted, reading>>

-----------------------------------------------------------------------------
Step(w) ==
    \/ Accept(w) \/ WaitYields(w) \/ WaitEnds(w) \/ Copy(w) \/ CountUnread(w)
    \/ Count(w) \/ Checkpoint(w) \/ Advance(w) \/ Cap(w) \/ Rewind(w)
    \/ Oldest(w) \/ Toggle(w) \/ ClearBank(w) \/ Finish(w) \/ Request(w)

FlashStep ==
    \/ FltStart \/ FltSector \/ FltErase \/ FltWrite \/ FltVerified \/ FltFcount
    \/ FltInfo \/ FltCheckpoint \/ FltSecttop \/ FltUnread \/ FltSectnum
    \/ FltCount \/ FltUnlock

Recover ==
    \/ LogWritePon \/ RequestPon \/ PonLog \/ PonErase \/ PonWrite \/ PonFcount
    \/ PonInfo \/ PonSecttop \/ PonSectnum \/ PonEnd \/ BootDone

Read(l, t) ==
    \/ \E start \in BOOLEAN : TargetDataVoidRead(l, t, start)
    \/ UndoTargetDataVoidRead(l, t) \/ TargetVoidReadPointerUpdate(l, t)
    \/ TargetDataGet(l, t) \/ UnreadToRead(l, t)

Next ==
    \/ \E w \in Tasks : (\E l \in Logs : Log_Write(w, l)) \/ Step(w)
    \/ FlashStep
    \/ Step(Boot) \/ Recover
    \/ \E l \in Logs, t \in Targets : Read(l, t)
    \/ PowerCut

\* A task that has the processor goes on; the scheduler is a round robin, so
\* a task that waits is asked again and again.
Fairness ==
    /\ \A w \in Tasks : SF_vars(Step(w))
    /\ SF_vars(FlashStep)
    /\ WF_vars(Step(Boot) \/ Recover)

Spec == Init /\ [][Next]_vars /\ Fairness

-----------------------------------------------------------------------------
\* Properties

\* The types of the variables (log_record, log_recover, t_FltParam_Log, ...).
TypeOK ==
    /\ \A l \in Logs :
         /\ LOG_DAT[l].kind \in {0, 1}
         /\ LOG_DAT[l].count \in [{0, 1} -> 0 .. LOG_SECORNUM[l] + 1]   \* a full ring counts one over for a moment
         /\ LOG_DAT[l].wtp \in 0 .. LOG_SECORNUM[l]
         /\ LOG_DAT[l].dat \in [{0, 1} -> Bank(l)]
         /\ \A t \in Targets : LOG_DAT[l].unread[t] \in 0 .. accepted[l]
    /\ log_bakup.f_recover \in {0, 1, 2, 3, 4, 10, 20, 30, 31, 311, 321, 323, 40, 41, 42, 43, 44}
    /\ \A l \in Flashed :
         /\ log_mgr[l].secttop \in Sectors(l) /\ log_mgr[l].sectnum \in 0 .. sectmax[l]
         /\ params[l].f_recover \in {0, 1, 2, 3, 40, 41}
         /\ LOG_DAT[l].Fcount \in 0 .. sectmax[l]
    /\ cpu \in Tasks \cup {Boot, FLT, None}

\* What log l holds, oldest first.
Held(l) ==
    IF l \in Flashed \/ LOG_DAT[l].count[0] < LOG_SECORNUM[l] THEN Indexed(l)
    ELSE [i \in 1 .. LOG_SECORNUM[l] |->
             LOG_DAT[l].dat[0][(LOG_DAT[l].wtp + i - 1) % LOG_SECORNUM[l]]]

Capacity(l) == LOG_SECORNUM[l] * (IF l \in Flashed THEN sectmax[l] ELSE 1)

\* Whatever was interrupted, a log that can be read holds the newest records,
\* each once and in the order they were registered: at least as many as its
\* flash sectors (or the ring) hold, and all of them while there were fewer.
\* And with one writer to a log Log_Write never finds its bank full, however
\* long the flash task takes: the branch that throws the bank away (111) is not
\* taken.
StoreHolds ==
    /\ \A l \in Logs : Ready(l) =>
        LET n == accepted[l] - InHand(l)
            k == Len(Held(l)) IN
        /\ k >= IF n < Capacity(l) THEN n ELSE Capacity(l)
        /\ k <= n /\ Held(l) = UpTo(n - k, n)
    /\ \A l \in Flashed : cpu = None /\ task[TaskOf[l]] = Idle =>
        LOG_DAT[l].count[LOG_DAT[l].kind] < LOG_SECORNUM[l]

\* A reader whose unsent records were not overwritten still has before it
\* exactly the records it has not sent, in order.
UnreadRight ==
    \A l \in Logs, t \in Targets : Ready(l) /\ ~lapped[l][t] =>
        LET n == accepted[l] - InHand(l)
            u == LOG_DAT[l].unread[t] IN
        UpTo(sent[l][t], n) =
            IF l \in Flashed THEN SubSeq(Indexed(l), u + 1, Len(Indexed(l)))
            ELSE [i \in 1 .. LOG_DAT[l].f_unread[t] |->
                     LOG_DAT[l].dat[0][(u + i - 1) % LOG_SECORNUM[l]]]

\* What was handed to a reader's transmission follows what it has sent, with
\* nothing left out, so that confirming it confirms just those records.
HandedInOrder ==
    \A l \in Logs, t \in Targets : ~lapped[l][t] =>
        handed[l][t] = UpTo(sent[l][t], sent[l][t] + LOG_DAT[l].void_read[t])

\* The flash task writes a bank nobody adds records to.
BankAtRest ==
    [][\A l \in Flashed : req[l] /\ req'[l] =>
          LOG_DAT'[l].dat[params[l].sramlog_kind] = LOG_DAT[l].dat[params[l].sramlog_kind]]_vars

\* Log_Write returns and requests to the flash task are done, though each waits
\* for others.
WaitsEnd ==
    /\ \A w \in Tasks : task[w] # Idle ~> task[w] = Idle
    /\ \A l \in Flashed : req[l] ~> ~req[l]

\* Start-up comes to an end, whatever the power cut left.
StartsUp == cpu = Boot ~> cpu = None
=============================================================================
