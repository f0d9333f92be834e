--------------------------- MODULE LogStoreProofs ---------------------------
(***************************************************************************)
(* Proof that the flash task writes a bank nobody adds records to, for     *)
(* every number and size of logs, with any number of power cuts at any     *)
(* moment (BankAtRest).                                                    *)
(*                                                                         *)
(* A bank belongs to the flash task while its log's request stands, and    *)
(* is written to by whoever runs Log_Write.  The two are told apart by     *)
(* the bank a record was begun for (Kind) and the one the request names    *)
(* (sramlog_kind): after a request they are the same until the task has    *)
(* turned to the other bank, and it copies nothing in between (RequestInv).*)
(* Start-up has no memory of that, only log_bakup.  BakupInv says that the *)
(* bank saved there is free of any request for as long as f_recover says   *)
(* that the record is still to be copied, and CopyInv that start-up took   *)
(* it over.                                                                *)
(***************************************************************************)
EXTENDS LogStore, WellFoundedInduction, TLAPS

-----------------------------------------------------------------------------
Up == task[Boot].pc = "idle"
Workers == Tasks \cup {Boot}
Doing(l, P) == task[TaskOf[l]].Lno = l /\ task[TaskOf[l]].pc \in P

\* Where a record is not yet in its bank or not yet marked so; where the bank
\* the task began with is still the bank in use.
Early   == {"accept", "wait10", "copy", "unread", "f2"}
OneTurn == Early \cup {"count", "f3", "f30", "wait30", "request", "f31", "toggle"}
Copying == {1, 10, 20}

IsLog(r) ==
    /\ r = [kind |-> r.kind, count |-> r.count, wtp |-> r.wtp, dat |-> r.dat, Fcount |-> r.Fcount,
            unread |-> r.unread, f_unread |-> r.f_unread, void_read |-> r.void_read]
    /\ r.kind \in {0, 1} /\ r.dat = [k \in {0, 1} |-> r.dat[k]]
IsFrame(f) ==
    /\ f = [pc |-> f.pc, Lno |-> f.Lno, dat |-> f.dat, kind |-> f.kind]
    /\ f.Lno \in Logs /\ f.kind \in {0, 1}
IsParam(p) ==
    /\ p = [record_num |-> p.record_num, sramlog_kind |-> p.sramlog_kind, stat_Fcount |-> p.stat_Fcount,
            stat_sectnum |-> p.stat_sectnum, get_sector |-> p.get_sector, f_recover |-> p.f_recover]
    /\ p.sramlog_kind \in {0, 1} /\ p.f_recover \in {0, 1, 2, 3, 40, 41}

RamShape == LOG_DAT = [l \in Logs |-> LOG_DAT[l]] /\ \A l \in Logs : IsLog(LOG_DAT[l])
ParShape == params = [l \in Flashed |-> params[l]] /\ \A l \in Flashed : IsParam(params[l])
TaskShape == task = [w \in Workers |-> task[w]] /\ \A w \in Workers : IsFrame(task[w])
OtherShape ==
    /\ req \in [Flashed -> BOOLEAN]
    /\ CheckParam = [l \in Flashed |-> CheckParam[l]]
    /\ flt = [pc |-> flt.pc, log |-> flt.log, by |-> flt.by]
    /\ log_bakup = [f_recover |-> log_bakup.f_recover, Lno |-> log_bakup.Lno, dat |-> log_bakup.dat,
                    stat_kind |-> log_bakup.stat_kind, stat_wtp |-> log_bakup.stat_wtp,
                    stat_count |-> log_bakup.stat_count, f_unread |-> log_bakup.f_unread]
    /\ log_bakup.Lno \in Logs /\ log_bakup.stat_kind \in {0, 1}
Shape == RamShape /\ ParShape /\ TaskShape /\ OtherShape

\* During start-up no task runs, and flt_WriteLog only for start-up.
BootInv ==
    ~ Up => /\ cpu \in {Boot, FLT} /\ (flt.pc # "idle" => flt.by = Boot /\ cpu = FLT)
            /\ task[Boot].pc \notin {"wait10", "wait30", "wait31"}
            /\ \A w \in Tasks : task[w] = Idle

FrameInv ==
    /\ \A w \in Tasks : task[w].pc # "idle" => TaskOf[Lno(w)] = w
    /\ \A w \in Tasks : task[w].pc \in OneTurn => Kind(w) = LOG_DAT[Lno(w)].kind
    /\ \A w \in Workers : /\ task[w].pc = "toggle" => Lno(w) \notin OneBank
                          /\ task[w].pc \in {"wait10", "wait31"} => Lno(w) \in OneBank
    /\ \A l \in OneBank : LOG_DAT[l].kind = 0

\* A request that stands is for the bank not in use, or its task is about to
\* turn to the other one; the task of a log with one bank waits for its end.
RequestInv ==
    Up => \A l \in Flashed :
        /\ CheckParam[l] \in {None, l}
        /\ req[l] => CheckParam[l] = l
        /\ req[l] /\ l \in OneBank => Doing(l, {"f31", "wait31"})
        /\ req[l] /\ l \notin OneBank =>
              params[l].sramlog_kind # LOG_DAT[l].kind \/ Doing(l, {"f31", "toggle"})
        /\ Doing(l, {"f31", "toggle"}) /\ req[l] => params[l].sramlog_kind = LOG_DAT[l].kind

\* The bank of a record still to be copied has no request, and the record is
\* that of the task that runs.
BakupInv ==
    log_bakup.f_recover \in Copying =>
        /\ cpu \in Workers
        /\ \/ cpu = Boot /\ task[Boot].pc = "bakup"
           \/ /\ task[cpu].pc \in Early
              /\ Lno(cpu) = log_bakup.Lno /\ Kind(cpu) = log_bakup.stat_kind
        /\ log_bakup.Lno \in Flashed /\ req[log_bakup.Lno] =>
              params[log_bakup.Lno].sramlog_kind # log_bakup.stat_kind
AcceptInv == \A w \in Workers : task[w].pc = "accept" => cpu = w /\ log_bakup.f_recover = 1

\* The bank start-up copies into has no request.
CopyInv ==
    task[Boot].pc \in {"accept", "copy"} /\ Lno(Boot) \in Flashed /\ req[Lno(Boot)] =>
        params[Lno(Boot)].sramlog_kind # Kind(Boot)

Safe == BootInv /\ FrameInv /\ RequestInv /\ BakupInv /\ AcceptInv /\ CopyInv
Inv  == Shape /\ Safe

BanksKept == \A l \in Logs : LOG_DAT'[l].kind = LOG_DAT[l].kind /\ LOG_DAT'[l].dat = LOG_DAT[l].dat
KindsKept == \A l \in Logs : LOG_DAT'[l].kind = LOG_DAT[l].kind
ParKept   == \A l \in Flashed : params'[l].sramlog_kind = params[l].sramlog_kind
ReqKept   == \A l \in Flashed : req'[l] => req[l]

-----------------------------------------------------------------------------
(* What the steps do to the records of a log: all but Copy leave the banks *)
(* alone, and all but Accept and Toggle the choice between them.           *)

LEMMA LogSet ==
    ASSUME RamShape, NEW l, NEW s, l \in Logs => IsLog(s) /\ s.kind = LOG_DAT[l].kind /\ s.dat = LOG_DAT[l].dat,
           LOG_DAT' = [LOG_DAT EXCEPT ![l] = s]
    PROVE  RamShape' /\ BanksKept
<1>1. LOG_DAT' = [m \in Logs |-> IF m = l THEN s ELSE LOG_DAT[m]]
  BY DEF RamShape
<1> QED
  BY <1>1 DEF RamShape, BanksKept

LEMMA SetCount ==
    ASSUME RamShape, NEW l, NEW x, LOG_DAT' = [LOG_DAT EXCEPT ![l].count = x]
    PROVE  RamShape' /\ BanksKept
<1> DEFINE s == [LOG_DAT[l] EXCEPT !.count = x]
<1>1. LOG_DAT' = [LOG_DAT EXCEPT ![l] = s]
  OBVIOUS
<1>2. l \in Logs => IsLog(s) /\ s.kind = LOG_DAT[l].kind /\ s.dat = LOG_DAT[l].dat
  BY DEF RamShape, IsLog
<1> HIDE DEF s
<1> QED
  BY <1>1, <1>2, LogSet

LEMMA SetWtp ==
    ASSUME RamShape, NEW l, NEW x, LOG_DAT' = [LOG_DAT EXCEPT ![l].wtp = x]
    PROVE  RamShape' /\ BanksKept
<1> DEFINE s == [LOG_DAT[l] EXCEPT !.wtp = x]
<1>1. LOG_DAT' = [LOG_DAT EXCEPT ![l] = s]
  OBVIOUS
<1>2. l \in Logs => IsLog(s) /\ s.kind = LOG_DAT[l].kind /\ s.dat = LOG_DAT[l].dat
  BY DEF RamShape, IsLog
<1> HIDE DEF s
<1> QED
  BY <1>1, <1>2, LogSet

LEMMA SetFcount ==
    ASSUME RamShape, NEW l, NEW x, LOG_DAT' = [LOG_DAT EXCEPT ![l].Fcount = x]
    PROVE  RamShape' /\ BanksKept
<1> DEFINE s == [LOG_DAT[l] EXCEPT !.Fcount = x]
<1>1. LOG_DAT' = [LOG_DAT EXCEPT ![l] = s]
  OBVIOUS
<1>2. l \in Logs => IsLog(s) /\ s.kind = LOG_DAT[l].kind /\ s.dat = LOG_DAT[l].dat
  BY DEF RamShape, IsLog
<1> HIDE DEF s
<1> QED
  BY <1>1, <1>2, LogSet

LEMMA SetUnread ==
    ASSUME RamShape, NEW l, NEW x, LOG_DAT' = [LOG_DAT EXCEPT ![l].unread = x]
    PROVE  RamShape' /\ BanksKept
<1> DEFINE s == [LOG_DAT[l] EXCEPT !.unread = x]
<1>1. LOG_DAT' = [LOG_DAT EXCEPT ![l] = s]
  OBVIOUS
<1>2. l \in Logs => IsLog(s) /\ s.kind = LOG_DAT[l].kind /\ s.dat = LOG_DAT[l].dat
  BY DEF RamShape, IsLog
<1> HIDE DEF s
<1> QED
  BY <1>1, <1>2, LogSet

LEMMA SetFUnread ==
    ASSUME RamShape, NEW l, NEW x, LOG_DAT' = [LOG_DAT EXCEPT ![l].f_unread = x]
    PROVE  RamShape' /\ BanksKept
<1> DEFINE s == [LOG_DAT[l] EXCEPT !.f_unread = x]
<1>1. LOG_DAT' = [LOG_DAT EXCEPT ![l] = s]
  OBVIOUS
<1>2. l \in Logs => IsLog(s) /\ s.kind = LOG_DAT[l].kind /\ s.dat = LOG_DAT[l].dat
  BY DEF RamShape, IsLog
<1> HIDE DEF s
<1> QED
  BY <1>1, <1>2, LogSet

LEMMA SetVoidRead ==
    ASSUME RamShape, NEW l, NEW x, LOG_DAT' = [LOG_DAT EXCEPT ![l].void_read = x]
    PROVE  RamShape' /\ BanksKept
<1> DEFINE s == [LOG_DAT[l] EXCEPT !.void_read = x]
<1>1. LOG_DAT' = [LOG_DAT EXCEPT ![l] = s]
  OBVIOUS
<1>2. l \in Logs => IsLog(s) /\ s.kind = LOG_DAT[l].kind /\ s.dat = LOG_DAT[l].dat
  BY DEF RamShape, IsLog
<1> HIDE DEF s
<1> QED
  BY <1>1, <1>2, LogSet

LEMMA FieldKept ==
    ASSUME NEW r, IsLog(r), NEW x
    PROVE  /\ LET s == [r EXCEPT !.count = x] IN IsLog(s) /\ s.kind = r.kind /\ s.dat = r.dat
           /\ LET s == [r EXCEPT !.wtp = x] IN IsLog(s) /\ s.kind = r.kind /\ s.dat = r.dat
           /\ LET s == [r EXCEPT !.unread = x] IN IsLog(s) /\ s.kind = r.kind /\ s.dat = r.dat
           /\ LET s == [r EXCEPT !.f_unread = x] IN IsLog(s) /\ s.kind = r.kind /\ s.dat = r.dat
           /\ LET s == [r EXCEPT !.void_read = x] IN IsLog(s) /\ s.kind = r.kind /\ s.dat = r.dat
BY DEF IsLog

LEMMA SetClear ==
    ASSUME RamShape, NEW l, NEW x, NEW y, LOG_DAT' = [LOG_DAT EXCEPT ![l].count = x, ![l].wtp = y]
    PROVE  RamShape' /\ BanksKept
<1> DEFINE a == [LOG_DAT[l] EXCEPT !.count = x]
           s == [a EXCEPT !.wtp = y]
<1>1. LOG_DAT' = [LOG_DAT EXCEPT ![l] = s]
  OBVIOUS
<1>2. ASSUME l \in Logs
      PROVE  IsLog(s) /\ s.kind = LOG_DAT[l].kind /\ s.dat = LOG_DAT[l].dat
  <2>1. IsLog(LOG_DAT[l])
    BY <1>2 DEF RamShape
  <2>2. IsLog(a) /\ a.kind = LOG_DAT[l].kind /\ a.dat = LOG_DAT[l].dat
    BY <2>1, FieldKept
  <2>3. IsLog(s) /\ s.kind = a.kind /\ s.dat = a.dat
    <3> HIDE DEF a
    <3> QED
      BY <2>2, FieldKept
  <2> HIDE DEF a, s
  <2> QED
    BY <2>2, <2>3
<1> HIDE DEF s
<1> QED
  BY <1>1, <1>2, LogSet

LEMMA SetRead ==
    ASSUME RamShape, NEW l, NEW x, NEW y, LOG_DAT' = [LOG_DAT EXCEPT ![l].unread = x, ![l].f_unread = y]
    PROVE  RamShape' /\ BanksKept
<1> DEFINE a == [LOG_DAT[l] EXCEPT !.unread = x]
           s == [a EXCEPT !.f_unread = y]
<1>1. LOG_DAT' = [LOG_DAT EXCEPT ![l] = s]
  OBVIOUS
<1>2. ASSUME l \in Logs
      PROVE  IsLog(s) /\ s.kind = LOG_DAT[l].kind /\ s.dat = LOG_DAT[l].dat
  <2>1. IsLog(LOG_DAT[l])
    BY <1>2 DEF RamShape
  <2>2. IsLog(a) /\ a.kind = LOG_DAT[l].kind /\ a.dat = LOG_DAT[l].dat
    BY <2>1, FieldKept
  <2>3. IsLog(s) /\ s.kind = a.kind /\ s.dat = a.dat
    <3> HIDE DEF a
    <3> QED
      BY <2>2, FieldKept
  <2> HIDE DEF a, s
  <2> QED
    BY <2>2, <2>3
<1> HIDE DEF s
<1> QED
  BY <1>1, <1>2, LogSet

LEMMA SetHanded ==
    ASSUME RamShape, NEW l, NEW x, NEW y, NEW z,
           LOG_DAT' = [LOG_DAT EXCEPT ![l].unread = x, ![l].f_unread = y, ![l].void_read = z]
    PROVE  RamShape' /\ BanksKept
<1> DEFINE a == [LOG_DAT[l] EXCEPT !.unread = x]
           b == [a EXCEPT !.f_unread = y]
           s == [b EXCEPT !.void_read = z]
<1>1. LOG_DAT' = [LOG_DAT EXCEPT ![l] = s]
  OBVIOUS
<1>2. ASSUME l \in Logs
      PROVE  IsLog(s) /\ s.kind = LOG_DAT[l].kind /\ s.dat = LOG_DAT[l].dat
  <2>1. IsLog(LOG_DAT[l])
    BY <1>2 DEF RamShape
  <2>2. IsLog(a) /\ a.kind = LOG_DAT[l].kind /\ a.dat = LOG_DAT[l].dat
    BY <2>1, FieldKept
  <2>3. IsLog(b) /\ b.kind = a.kind /\ b.dat = a.dat
    <3> HIDE DEF a
    <3> QED
      BY <2>2, FieldKept
  <2>4. IsLog(s) /\ s.kind = b.kind /\ s.dat = b.dat
    <3> HIDE DEF a, b
    <3> QED
      BY <2>3, FieldKept
  <2> HIDE DEF a, b, s
  <2> QED
    BY <2>2, <2>3, <2>4
<1> HIDE DEF s
<1> QED
  BY <1>1, <1>2, LogSet

LEMMA NoneSet ==
    ASSUME RamShape, UNCHANGED LOG_DAT
    PROVE  RamShape' /\ BanksKept
BY DEF RamShape, BanksKept

LEMMA CountUnreadKeeps ==
    ASSUME NEW w, RamShape, CountUnread(w)
    PROVE  RamShape' /\ BanksKept
BY SetFUnread DEF CountUnread

LEMMA CountKeeps ==
    ASSUME NEW w, RamShape, Count(w)
    PROVE  RamShape' /\ BanksKept
BY SetCount DEF Count

LEMMA AdvanceKeeps ==
    ASSUME NEW w, RamShape, Advance(w)
    PROVE  RamShape' /\ BanksKept
BY SetWtp DEF Advance

LEMMA CapKeeps ==
    ASSUME NEW w, RamShape, Cap(w)
    PROVE  RamShape' /\ BanksKept
BY SetCount DEF Cap

LEMMA RewindKeeps ==
    ASSUME NEW w, RamShape, Rewind(w)
    PROVE  RamShape' /\ BanksKept
BY SetWtp DEF Rewind

LEMMA OldestKeeps ==
    ASSUME NEW w, RamShape, Oldest(w)
    PROVE  RamShape' /\ BanksKept
BY SetUnread DEF Oldest

LEMMA ClearBankKeeps ==
    ASSUME NEW w, RamShape, ClearBank(w)
    PROVE  RamShape' /\ BanksKept
BY SetClear DEF ClearBank

LEMMA FltFcountKeeps ==
    ASSUME RamShape, FltFcount
    PROVE  RamShape' /\ BanksKept
BY SetFcount, NoneSet DEF FltFcount

LEMMA FltUnreadKeeps ==
    ASSUME RamShape, FltUnread
    PROVE  RamShape' /\ BanksKept
BY SetUnread DEF FltUnread

LEMMA FltCountKeeps ==
    ASSUME RamShape, FltCount
    PROVE  RamShape' /\ BanksKept
BY SetCount DEF FltCount

LEMMA PonFcountKeeps ==
    ASSUME RamShape, PonFcount
    PROVE  RamShape' /\ BanksKept
BY SetFcount, NoneSet DEF PonFcount

LEMMA PonSecttopKeeps ==
    ASSUME RamShape, PonSecttop
    PROVE  RamShape' /\ BanksKept
BY SetUnread DEF PonSecttop

LEMMA PonEndKeeps ==
    ASSUME RamShape, PonEnd
    PROVE  RamShape' /\ BanksKept
BY SetCount DEF PonEnd

LEMMA VoidReadKeeps ==
    ASSUME NEW l, NEW t, NEW start, RamShape, TargetDataVoidRead(l, t, start)
    PROVE  RamShape' /\ BanksKept
BY SetVoidRead DEF TargetDataVoidRead

LEMMA UndoKeeps ==
    ASSUME NEW l, NEW t, RamShape, UndoTargetDataVoidRead(l, t)
    PROVE  RamShape' /\ BanksKept
BY SetVoidRead DEF UndoTargetDataVoidRead

LEMMA UpdateKeeps ==
    ASSUME NEW l, NEW t, RamShape, TargetVoidReadPointerUpdate(l, t)
    PROVE  RamShape' /\ BanksKept
<1>1. CASE Unread(l, t) > 0
  <2> DEFINE n == LOG_DAT[l].void_read[t]
             x == [LOG_DAT[l].unread EXCEPT ![t] = Wrapped(l, @ + n)]
             y == [LOG_DAT[l].f_unread EXCEPT ![t] = IF l \in Flashed THEN @ ELSE @ - n]
             z == [LOG_DAT[l].void_read EXCEPT ![t] = 0]
  <2>1. LOG_DAT' = [LOG_DAT EXCEPT ![l].unread = x, ![l].f_unread = y, ![l].void_read = z]
    <3>1. LOG_DAT' = [LOG_DAT EXCEPT ![l].unread[t] = Wrapped(l, @ + n),
                                     ![l].f_unread[t] = IF l \in Flashed THEN @ ELSE @ - n,
                                     ![l].void_read[t] = 0]
      BY <1>1, Zenon DEF TargetVoidReadPointerUpdate
    <3> QED
      BY <3>1
  <2> HIDE DEF x, y, z
  <2> QED
    BY <2>1, SetHanded
<1>2. CASE ~ (Unread(l, t) > 0)
  BY <1>2, SetVoidRead DEF TargetVoidReadPointerUpdate
<1> QED
  BY <1>1, <1>2

LEMMA DataGetKeeps ==
    ASSUME NEW l, NEW t, RamShape, TargetDataGet(l, t)
    PROVE  RamShape' /\ BanksKept
BY SetRead DEF TargetDataGet

LEMMA SkipKeeps ==
    ASSUME NEW l, NEW t, RamShape, UnreadToRead(l, t)
    PROVE  RamShape' /\ BanksKept
BY SetHanded DEF UnreadToRead

LEMMA SetKind ==
    ASSUME RamShape, NEW l \in Logs, NEW x \in {0, 1}, LOG_DAT' = [LOG_DAT EXCEPT ![l].kind = x]
    PROVE  /\ RamShape'
           /\ LOG_DAT'[l].kind = x
           /\ \A m \in Logs : LOG_DAT'[m].dat = LOG_DAT[m].dat /\ (m # l => LOG_DAT'[m].kind = LOG_DAT[m].kind)
<1> DEFINE s == [LOG_DAT[l] EXCEPT !.kind = x]
<1>1. LOG_DAT' = [LOG_DAT EXCEPT ![l] = s]
  OBVIOUS
<1>2. IsLog(s) /\ s.kind = x /\ s.dat = LOG_DAT[l].dat
  BY DEF RamShape, IsLog
<1> HIDE DEF s
<1>3. LOG_DAT' = [m \in Logs |-> IF m = l THEN s ELSE LOG_DAT[m]]
  BY <1>1 DEF RamShape
<1> QED
  BY <1>2, <1>3 DEF RamShape

LEMMA SetDat ==
    ASSUME RamShape, NEW l \in Logs, NEW j \in {0, 1}, NEW x, LOG_DAT' = [LOG_DAT EXCEPT ![l].dat[j] = x]
    PROVE  /\ RamShape' /\ KindsKept
           /\ \A m \in Logs, k \in {0, 1} : (m # l \/ k # j) => LOG_DAT'[m].dat[k] = LOG_DAT[m].dat[k]
<1> DEFINE s == [LOG_DAT[l] EXCEPT !.dat = [@ EXCEPT ![j] = x]]
<1>1. LOG_DAT' = [LOG_DAT EXCEPT ![l] = s]
  OBVIOUS
<1>2. IsLog(s) /\ s.kind = LOG_DAT[l].kind /\ s.dat = [LOG_DAT[l].dat EXCEPT ![j] = x]
  <2> DEFINE d == [LOG_DAT[l].dat EXCEPT ![j] = x]
  <2>1. d = [k \in {0, 1} |-> d[k]]
    BY DEF RamShape, IsLog
  <2>2. IsLog(LOG_DAT[l]) /\ s = [LOG_DAT[l] EXCEPT !.dat = d]
    BY DEF RamShape
  <2> HIDE DEF d, s
  <2> QED
    <3>1. IsLog(s) /\ s.kind = LOG_DAT[l].kind /\ s.dat = d
      BY <2>1, <2>2 DEF IsLog
    <3> QED
      BY <3>1 DEF d
<1>3. \A k \in {0, 1} : k # j => s.dat[k] = LOG_DAT[l].dat[k]
  BY <1>2 DEF RamShape, IsLog
<1> HIDE DEF s
<1>4. LOG_DAT' = [m \in Logs |-> IF m = l THEN s ELSE LOG_DAT[m]]
  BY <1>1 DEF RamShape
<1> QED
  BY <1>2, <1>3, <1>4 DEF RamShape, KindsKept

-----------------------------------------------------------------------------
(* What the steps do to a request, and to the place of a task. *)

LEMMA ParSet ==
    ASSUME ParShape, NEW l, NEW s, l \in Flashed => IsParam(s) /\ s.sramlog_kind = params[l].sramlog_kind,
           params' = [params EXCEPT ![l] = s]
    PROVE  ParShape' /\ ParKept
<1>1. params' = [m \in Flashed |-> IF m = l THEN s ELSE params[m]]
  BY DEF ParShape
<1> QED
  BY <1>1 DEF ParShape, ParKept

LEMMA ParNone == ASSUME ParShape, UNCHANGED params PROVE ParShape' /\ ParKept
BY DEF ParShape, ParKept

LEMMA SetMark ==
    ASSUME ParShape, NEW l, NEW x \in {0, 1, 2, 3, 40, 41}, params' = [params EXCEPT ![l].f_recover = x]
    PROVE  ParShape' /\ ParKept
<1> DEFINE s == [params[l] EXCEPT !.f_recover = x]
<1>1. params' = [params EXCEPT ![l] = s]
  OBVIOUS
<1>2. l \in Flashed => IsParam(s) /\ s.sramlog_kind = params[l].sramlog_kind
  BY DEF ParShape, IsParam
<1> HIDE DEF s
<1> QED
  BY <1>1, <1>2, ParSet

LEMMA SetSector ==
    ASSUME ParShape, NEW l, NEW x, params' = [params EXCEPT ![l].get_sector = x]
    PROVE  ParShape' /\ ParKept
<1> DEFINE s == [params[l] EXCEPT !.get_sector = x]
<1>1. params' = [params EXCEPT ![l] = s]
  OBVIOUS
<1>2. l \in Flashed => IsParam(s) /\ s.sramlog_kind = params[l].sramlog_kind
  BY DEF ParShape, IsParam
<1> HIDE DEF s
<1> QED
  BY <1>1, <1>2, ParSet

LEMMA ParFields ==
    ASSUME NEW p, IsParam(p), NEW x
    PROVE  /\ LET s == [p EXCEPT !.stat_Fcount = x] IN IsParam(s) /\ s.sramlog_kind = p.sramlog_kind
           /\ LET s == [p EXCEPT !.stat_sectnum = x] IN IsParam(s) /\ s.sramlog_kind = p.sramlog_kind
           /\ LET s == [p EXCEPT !.get_sector = x] IN IsParam(s) /\ s.sramlog_kind = p.sramlog_kind
           /\ LET s == [p EXCEPT !.f_recover = 0] IN IsParam(s) /\ s.sramlog_kind = p.sramlog_kind
           /\ LET s == [p EXCEPT !.f_recover = 1] IN IsParam(s) /\ s.sramlog_kind = p.sramlog_kind
           /\ LET s == [p EXCEPT !.record_num = x] IN IsParam(s) /\ s.sramlog_kind = p.sramlog_kind
BY DEF IsParam

LEMMA SetStarted ==
    ASSUME ParShape, NEW l, Started(l)
    PROVE  ParShape' /\ ParKept
<1> DEFINE a == [params[l] EXCEPT !.stat_Fcount = LOG_DAT[l].Fcount]
           b == [a EXCEPT !.stat_sectnum = log_mgr[l].sectnum]
           s == [b EXCEPT !.f_recover = 1]
<1>1. params' = [params EXCEPT ![l] = s]
  BY DEF Started
<1>2. ASSUME l \in Flashed
      PROVE  IsParam(s) /\ s.sramlog_kind = params[l].sramlog_kind
  <2>1. IsParam(params[l])
    BY <1>2 DEF ParShape
  <2>2. IsParam(a) /\ a.sramlog_kind = params[l].sramlog_kind
    BY <2>1, ParFields
  <2> HIDE DEF a
  <2>3. IsParam(b) /\ b.sramlog_kind = a.sramlog_kind
    BY <2>2, ParFields
  <2> HIDE DEF b
  <2>4. IsParam(s) /\ s.sramlog_kind = b.sramlog_kind
    BY <2>3, ParFields
  <2> HIDE DEF s
  <2> QED
    BY <2>2, <2>3, <2>4
<1> HIDE DEF s
<1> QED
  BY <1>1, <1>2, ParSet

\* PonEnd and BootDone clear what FLT_WriteLog_Pon went by.
LEMMA ClearedIs ==
    ASSUME NEW p, IsParam(p),
           NEW s, s = [p EXCEPT !.f_recover = 0, !.get_sector = 0, !.stat_Fcount = 0, !.stat_sectnum = 0]
    PROVE  IsParam(s) /\ s.sramlog_kind = p.sramlog_kind
<1> DEFINE a == [p EXCEPT !.f_recover = 0]
           b == [a EXCEPT !.get_sector = 0]
           c == [b EXCEPT !.stat_Fcount = 0]
           d == [c EXCEPT !.stat_sectnum = 0]
<1>1. s = d
  OBVIOUS
<1>2. IsParam(a) /\ a.sramlog_kind = p.sramlog_kind
  BY ParFields
<1> HIDE DEF a
<1>3. IsParam(b) /\ b.sramlog_kind = a.sramlog_kind
  BY <1>2, ParFields
<1> HIDE DEF b
<1>4. IsParam(c) /\ c.sramlog_kind = b.sramlog_kind
  BY <1>3, ParFields
<1> HIDE DEF c
<1>5. IsParam(d) /\ d.sramlog_kind = c.sramlog_kind
  BY <1>4, ParFields
<1> HIDE DEF d
<1> QED
  BY <1>1, <1>2, <1>3, <1>4, <1>5

LEMMA SetCleared ==
    ASSUME ParShape, NEW l,
           params' = [params EXCEPT ![l].f_recover = 0, ![l].get_sector = 0,
                                    ![l].stat_Fcount = 0, ![l].stat_sectnum = 0]
    PROVE  ParShape' /\ ParKept
<1> DEFINE s == [params[l] EXCEPT !.f_recover = 0, !.get_sector = 0, !.stat_Fcount = 0, !.stat_sectnum = 0]
<1>1. params' = [params EXCEPT ![l] = s]
  OBVIOUS
<1>2. l \in Flashed => IsParam(s) /\ s.sramlog_kind = params[l].sramlog_kind
  <2>1. l \in Flashed => IsParam(params[l])
    BY DEF ParShape
  <2>2. s = [params[l] EXCEPT !.f_recover = 0, !.get_sector = 0, !.stat_Fcount = 0, !.stat_sectnum = 0]
    OBVIOUS
  <2> HIDE DEF s
  <2> QED
    BY <2>1, <2>2, ClearedIs
<1> HIDE DEF s
<1> QED
  BY <1>1, <1>2, ParSet

\* FLT_WriteLog names the bank in use.
LEMMA RequestedIs ==
    ASSUME Shape, NEW l \in Logs, Requested(l)
    PROVE  /\ ParShape' /\ req' \in [Flashed -> BOOLEAN]
           /\ l \in Flashed => req'[l] /\ params'[l].sramlog_kind = LOG_DAT[l].kind
           /\ \A m \in Flashed \ {l} : req'[m] = req[m] /\ params'[m].sramlog_kind = params[m].sramlog_kind
<1> DEFINE k == LOG_DAT[l].kind
           n == LOG_DAT[l].count[k]
           a == [params[l] EXCEPT !.record_num = n]
           s == [a EXCEPT !.sramlog_kind = k]
<1>1. params' = [params EXCEPT ![l] = s] /\ req' = [req EXCEPT ![l] = TRUE]
  BY DEF Requested
<1>2. k \in {0, 1}
  BY DEF Shape, RamShape, IsLog
<1>3. ASSUME l \in Flashed
      PROVE  IsParam(s) /\ s.sramlog_kind = k
  <2>1. IsParam(params[l])
    BY <1>3 DEF Shape, ParShape
  <2> HIDE DEF k, n
  <2>2. IsParam(a)
    BY <2>1, ParFields
  <2> HIDE DEF a
  <2> QED
    BY <1>2, <2>2 DEF IsParam
<1> HIDE DEF s
<1>4. params' = [m \in Flashed |-> IF m = l THEN s ELSE params[m]]
  BY <1>1 DEF Shape, ParShape
<1>5. ParShape'
  BY <1>3, <1>4 DEF Shape, ParShape
<1>6. /\ req' \in [Flashed -> BOOLEAN] /\ (l \in Flashed => req'[l])
      /\ \A m \in Flashed \ {l} : req'[m] = req[m]
  BY <1>1 DEF Shape, OtherShape
<1> QED
  BY <1>3, <1>4, <1>5, <1>6

LEMMA TaskSet ==
    ASSUME TaskShape, NEW w \in Workers, NEW f, IsFrame(f), task' = [task EXCEPT ![w] = f]
    PROVE  TaskShape' /\ task'[w] = f /\ \A u \in Workers \ {w} : task'[u] = task[u]
<1>1. task' = [u \in Workers |-> IF u = w THEN f ELSE task[u]]
  BY DEF TaskShape
<1> QED
  BY <1>1 DEF TaskShape

LEMMA GotoIs ==
    ASSUME TaskShape, NEW w \in Workers, NEW p, Goto(w, p)
    PROVE  /\ TaskShape'
           /\ task'[w].pc = p /\ task'[w].Lno = task[w].Lno /\ task'[w].kind = task[w].kind
           /\ \A u \in Workers \ {w} : task'[u] = task[u]
<1> DEFINE f == [task[w] EXCEPT !.pc = p]
<1>1. task' = [task EXCEPT ![w] = f]
  BY DEF Goto
<1>2. IsFrame(f) /\ f.pc = p /\ f.Lno = task[w].Lno /\ f.kind = task[w].kind
  BY DEF TaskShape, IsFrame
<1> HIDE DEF f
<1> QED
  BY <1>1, <1>2, TaskSet

LEMMA FrameIs ==
    ASSUME NEW p, NEW l \in Logs, NEW d, NEW k \in {0, 1}
    PROVE  LET f == Frame(p, l, d, k) IN IsFrame(f) /\ f.pc = p /\ f.Lno = l /\ f.kind = k
BY DEF Frame, IsFrame

LEMMA MarkIs ==
    ASSUME OtherShape, NEW x, log_bakup' = [log_bakup EXCEPT !.f_recover = x], UNCHANGED <<req, CheckParam, flt>>
    PROVE  /\ OtherShape'
           /\ log_bakup'.f_recover = x
           /\ log_bakup'.Lno = log_bakup.Lno /\ log_bakup'.stat_kind = log_bakup.stat_kind
BY DEF OtherShape

-----------------------------------------------------------------------------
(* A step of the flash task or of a reader, beside Log_Write. *)

Beside ==
    /\ BanksKept /\ ParKept /\ ReqKept
    /\ UNCHANGED <<task, log_bakup, CheckParam>>
    /\ cpu \notin Workers
    /\ BootInv'

LEMMA BesideKeeps ==
    ASSUME LogAssumption, Inv, Shape', Beside
    PROVE  Inv'
<1>1. FrameInv'
  <2>1. \A w \in Workers : task[w].Lno \in Logs
    BY DEF Inv, Shape, TaskShape, IsFrame
  <2> QED
    BY <2>1 DEF LogAssumption, Inv, Safe, FrameInv, Beside, BanksKept, Kind, Lno, Workers
<1>2. RequestInv'
  BY DEF LogAssumption, Inv, Safe, RequestInv, Beside, BanksKept, ParKept, ReqKept, Doing, Up
<1>3. BakupInv' /\ AcceptInv'
  BY DEF Inv, Safe, BakupInv, AcceptInv, Beside
<1>4. CopyInv'
  BY DEF Inv, Safe, CopyInv, Beside, ParKept, ReqKept, Kind, Lno
<1> QED
  BY <1>1, <1>2, <1>3, <1>4 DEF Inv, Safe, Beside

-----------------------------------------------------------------------------
(* A step of Log_Write or of start-up that goes on to p, after the copy, or *)
(* from the copy.                                                           *)

Works(w, p) ==
    /\ cpu = w /\ cpu' = w
    /\ KindsKept /\ ParKept /\ ReqKept
    /\ UNCHANGED <<CheckParam, flt>>
    /\ Goto(w, p)
    /\ \/ log_bakup' = log_bakup
       \/ /\ log_bakup'.f_recover \notin Copying
          /\ log_bakup'.Lno = log_bakup.Lno /\ log_bakup'.stat_kind = log_bakup.stat_kind

\* From where to where: the marks end the copy, a task of Log_Write turns to
\* the other bank only after f31, and none of these steps begins anything.
Leads(w, p) ==
    /\ task[w].pc \notin {"idle", "accept", "wait10", "wait31", "toggle", "bakup"}
    /\ p \notin {"idle", "accept", "wait10", "copy", "bakup"}
    /\ task[w].pc \in Early => p \in Early \/ log_bakup'.f_recover \notin Copying
    /\ p \in Early => task[w].pc \in Early
    /\ p \in OneTurn => task[w].pc \in OneTurn
    /\ p = "toggle" => Lno(w) \notin OneBank
    /\ p = "wait31" => Lno(w) \in OneBank
    /\ w = Boot => p \notin {"wait30", "wait31"}
    /\ w # Boot => /\ p # "f31"
                   /\ p = "toggle" => task[w].pc = "f31"
                   /\ task[w].pc = "f31" => p = IF Lno(w) \in OneBank THEN "wait31" ELSE "toggle"

LEMMA WorksKeeps ==
    ASSUME LogAssumption, Inv, Shape', NEW w \in Workers, NEW p, Works(w, p), Leads(w, p)
    PROVE  Inv'
<1>1. /\ task'[w].pc = p /\ task'[w].Lno = task[w].Lno /\ task'[w].kind = task[w].kind
      /\ \A u \in Workers \ {w} : task'[u] = task[u]
  BY GotoIs DEF Works, Inv, Shape
<1>2. \A u \in Workers : task[u].Lno \in Logs
  BY DEF Inv, Shape, TaskShape, IsFrame
<1>3. w \in Tasks => Up /\ Up'
  BY <1>1 DEF LogAssumption, Inv, Safe, BootInv, Leads, Up, Idle, Frame, Workers
<1>4. BootInv'
  <2>1. CASE w = Boot
    <3>1. ~ Up
      BY <2>1 DEF Leads, Up
    <3>2. \A u \in Tasks : task'[u] = Idle
      BY <3>1, <2>1, <1>1 DEF LogAssumption, Inv, Safe, BootInv, Workers
    <3> QED
      BY <2>1, <3>1, <3>2, <1>1 DEF Inv, Safe, BootInv, Works, Leads
  <2>2. CASE w # Boot
    BY <2>2, <1>3 DEF BootInv, Workers
  <2> QED
    BY <2>1, <2>2
<1>5. FrameInv'
  <2>1. \A u \in Tasks : task'[u].pc # "idle" => TaskOf[task'[u].Lno] = u
    BY <1>1 DEF Inv, Safe, FrameInv, Leads, Lno, Workers
  <2>2. \A u \in Tasks : task'[u].pc \in OneTurn => task'[u].kind = LOG_DAT'[task'[u].Lno].kind
    <3> SUFFICES ASSUME NEW u \in Tasks, task'[u].pc \in OneTurn
                 PROVE  task'[u].kind = LOG_DAT'[task'[u].Lno].kind
      OBVIOUS
    <3>1. task[u].pc \in OneTurn /\ task'[u].Lno = task[u].Lno /\ task'[u].kind = task[u].kind
      BY <1>1 DEF Leads, Workers
    <3>2. task[u].kind = LOG_DAT[task[u].Lno].kind
      BY <3>1 DEF Inv, Safe, FrameInv, Lno, Kind
    <3>3. LOG_DAT'[task[u].Lno].kind = LOG_DAT[task[u].Lno].kind
      BY <1>2 DEF Works, KindsKept, Workers
    <3> QED
      BY <3>1, <3>2, <3>3
  <2>3. \A u \in Workers : /\ task'[u].pc = "toggle" => task'[u].Lno \notin OneBank
                           /\ task'[u].pc \in {"wait10", "wait31"} => task'[u].Lno \in OneBank
    BY <1>1 DEF Inv, Safe, FrameInv, Leads, Lno
  <2>4. \A l \in OneBank : LOG_DAT'[l].kind = 0
    BY DEF LogAssumption, Inv, Safe, FrameInv, Works, KindsKept
  <2> QED
    BY <2>1, <2>2, <2>3, <2>4 DEF FrameInv, Lno, Kind
<1>6. RequestInv'
  <2>1. CASE w = Boot
    BY <2>1, <1>1 DEF RequestInv, Leads, Up
  <2>2. CASE w \in Tasks
    <3> SUFFICES ASSUME NEW l \in Flashed
                 PROVE  /\ CheckParam'[l] \in {None, l}
                        /\ req'[l] => CheckParam'[l] = l
                        /\ req'[l] /\ l \in OneBank => Doing(l, {"f31", "wait31"})'
                        /\ req'[l] /\ l \notin OneBank =>
                              params'[l].sramlog_kind # LOG_DAT'[l].kind \/ Doing(l, {"f31", "toggle"})'
                        /\ Doing(l, {"f31", "toggle"})' /\ req'[l] => params'[l].sramlog_kind = LOG_DAT'[l].kind
      BY DEF RequestInv
    <3>1. TaskOf[l] \in Tasks /\ l \in Logs
      BY DEF LogAssumption
    <3>2. params'[l].sramlog_kind = params[l].sramlog_kind /\ LOG_DAT'[l].kind = LOG_DAT[l].kind
          /\ (req'[l] => req[l]) /\ CheckParam'[l] = CheckParam[l]
      BY <3>1 DEF Works, ParKept, KindsKept, ReqKept
    <3>3. /\ CheckParam[l] \in {None, l}
          /\ req[l] => CheckParam[l] = l
          /\ req[l] /\ l \in OneBank => Doing(l, {"f31", "wait31"})
          /\ req[l] /\ l \notin OneBank =>
                params[l].sramlog_kind # LOG_DAT[l].kind \/ Doing(l, {"f31", "toggle"})
          /\ Doing(l, {"f31", "toggle"}) /\ req[l] => params[l].sramlog_kind = LOG_DAT[l].kind
      BY <2>2, <1>3 DEF Inv, Safe, RequestInv
    <3>4. CASE TaskOf[l] = w
      <4>1. w # Boot
        BY <2>2 DEF LogAssumption
      <4>2. Doing(l, {"f31", "toggle"})' => Doing(l, {"f31", "toggle"})
        BY <3>4, <4>1, <1>1 DEF Doing, Leads
      <4>3. l \in OneBank => (Doing(l, {"f31", "wait31"}) => Doing(l, {"f31", "wait31"})')
        BY <3>4, <4>1, <1>1 DEF Doing, Leads, Lno
      <4>4. l \notin OneBank => (Doing(l, {"f31", "toggle"}) => Doing(l, {"f31", "toggle"})')
        BY <3>4, <4>1, <1>1 DEF Doing, Leads, Lno
      <4> QED
        BY <3>2, <3>3, <4>2, <4>3, <4>4
    <3>5. CASE TaskOf[l] # w
      <4>1. task'[TaskOf[l]] = task[TaskOf[l]]
        BY <3>1, <3>5, <1>1 DEF Workers
      <4> QED
        BY <3>2, <3>3, <4>1 DEF Doing
    <3> QED
      BY <3>4, <3>5
  <2> QED
    BY <2>1, <2>2 DEF Workers
<1>7. BakupInv'
  <2> SUFFICES ASSUME log_bakup'.f_recover \in Copying
               PROVE  BakupInv'
    BY DEF BakupInv
  <2>1. log_bakup' = log_bakup
    BY DEF Works
  <2>2. task[w].pc \in Early /\ Lno(w) = log_bakup.Lno /\ Kind(w) = log_bakup.stat_kind
    BY <2>1 DEF Inv, Safe, BakupInv, Works, Leads
  <2>3. task'[w].pc \in Early /\ Lno(w)' = log_bakup.Lno /\ Kind(w)' = log_bakup.stat_kind
    BY <2>2, <1>1 DEF Leads, Lno, Kind
  <2> QED
    BY <2>1, <2>3 DEF Inv, Safe, BakupInv, Works, ParKept, ReqKept
<1>8. AcceptInv'
  BY <1>1 DEF Inv, Safe, AcceptInv, Works, Leads
<1>9. CopyInv'
  <2>1. CASE w = Boot
    BY <2>1, <1>1 DEF CopyInv, Leads
  <2>2. CASE w # Boot
    <3>1. task'[Boot] = task[Boot]
      BY <2>2, <1>1 DEF Workers
    <3> QED
      BY <3>1 DEF Inv, Safe, CopyInv, Works, ParKept, ReqKept, Kind, Lno
  <2> QED
    BY <2>1, <2>2
<1> QED
  BY <1>4, <1>5, <1>6, <1>7, <1>8, <1>9 DEF Inv, Safe

-----------------------------------------------------------------------------
(* The steps of the flash task and the readers keep the invariant. *)

FltMoves ==
    /\ UNCHANGED <<task, log_bakup, CheckParam>>
    /\ req' = req \/ req' = [req EXCEPT ![flt.log] = FALSE]
    /\ \/ /\ cpu = FLT /\ flt.pc # "idle"
          /\ \E p : flt' = [flt EXCEPT !.pc = p]
          /\ cpu' = FLT \/ FltYields
       \/ /\ cpu = FLT /\ flt.pc # "idle" /\ flt' = [flt EXCEPT !.pc = "idle"]
          /\ cpu' = IF flt.by = Boot THEN Boot ELSE None
       \/ /\ cpu = None
          /\ \/ \E p : flt' = [flt EXCEPT !.pc = p]
             \/ \E p, l, w : flt' = [pc |-> p, log |-> l, by |-> w]

LEMMA FltBeside ==
    ASSUME LogAssumption, Inv, FltMoves, RamShape' /\ BanksKept, ParShape' /\ ParKept
    PROVE  Inv'
<1>1. OtherShape' /\ ReqKept
  <2>1. req' \in [Flashed -> BOOLEAN] /\ ReqKept
    BY DEF FltMoves, Inv, Shape, OtherShape, ReqKept
  <2>2. flt' = [pc |-> flt'.pc, log |-> flt'.log, by |-> flt'.by]
    <3>1. CASE \E p : flt' = [flt EXCEPT !.pc = p]
      BY <3>1 DEF Inv, Shape, OtherShape
    <3>2. CASE \E p, l, w : flt' = [pc |-> p, log |-> l, by |-> w]
      BY <3>2
    <3> QED
      BY <3>1, <3>2 DEF FltMoves
  <2> QED
    BY <2>1, <2>2 DEF FltMoves, Inv, Shape, OtherShape
<1>2. TaskShape'
  BY DEF FltMoves, Inv, Shape, TaskShape
<1>3. cpu \notin Workers
  BY DEF FltMoves, LogAssumption, Workers
<1>4. BootInv'
  <2> SUFFICES ASSUME ~ Up
               PROVE  BootInv'
    BY DEF FltMoves, BootInv, Up
  <2>1. cpu = FLT /\ flt.pc # "idle" /\ flt.by = Boot
    BY DEF FltMoves, Inv, Safe, BootInv, LogAssumption
  <2>2. CASE (\E p : flt' = [flt EXCEPT !.pc = p]) /\ (cpu' = FLT \/ FltYields)
    <3>1. flt'.by = Boot /\ cpu' = FLT
      BY <2>1, <2>2 DEF FltYields, Inv, Shape, OtherShape
    <3> QED
      BY <3>1 DEF FltMoves, Inv, Safe, BootInv
  <2>3. CASE flt' = [flt EXCEPT !.pc = "idle"] /\ cpu' = IF flt.by = Boot THEN Boot ELSE None
    <3>1. flt'.pc = "idle" /\ cpu' = Boot
      BY <2>1, <2>3 DEF Inv, Shape, OtherShape
    <3> QED
      BY <3>1 DEF FltMoves, Inv, Safe, BootInv
  <2> QED
    BY <2>1, <2>2, <2>3 DEF FltMoves, LogAssumption
<1>5. Shape'
  BY <1>1, <1>2 DEF Shape
<1>6. Beside
  BY <1>1, <1>3, <1>4 DEF Beside, FltMoves
<1> QED
  BY <1>5, <1>6, BesideKeeps

LEMMA FlashKeeps ==
    ASSUME LogAssumption, Inv, FlashStep
    PROVE  Inv'
<1>1. CASE FltStart
  <2>1. FltMoves
    BY <1>1 DEF FltStart, FltMoves, FltAt, FltGoto, FltYields, flashing, ram
  <2>2. RamShape' /\ BanksKept
    BY <1>1, NoneSet DEF Inv, Shape, FltStart, ram
  <2>3. ParShape' /\ ParKept
    BY <1>1, SetStarted, ParNone DEF Inv, Shape, FltStart
  <2> QED
    BY <2>1, <2>2, <2>3, FltBeside
<1>2. CASE FltSector
  <2>1. FltMoves
    BY <1>2 DEF FltSector, FltMoves, FltAt, FltGoto, FltYields, flashing, ram
  <2>2. RamShape' /\ BanksKept
    BY <1>2, NoneSet DEF Inv, Shape, FltSector, ram
  <2>3. ParShape' /\ ParKept
    BY <1>2, SetSector DEF Inv, Shape, FltSector
  <2> QED
    BY <2>1, <2>2, <2>3, FltBeside
<1>3. CASE FltErase
  <2>1. FltMoves
    BY <1>3 DEF FltErase, FltMoves, FltAt, FltGoto, FltYields, flashing, ram
  <2>2. RamShape' /\ BanksKept
    BY <1>3, NoneSet DEF Inv, Shape, FltErase, ram
  <2>3. ParShape' /\ ParKept
    BY <1>3, ParNone DEF Inv, Shape, FltErase
  <2> QED
    BY <2>1, <2>2, <2>3, FltBeside
<1>4. CASE FltWrite
  <2>1. FltMoves
    BY <1>4 DEF FltWrite, FltMoves, FltAt, FltGoto, FltYields, flashing, ram
  <2>2. RamShape' /\ BanksKept
    BY <1>4, NoneSet DEF Inv, Shape, FltWrite, ram
  <2>3. ParShape' /\ ParKept
    BY <1>4, ParNone DEF Inv, Shape, FltWrite
  <2> QED
    BY <2>1, <2>2, <2>3, FltBeside
<1>5. CASE FltVerified
  <2>1. FltMoves
    BY <1>5 DEF FltVerified, FltMoves, FltAt, FltGoto, FltYields, flashing, ram
  <2>2. RamShape' /\ BanksKept
    BY <1>5, NoneSet DEF Inv, Shape, FltVerified, ram
  <2>3. ParShape' /\ ParKept
    BY <1>5, SetMark DEF Inv, Shape, FltVerified, FltMark
  <2> QED
    BY <2>1, <2>2, <2>3, FltBeside
<1>6. CASE FltFcount
  <2>1. FltMoves
    BY <1>6 DEF FltFcount, FltMoves, FltAt, FltGoto, FltYields, flashing, ram
  <2>2. RamShape' /\ BanksKept
    BY <1>6, FltFcountKeeps DEF Inv, Shape
  <2>3. ParShape' /\ ParKept
    BY <1>6, ParNone DEF Inv, Shape, FltFcount
  <2> QED
    BY <2>1, <2>2, <2>3, FltBeside
<1>7. CASE FltInfo
  <2>1. FltMoves
    BY <1>7 DEF FltInfo, FltMoves, FltAt, FltGoto, FltYields, flashing, ram
  <2>2. RamShape' /\ BanksKept
    BY <1>7, NoneSet DEF Inv, Shape, FltInfo, ram
  <2>3. ParShape' /\ ParKept
    BY <1>7, ParNone DEF Inv, Shape, FltInfo
  <2> QED
    BY <2>1, <2>2, <2>3, FltBeside
<1>8. CASE FltCheckpoint
  <2>5. PICK m \in {<<"f3", 3, "info">>, <<"f40", 40, "secttop">>, <<"f41", 41, "sectnum">>,
                  <<"f0", 0, "unlock">>} : FltAt(m[1]) /\ FltMark(m[2]) /\ FltGoto(m[3])
    BY <1>8, Zenon DEF FltCheckpoint
  <2>6. m[1] \in {"f3", "f40", "f41", "f0"} /\ m[2] \in {0, 1, 2, 3, 40, 41}
    OBVIOUS
  <2>1. FltMoves
    <3>1. cpu = FLT /\ flt.pc # "idle" /\ \E p : flt' = [flt EXCEPT !.pc = p]
      BY <2>5, <2>6 DEF FltAt, FltGoto
    <3> QED
      BY <1>8, <3>1 DEF FltCheckpoint, FltMoves, flashing, ram
  <2>2. RamShape' /\ BanksKept
    BY <1>8, NoneSet DEF Inv, Shape, FltCheckpoint, ram
  <2>3. ParShape' /\ ParKept
    BY <2>5, <2>6, SetMark DEF Inv, Shape, FltMark
  <2> QED
    BY <2>1, <2>2, <2>3, FltBeside
<1>9. CASE FltSecttop
  <2>1. FltMoves
    BY <1>9 DEF FltSecttop, FltMoves, FltAt, FltGoto, FltYields, flashing, ram
  <2>2. RamShape' /\ BanksKept
    BY <1>9, NoneSet DEF Inv, Shape, FltSecttop, ram
  <2>3. ParShape' /\ ParKept
    BY <1>9, ParNone DEF Inv, Shape, FltSecttop
  <2> QED
    BY <2>1, <2>2, <2>3, FltBeside
<1>10. CASE FltUnread
  <2>1. FltMoves
    BY <1>10 DEF FltUnread, FltMoves, FltAt, FltGoto, FltYields, flashing, ram
  <2>2. RamShape' /\ BanksKept
    BY <1>10, FltUnreadKeeps DEF Inv, Shape
  <2>3. ParShape' /\ ParKept
    BY <1>10, ParNone DEF Inv, Shape, FltUnread
  <2> QED
    BY <2>1, <2>2, <2>3, FltBeside
<1>11. CASE FltSectnum
  <2>1. FltMoves
    BY <1>11 DEF FltSectnum, FltMoves, FltAt, FltGoto, FltYields, flashing, ram
  <2>2. RamShape' /\ BanksKept
    BY <1>11, NoneSet DEF Inv, Shape, FltSectnum, ram
  <2>3. ParShape' /\ ParKept
    BY <1>11, ParNone DEF Inv, Shape, FltSectnum
  <2> QED
    BY <2>1, <2>2, <2>3, FltBeside
<1>12. CASE FltCount
  <2>1. FltMoves
    BY <1>12 DEF FltCount, FltMoves, FltAt, FltGoto, FltYields, flashing, ram
  <2>2. RamShape' /\ BanksKept
    BY <1>12, FltCountKeeps DEF Inv, Shape
  <2>3. ParShape' /\ ParKept
    BY <1>12, ParNone DEF Inv, Shape, FltCount
  <2> QED
    BY <2>1, <2>2, <2>3, FltBeside
<1>13. CASE FltUnlock
  <2>1. FltMoves
    BY <1>13 DEF FltUnlock, FltMoves, FltAt, FltGoto, FltYields, flashing, ram
  <2>2. RamShape' /\ BanksKept
    BY <1>13, NoneSet DEF Inv, Shape, FltUnlock, ram
  <2>3. ParShape' /\ ParKept
    BY <1>13, ParNone DEF Inv, Shape, FltUnlock
  <2> QED
    BY <2>1, <2>2, <2>3, FltBeside
<1> QED
  BY <1>1, <1>2, <1>3, <1>4, <1>5, <1>6, <1>7, <1>8, <1>9, <1>10, <1>11, <1>12, <1>13 DEF FlashStep

LEMMA ReadersBeside ==
    ASSUME LogAssumption, Inv, RamShape' /\ BanksKept, cpu = None, UNCHANGED <<log_bakup, flashing, task, cpu>>
    PROVE  Inv'
<1>1. Shape' /\ ParKept /\ ReqKept
  BY DEF Inv, Shape, ParShape, TaskShape, OtherShape, ParKept, ReqKept, flashing
<1>2. BootInv'
  BY DEF Inv, Safe, BootInv, Up, LogAssumption
<1>3. Beside
  BY <1>1, <1>2 DEF Beside, LogAssumption, Workers, flashing
<1> QED
  BY <1>1, <1>3, BesideKeeps

LEMMA ReadersKeep ==
    ASSUME LogAssumption, Inv, NEW l, NEW t, Read(l, t)
    PROVE  Inv'
<1>1. ASSUME NEW start, TargetDataVoidRead(l, t, start)
      PROVE  Inv'
  <2>1. cpu = None /\ UNCHANGED <<log_bakup, flashing, task, cpu>>
    BY <1>1 DEF TargetDataVoidRead, Ready
  <2>2. RamShape' /\ BanksKept
    BY <1>1, VoidReadKeeps DEF Inv, Shape
  <2> QED
    BY <2>1, <2>2, ReadersBeside
<1>2. CASE UndoTargetDataVoidRead(l, t)
  <2>1. cpu = None /\ UNCHANGED <<log_bakup, flashing, task, cpu>>
    BY <1>2 DEF UndoTargetDataVoidRead, Ready
  <2>2. RamShape' /\ BanksKept
    BY <1>2, UndoKeeps DEF Inv, Shape
  <2> QED
    BY <2>1, <2>2, ReadersBeside
<1>3. CASE TargetVoidReadPointerUpdate(l, t)
  <2>1. cpu = None /\ UNCHANGED <<log_bakup, flashing, task, cpu>>
    BY <1>3 DEF TargetVoidReadPointerUpdate, Ready
  <2>2. RamShape' /\ BanksKept
    BY <1>3, UpdateKeeps DEF Inv, Shape
  <2> QED
    BY <2>1, <2>2, ReadersBeside
<1>4. CASE TargetDataGet(l, t)
  <2>1. cpu = None /\ UNCHANGED <<log_bakup, flashing, task, cpu>>
    BY <1>4 DEF TargetDataGet, Ready
  <2>2. RamShape' /\ BanksKept
    BY <1>4, DataGetKeeps DEF Inv, Shape
  <2> QED
    BY <2>1, <2>2, ReadersBeside
<1>5. CASE UnreadToRead(l, t)
  <2>1. cpu = None /\ UNCHANGED <<log_bakup, flashing, task, cpu>>
    BY <1>5 DEF UnreadToRead, Ready
  <2>2. RamShape' /\ BanksKept
    BY <1>5, SkipKeeps DEF Inv, Shape
  <2> QED
    BY <2>1, <2>2, ReadersBeside
<1> QED
  BY <1>1, <1>2, <1>3, <1>4, <1>5 DEF Read

-----------------------------------------------------------------------------
(* The steps of Log_Write, by a task or by start-up. *)

\* A step that leaves the requests and the memory of the flash task alone.
LEMMA RamWorks ==
    ASSUME LogAssumption, Inv, NEW w \in Workers, NEW p,
           RamShape' /\ KindsKept, OtherShape', UNCHANGED flashing,
           cpu = w, cpu' = w, Goto(w, p), Leads(w, p),
           \/ log_bakup' = log_bakup
           \/ /\ log_bakup'.f_recover \notin Copying
              /\ log_bakup'.Lno = log_bakup.Lno /\ log_bakup'.stat_kind = log_bakup.stat_kind
    PROVE  Inv'
<1>1. TaskShape'
  BY GotoIs DEF Inv, Shape
<1>2. ParShape' /\ ParKept /\ ReqKept /\ UNCHANGED <<CheckParam, flt>>
  BY DEF Inv, Shape, ParShape, ParKept, ReqKept, flashing
<1>3. Shape'
  BY <1>1, <1>2 DEF Shape
<1>4. Works(w, p)
  BY <1>2 DEF Works
<1> QED
  BY <1>3, <1>4, WorksKeeps

LEMMA RamStep ==
    ASSUME LogAssumption, Inv, NEW w \in Workers, NEW p,
           RamShape' /\ BanksKept, UNCHANGED <<log_bakup, flashing, cpu>>,
           cpu = w, Goto(w, p), Leads(w, p)
    PROVE  Inv'
<1>1. OtherShape' /\ KindsKept
  BY DEF Inv, Shape, OtherShape, flashing, BanksKept, KindsKept
<1> QED
  BY <1>1, RamWorks

LEMMA CountUnreadSafe == ASSUME LogAssumption, Inv, NEW w \in Workers, CountUnread(w) PROVE Inv'
<1> DEFINE p == "f2"
<1>1. RamShape' /\ BanksKept
  BY CountUnreadKeeps DEF Inv, Shape
<1>2. UNCHANGED <<log_bakup, flashing, cpu>> /\ cpu = w /\ Goto(w, p)
  BY DEF CountUnread, At
<1>3. Leads(w, p)
  BY DEF CountUnread, At, Leads, Early, OneTurn
<1> HIDE DEF p
<1> QED
  BY <1>1, <1>2, <1>3, RamStep

LEMMA CountSafe == ASSUME LogAssumption, Inv, NEW w \in Workers, Count(w) PROVE Inv'
<1> DEFINE p == "f3"
<1>1. RamShape' /\ BanksKept
  BY CountKeeps DEF Inv, Shape
<1>2. UNCHANGED <<log_bakup, flashing, cpu>> /\ cpu = w /\ Goto(w, p)
  BY DEF Count, At
<1>3. Leads(w, p)
  BY DEF Count, At, Leads, Early, OneTurn
<1> HIDE DEF p
<1> QED
  BY <1>1, <1>2, <1>3, RamStep

LEMMA AdvanceSafe == ASSUME LogAssumption, Inv, NEW w \in Workers, Advance(w) PROVE Inv'
<1> DEFINE p == IF task[w].pc = "wtp" THEN "f4" ELSE "f41"
<1>1. RamShape' /\ BanksKept
  BY AdvanceKeeps DEF Inv, Shape
<1>2. UNCHANGED <<log_bakup, flashing, cpu>> /\ cpu = w /\ Goto(w, p)
  BY DEF Advance, At
<1>3. Leads(w, p)
  BY DEF Advance, At, Leads, Early, OneTurn
<1> HIDE DEF p
<1> QED
  BY <1>1, <1>2, <1>3, RamStep

LEMMA CapSafe == ASSUME LogAssumption, Inv, NEW w \in Workers, Cap(w) PROVE Inv'
<1> DEFINE p == "f40"
<1>1. RamShape' /\ BanksKept
  BY CapKeeps DEF Inv, Shape
<1>2. UNCHANGED <<log_bakup, flashing, cpu>> /\ cpu = w /\ Goto(w, p)
  BY DEF Cap, At
<1>3. Leads(w, p)
  BY DEF Cap, At, Leads, Early, OneTurn
<1> HIDE DEF p
<1> QED
  BY <1>1, <1>2, <1>3, RamStep

LEMMA RewindSafe == ASSUME LogAssumption, Inv, NEW w \in Workers, Rewind(w) PROVE Inv'
<1> DEFINE p == "f43"
<1>1. RamShape' /\ BanksKept
  BY RewindKeeps DEF Inv, Shape
<1>2. UNCHANGED <<log_bakup, flashing, cpu>> /\ cpu = w /\ Goto(w, p)
  BY DEF Rewind, At
<1>3. Leads(w, p)
  BY DEF Rewind, At, Leads, Early, OneTurn
<1> HIDE DEF p
<1> QED
  BY <1>1, <1>2, <1>3, RamStep

LEMMA OldestSafe == ASSUME LogAssumption, Inv, NEW w \in Workers, Oldest(w) PROVE Inv'
<1> DEFINE p == "end"
<1>1. RamShape' /\ BanksKept
  BY OldestKeeps DEF Inv, Shape
<1>2. UNCHANGED <<log_bakup, flashing, cpu>> /\ cpu = w /\ Goto(w, p)
  BY DEF Oldest, At
<1>3. Leads(w, p)
  BY DEF Oldest, At, Leads, Early, OneTurn
<1> HIDE DEF p
<1> QED
  BY <1>1, <1>2, <1>3, RamStep

LEMMA ClearBankSafe == ASSUME LogAssumption, Inv, NEW w \in Workers, ClearBank(w) PROVE Inv'
<1> DEFINE p == IF task[w].pc = "clear" THEN "f323" ELSE "f311"
<1>1. RamShape' /\ BanksKept
  BY ClearBankKeeps DEF Inv, Shape
<1>2. UNCHANGED <<log_bakup, flashing, cpu>> /\ cpu = w /\ Goto(w, p)
  BY DEF ClearBank, At
<1>3. Leads(w, p)
  BY DEF ClearBank, At, Leads, Early, OneTurn
<1> HIDE DEF p
<1> QED
  BY <1>1, <1>2, <1>3, RamStep

LEMMA CheckpointSafe == ASSUME LogAssumption, Inv, NEW w \in Workers, Checkpoint(w) PROVE Inv'
<1> DEFINE n == Mark(w)[1]
           p == Mark(w)[2]
<1>1. n \notin Copying /\ (w = Boot \/ task[w].pc # "f30" \/ p = "wait30")
      /\ task[w].pc \in {"f2", "f3", "f4", "f30", "f31", "f311", "f321", "f323", "f40", "f41", "f42", "f43", "f44"}
      /\ (task[w].pc = "f2" => p = "count")
      /\ (task[w].pc = "f3" => p \in {"wtp", "f30", "cap"})
      /\ (task[w].pc = "f30" => p = IF w # Boot THEN "wait30" ELSE IF req[Lno(w)] THEN "f31" ELSE "request")
      /\ (task[w].pc = "f31" => p = IF Lno(w) \notin OneBank THEN "toggle" ELSE IF w = Boot THEN "clear31" ELSE "wait31")
      /\ (task[w].pc \notin {"f2", "f3", "f30", "f31"} => p \in {"end", "clear", "step", "f42", "f44", "rewind", "oldest"})
  <2>1. task[w].pc \in {"f2", "f3", "f4", "f30", "f31", "f311", "f321", "f323", "f40", "f41", "f42", "f43", "f44"}
    BY DEF Checkpoint
  <2> QED
    BY <2>1 DEF Mark, Copying
<1> HIDE DEF n, p
<1>2. RamShape' /\ KindsKept
  BY NoneSet DEF Checkpoint, Inv, Shape, BanksKept, KindsKept
<1>3. log_bakup' = [log_bakup EXCEPT !.f_recover = n] /\ Goto(w, p) /\ UNCHANGED flashing /\ cpu = w /\ cpu' = w
  BY DEF Checkpoint, n, p
<1>4. /\ OtherShape' /\ log_bakup'.f_recover = n
      /\ log_bakup'.Lno = log_bakup.Lno /\ log_bakup'.stat_kind = log_bakup.stat_kind
  BY <1>3, MarkIs DEF Inv, Shape, flashing
<1>5. Leads(w, p)
  BY <1>1, <1>4 DEF Leads, Early, OneTurn
<1> QED
  BY <1>1, <1>2, <1>3, <1>4, <1>5, RamWorks

LEMMA CopySafe == ASSUME LogAssumption, Inv, NEW w \in Workers, Copy(w) PROVE Inv'
<1> DEFINE p == IF Lno(w) \in Flashed THEN "f2" ELSE "unread"
<1>1. RamShape' /\ KindsKept
  <2>1. Lno(w) \in Logs /\ Kind(w) \in {0, 1}
    BY DEF Inv, Shape, TaskShape, IsFrame, Lno, Kind
  <2> QED
    BY <2>1, SetDat DEF Inv, Shape, Copy
<1>2. UNCHANGED <<log_bakup, flashing, cpu>> /\ cpu = w /\ Goto(w, p)
  BY DEF Copy, At
<1>3. Leads(w, p)
  BY DEF Copy, At, Leads, Early, OneTurn
<1>4. OtherShape'
  BY <1>2 DEF Inv, Shape, OtherShape, flashing
<1> HIDE DEF p
<1> QED
  BY <1>1, <1>2, <1>3, <1>4, RamWorks

-----------------------------------------------------------------------------
(* The steps of FLT_WriteLog_Pon. *)

LEMMA PonWorks ==
    ASSUME LogAssumption, Inv, NEW p, NEW l,
           RamShape' /\ BanksKept, ParShape' /\ ParKept,
           req' = req \/ req' = [req EXCEPT ![l] = FALSE],
           UNCHANGED <<log_bakup, CheckParam, flt, cpu>>,
           cpu = Boot, Goto(Boot, p), Leads(Boot, p)
    PROVE  Inv'
<1>1. TaskShape'
  BY GotoIs DEF Inv, Shape, Workers
<1>2. OtherShape' /\ ReqKept /\ KindsKept
  BY DEF Inv, Shape, OtherShape, ReqKept, BanksKept, KindsKept
<1>3. Shape'
  BY <1>1, <1>2 DEF Shape
<1>4. Works(Boot, p)
  BY <1>2 DEF Works
<1> QED
  BY <1>3, <1>4, WorksKeeps DEF Workers

LEMMA PonEraseSafe == ASSUME LogAssumption, Inv, PonErase PROVE Inv'
<1> DEFINE p == "ponwrite"
<1>1. RamShape' /\ BanksKept
  BY NoneSet DEF PonErase, Inv, Shape, ram
<1>2. ParShape' /\ ParKept
  BY ParNone DEF PonErase, Inv, Shape
<1>3. /\ req' = req \/ req' = [req EXCEPT ![Lno(Boot)] = FALSE]
      /\ UNCHANGED <<log_bakup, CheckParam, flt, cpu>> /\ cpu = Boot /\ Goto(Boot, p)
  BY DEF PonErase, At, ram
<1>4. Leads(Boot, p)
  BY DEF PonErase, At, Leads, Early, OneTurn
<1> HIDE DEF p
<1> QED
  BY <1>1, <1>2, <1>3, <1>4, PonWorks

LEMMA PonWriteSafe == ASSUME LogAssumption, Inv, PonWrite PROVE Inv'
<1> DEFINE p == "ponfcount"
<1>1. RamShape' /\ BanksKept
  BY NoneSet DEF PonWrite, Inv, Shape, ram
<1>2. ParShape' /\ ParKept
  BY SetMark DEF PonWrite, Inv, Shape
<1>3. /\ req' = req \/ req' = [req EXCEPT ![Lno(Boot)] = FALSE]
      /\ UNCHANGED <<log_bakup, CheckParam, flt, cpu>> /\ cpu = Boot /\ Goto(Boot, p)
  BY DEF PonWrite, At, ram
<1>4. Leads(Boot, p)
  BY DEF PonWrite, At, Leads, Early, OneTurn
<1> HIDE DEF p
<1> QED
  BY <1>1, <1>2, <1>3, <1>4, PonWorks

LEMMA PonFcountSafe == ASSUME LogAssumption, Inv, PonFcount PROVE Inv'
<1> DEFINE p == "poninfo"
<1>1. RamShape' /\ BanksKept
  BY PonFcountKeeps DEF Inv, Shape
<1>2. ParShape' /\ ParKept
  BY SetMark, ParNone DEF PonFcount, Inv, Shape
<1>3. /\ req' = req \/ req' = [req EXCEPT ![Lno(Boot)] = FALSE]
      /\ UNCHANGED <<log_bakup, CheckParam, flt, cpu>> /\ cpu = Boot /\ Goto(Boot, p)
  BY DEF PonFcount, At, ram
<1>4. Leads(Boot, p)
  BY DEF PonFcount, At, Leads, Early, OneTurn
<1> HIDE DEF p
<1> QED
  BY <1>1, <1>2, <1>3, <1>4, PonWorks

LEMMA PonInfoSafe == ASSUME LogAssumption, Inv, PonInfo PROVE Inv'
<1> DEFINE p == IF log_mgr[Lno(Boot)].sectnum + 1 > sectmax[Lno(Boot)] THEN "ponsecttop" ELSE "ponsectnum"
<1>1. RamShape' /\ BanksKept
  BY NoneSet DEF PonInfo, Inv, Shape, ram
<1>2. ParShape' /\ ParKept
  BY ParNone DEF PonInfo, Inv, Shape
<1>3. /\ req' = req \/ req' = [req EXCEPT ![Lno(Boot)] = FALSE]
      /\ UNCHANGED <<log_bakup, CheckParam, flt, cpu>> /\ cpu = Boot /\ Goto(Boot, p)
  BY DEF PonInfo, At, ram
<1>4. Leads(Boot, p)
  BY DEF PonInfo, At, Leads, Early, OneTurn
<1> HIDE DEF p
<1> QED
  BY <1>1, <1>2, <1>3, <1>4, PonWorks

LEMMA PonSecttopSafe == ASSUME LogAssumption, Inv, PonSecttop PROVE Inv'
<1> DEFINE p == "ponend"
<1>1. RamShape' /\ BanksKept
  BY PonSecttopKeeps DEF Inv, Shape
<1>2. ParShape' /\ ParKept
  BY ParNone DEF PonSecttop, Inv, Shape
<1>3. /\ req' = req \/ req' = [req EXCEPT ![Lno(Boot)] = FALSE]
      /\ UNCHANGED <<log_bakup, CheckParam, flt, cpu>> /\ cpu = Boot /\ Goto(Boot, p)
  BY DEF PonSecttop, At, ram
<1>4. Leads(Boot, p)
  BY DEF PonSecttop, At, Leads, Early, OneTurn
<1> HIDE DEF p
<1> QED
  BY <1>1, <1>2, <1>3, <1>4, PonWorks

LEMMA PonSectnumSafe == ASSUME LogAssumption, Inv, PonSectnum PROVE Inv'
<1> DEFINE p == "ponend"
<1>1. RamShape' /\ BanksKept
  BY NoneSet DEF PonSectnum, Inv, Shape, ram
<1>2. ParShape' /\ ParKept
  BY ParNone DEF PonSectnum, Inv, Shape
<1>3. /\ req' = req \/ req' = [req EXCEPT ![Lno(Boot)] = FALSE]
      /\ UNCHANGED <<log_bakup, CheckParam, flt, cpu>> /\ cpu = Boot /\ Goto(Boot, p)
  BY DEF PonSectnum, At, ram
<1>4. Leads(Boot, p)
  BY DEF PonSectnum, At, Leads, Early, OneTurn
<1> HIDE DEF p
<1> QED
  BY <1>1, <1>2, <1>3, <1>4, PonWorks

LEMMA PonEndSafe == ASSUME LogAssumption, Inv, PonEnd PROVE Inv'
<1> DEFINE p == "pon"
<1>1. RamShape' /\ BanksKept
  BY PonEndKeeps DEF Inv, Shape
<1>2. ParShape' /\ ParKept
  BY SetCleared DEF PonEnd, Inv, Shape
<1>3. /\ req' = req \/ req' = [req EXCEPT ![Lno(Boot)] = FALSE]
      /\ UNCHANGED <<log_bakup, CheckParam, flt, cpu>> /\ cpu = Boot /\ Goto(Boot, p)
  BY DEF PonEnd, At, ram
<1>4. Leads(Boot, p)
  BY DEF PonEnd, At, Leads, Early, OneTurn
<1> HIDE DEF p
<1> QED
  BY <1>1, <1>2, <1>3, <1>4, PonWorks

LEMMA LeastNumber ==
    ASSUME NEW T \in SUBSET Nat, T # {}
    PROVE  \E m \in T : \A k \in T : m <= k
<1> DEFINE Less == OpToRel(<, Nat)
<1>1. \E m \in T : \A k \in T : <<k, m>> \notin Less
  <2>1. IsWellFoundedOn(Less, Nat)
    BY NatLessThanWellFounded
  <2> HIDE DEF Less
  <2> QED
    BY <2>1, WFMin
<1>2. \A k, m \in Nat : k < m => <<k, m>> \in Less
  BY DEF OpToRel
<1> HIDE DEF Less
<1>3. PICK m \in T : \A k \in T : <<k, m>> \notin Less
  BY <1>1
<1>4. m \in Nat /\ \A k \in T : k \in Nat /\ ~ (k < m)
  BY <1>2, <1>3
<1> QED
  BY <1>4

LEMMA FirstIs ==
    ASSUME LogAssumption, Pending # {}
    PROVE  FirstOf(Pending) \in Flashed
<1>1. Pending \in SUBSET Nat /\ Pending \subseteq Flashed
  BY DEF LogAssumption, Pending
<1>2. \E m \in Pending : \A k \in Pending : m <= k
  BY <1>1, LeastNumber
<1>3. FirstOf(Pending) \in Pending
  BY <1>2 DEF FirstOf
<1> QED
  BY <1>1, <1>3

LEMMA PonLogSafe == ASSUME LogAssumption, Inv, PonLog PROVE Inv'
<1> DEFINE l == FirstOf(Pending)
           n == params[l].f_recover
           p == task'[Boot].pc
           d == IF n \in {0, 1} THEN WriteSector(l) ELSE params[l].get_sector
           q == CASE n \in {0, 1} -> "ponerase" [] n = 2 -> "ponfcount" [] n = 3 -> "poninfo"
                  [] n = 40 -> "ponsecttop" [] n = 41 -> "ponsectnum"
<1>1. l \in Flashed /\ l \in Logs /\ n \in {0, 1, 2, 3, 40, 41}
  <2>1. l \in Flashed
    BY FirstIs DEF PonLog
  <2> QED
    BY <2>1 DEF LogAssumption, Inv, Shape, ParShape, IsParam
<1>2. q \in {"ponerase", "ponfcount", "poninfo", "ponsecttop", "ponsectnum"}
  BY <1>1
<1>3. task' = [task EXCEPT ![Boot] = Frame(q, l, d, 0)] /\ task[Boot].pc = "pon" /\ cpu = Boot
  BY DEF PonLog, At
<1>4. ParShape' /\ ParKept
  BY SetStarted, ParNone DEF PonLog, Inv, Shape
<1>5. UNCHANGED <<LOG_DAT, log_bakup, req, CheckParam, flt, cpu>>
  BY DEF PonLog, ram
<1> HIDE DEF l, n, d, q
<1>6. IsFrame(Frame(q, l, d, 0)) /\ Frame(q, l, d, 0).pc = q
  BY <1>1, FrameIs
<1>7. TaskShape' /\ task'[Boot].pc = q /\ \A w \in Tasks : task'[w] = task[w]
  BY <1>3, <1>6, TaskSet DEF Inv, Shape, Workers, LogAssumption
<1>8. Shape'
  BY <1>4, <1>5, <1>7 DEF Inv, Shape, RamShape, OtherShape
<1>9. BootInv' /\ RequestInv'
  BY <1>2, <1>3, <1>5, <1>7 DEF Inv, Safe, BootInv, RequestInv, Up
<1>10. FrameInv'
  BY <1>2, <1>5, <1>7 DEF Inv, Safe, FrameInv, Lno, Kind, Workers
<1>11. BakupInv' /\ AcceptInv' /\ CopyInv'
  <2>1. log_bakup.f_recover \notin Copying
    BY <1>3 DEF Inv, Safe, BakupInv, Early
  <2>2. \A w \in Tasks : task[w].pc # "accept"
    BY <1>3 DEF Inv, Safe, BootInv, Up, Idle, Frame
  <2> QED
    BY <2>1, <2>2, <1>2, <1>5, <1>7 DEF BakupInv, AcceptInv, CopyInv, Workers
<1> QED
  BY <1>8, <1>9, <1>10, <1>11 DEF Inv, Safe

LEMMA EntryIs ==
    /\ Copying \subseteq DOMAIN Entry
    /\ \A f \in DOMAIN Entry :
         /\ Entry[f] \in {"accept", "copy", "count", "f3", "f30", "f31", "clear", "step", "f41", "rewind", "oldest"}
         /\ Entry[f] = "accept" => f = 1
         /\ Entry[f] = "copy" => f \in {10, 20}
         /\ f \in Copying => Entry[f] \in {"accept", "copy"}
BY DEF Entry, Copying

LEMMA LogWritePonSafe == ASSUME LogAssumption, Inv, LogWritePon PROVE Inv'
<1> DEFINE f == log_bakup.f_recover
           q == IF f \in DOMAIN Entry THEN Entry[f] ELSE "end"
           d == log_bakup.dat
           g == Frame(q, log_bakup.Lno, d, log_bakup.stat_kind)
<1>1. /\ q \in {"accept", "copy", "count", "f3", "f30", "f31", "clear", "step", "f41", "rewind", "oldest", "end"}
      /\ q = "accept" => f = 1
      /\ q = "copy" => f \in Copying
      /\ f \in Copying => q \in Early
  BY EntryIs DEF Copying, Early
<1>2. task' = [task EXCEPT ![Boot] = g] /\ task[Boot].pc = "bakup" /\ cpu = Boot
  BY DEF LogWritePon, At
<1>3. UNCHANGED <<LOG_DAT, log_bakup, params, req, CheckParam, flt, cpu>>
  BY DEF LogWritePon, ram, flashing
<1>4. log_bakup.Lno \in Logs /\ log_bakup.stat_kind \in {0, 1}
  BY DEF Inv, Shape, OtherShape
<1>13. g = Frame(q, log_bakup.Lno, d, log_bakup.stat_kind)
  OBVIOUS
<1> HIDE DEF f, q, d, g
<1>5. IsFrame(g) /\ g.pc = q /\ g.Lno = log_bakup.Lno /\ g.kind = log_bakup.stat_kind
  BY <1>4, <1>13, FrameIs
<1>6. /\ TaskShape' /\ \A w \in Tasks : task'[w] = task[w]
      /\ task'[Boot].pc = q /\ task'[Boot].Lno = log_bakup.Lno /\ task'[Boot].kind = log_bakup.stat_kind
  BY <1>2, <1>5, TaskSet DEF Inv, Shape, Workers, LogAssumption
<1>7. Shape'
  BY <1>3, <1>6 DEF Inv, Shape, RamShape, ParShape, OtherShape
<1>8. BootInv' /\ RequestInv'
  BY <1>1, <1>2, <1>3, <1>6 DEF Inv, Safe, BootInv, RequestInv, Up
<1>9. FrameInv'
  BY <1>1, <1>3, <1>6 DEF Inv, Safe, FrameInv, Lno, Kind, Workers
<1>10. BakupInv'
  BY <1>1, <1>2, <1>3, <1>6 DEF f, Inv, Safe, BakupInv, Workers, Lno, Kind
<1>11. AcceptInv'
  <2>1. \A w \in Tasks : task[w].pc # "accept"
    BY <1>2 DEF Inv, Safe, BootInv, Up, Idle, Frame
  <2> QED
    BY <2>1, <1>1, <1>2, <1>3, <1>6 DEF f, AcceptInv, Workers
<1>12. CopyInv'
  <2>1. task'[Boot].pc \in {"accept", "copy"} => f \in Copying
    BY <1>1, <1>6 DEF Copying
  <2> QED
    BY <2>1, <1>3, <1>6 DEF f, Inv, Safe, BakupInv, CopyInv, Lno, Kind
<1> QED
  BY <1>7, <1>8, <1>9, <1>10, <1>11, <1>12 DEF Inv, Safe

LEMMA BootDoneSafe == ASSUME LogAssumption, Inv, BootDone PROVE Inv'
<1>1. /\ task[Boot].pc = "pon" /\ task' = [task EXCEPT ![Boot] = Idle] /\ Pending = {}
      /\ UNCHANGED <<LOG_DAT, log_bakup, req, flt>>
      /\ cpu = Boot /\ cpu' = None /\ CheckParam' = [l \in Flashed |-> None]
  BY DEF BootDone, At, ram
<1>2. IsFrame(Idle) /\ Idle.pc = "idle"
  BY FrameIs DEF Idle, LogAssumption
<1>3. TaskShape' /\ task'[Boot] = Idle /\ \A w \in Tasks : task'[w] = task[w]
  BY <1>1, <1>2, TaskSet DEF Inv, Shape, Workers, LogAssumption
<1>4. \A w \in Tasks : task[w] = Idle
  BY <1>1 DEF Inv, Safe, BootInv, Up
<1>5. ParShape'
  <2>1. \A l \in Flashed : IsParam(params'[l])
    <3> SUFFICES ASSUME NEW l \in Flashed
                 PROVE  IsParam(params'[l])
      OBVIOUS
    <3>1. IsParam(params[l])
      BY DEF Inv, Shape, ParShape
    <3>2. params'[l] = [params[l] EXCEPT !.f_recover = 0, !.get_sector = 0, !.stat_Fcount = 0, !.stat_sectnum = 0]
      BY DEF BootDone
    <3> QED
      BY <3>1, <3>2, ClearedIs
  <2>2. params' = [l \in Flashed |-> params'[l]]
    BY DEF BootDone
  <2> QED
    BY <2>1, <2>2 DEF ParShape
<1>6. Shape'
  BY <1>1, <1>3, <1>5 DEF Inv, Shape, RamShape, OtherShape
<1>7. \A l \in Flashed : ~ req'[l]
  BY <1>1 DEF Pending, Inv, Shape, OtherShape
<1>8. BootInv' /\ RequestInv'
  BY <1>1, <1>2, <1>3, <1>7 DEF BootInv, RequestInv, Up
<1>9. \A w \in Workers : task'[w].pc = "idle"
  BY <1>2, <1>3, <1>4 DEF Workers
<1>10. FrameInv' /\ AcceptInv' /\ CopyInv'
  BY <1>1, <1>9 DEF Inv, Safe, FrameInv, AcceptInv, CopyInv, OneTurn, Early, Workers
<1>11. BakupInv'
  <2>1. log_bakup.f_recover \notin Copying
    BY <1>1 DEF Inv, Safe, BakupInv, Early
  <2> QED
    BY <2>1, <1>1 DEF BakupInv
<1> QED
  BY <1>6, <1>8, <1>10, <1>11 DEF Inv, Safe

LEMMA PowerCutSafe == ASSUME LogAssumption, Inv, PowerCut PROVE Inv'
<1>1. /\ cpu' = Boot /\ flt' = [pc |-> "idle", log |-> 0, by |-> FLT]
      /\ task' = [w \in Workers |-> IF w = Boot THEN Frame("bakup", 0, 0, 0) ELSE Idle]
      /\ CheckParam' = [l \in Flashed |-> 0]
      /\ UNCHANGED <<log_bakup, LOG_DAT, req, params>>
  BY DEF PowerCut, Workers, ram
<1>2. IsFrame(Idle) /\ Idle.pc = "idle" /\ IsFrame(Frame("bakup", 0, 0, 0)) /\ Frame("bakup", 0, 0, 0).pc = "bakup"
  BY FrameIs DEF Idle, LogAssumption
<1>3. TaskShape' /\ task'[Boot].pc = "bakup" /\ \A w \in Tasks : task'[w] = Idle
  BY <1>1, <1>2 DEF TaskShape, Workers, LogAssumption
<1>4. Shape'
  BY <1>1, <1>3 DEF Inv, Shape, RamShape, ParShape, OtherShape
<1>5. BootInv' /\ RequestInv' /\ AcceptInv' /\ CopyInv'
  BY <1>1, <1>2, <1>3 DEF BootInv, RequestInv, AcceptInv, CopyInv, Up, Workers
<1>6. FrameInv'
  BY <1>1, <1>2, <1>3 DEF Inv, Safe, FrameInv, OneTurn, Early, Workers
<1>7. BakupInv'
  BY <1>1, <1>3 DEF Inv, Safe, BakupInv, Workers
<1> QED
  BY <1>4, <1>5, <1>6, <1>7 DEF Inv, Safe

-----------------------------------------------------------------------------
(* The steps of Log_Write that begin a record, wait, turn to the other     *)
(* bank, ask for a write to flash, and end.                                *)

\* Where a task has asked, and not yet turned or waited.
Asked == {"f31", "toggle", "wait31"}

\* A task elsewhere does not disturb the requests.
LEMMA RequestsHold ==
    ASSUME LogAssumption, Inv, Up, NEW w \in Tasks,
           \A u \in Workers \ {w} : task'[u] = task[u],
           KindsKept, UNCHANGED <<params, req>>,
           task'[w].pc \notin Asked,
           \A l \in Flashed : l = Lno(w) /\ task[w].pc \in Asked => ~ req[l],
           \A l \in Flashed : CheckParam'[l] = CheckParam[l] \/ (CheckParam'[l] = None /\ ~ req[l])
    PROVE  RequestInv'
<1> SUFFICES ASSUME NEW l \in Flashed
             PROVE  /\ CheckParam'[l] \in {None, l}
                    /\ req[l] => CheckParam'[l] = l
                    /\ req[l] /\ l \in OneBank => Doing(l, {"f31", "wait31"})'
                    /\ req[l] /\ l \notin OneBank =>
                          params[l].sramlog_kind # LOG_DAT[l].kind \/ Doing(l, {"f31", "toggle"})'
                    /\ Doing(l, {"f31", "toggle"})' /\ req[l] => params[l].sramlog_kind = LOG_DAT[l].kind
  BY DEF RequestInv, KindsKept, LogAssumption
<1>1. TaskOf[l] \in Tasks
  BY DEF LogAssumption
<1>2. /\ CheckParam[l] \in {None, l}
      /\ req[l] => CheckParam[l] = l
      /\ req[l] /\ l \in OneBank => Doing(l, {"f31", "wait31"})
      /\ req[l] /\ l \notin OneBank =>
            params[l].sramlog_kind # LOG_DAT[l].kind \/ Doing(l, {"f31", "toggle"})
      /\ Doing(l, {"f31", "toggle"}) /\ req[l] => params[l].sramlog_kind = LOG_DAT[l].kind
  BY DEF Inv, Safe, RequestInv
<1>3. CASE TaskOf[l] = w
  <2>1. ~ Doing(l, {"f31", "toggle"})' /\ ~ Doing(l, {"f31", "wait31"})'
    BY <1>3 DEF Doing, Asked
  <2>2. req[l] => ~ Doing(l, {"f31", "toggle"}) /\ ~ Doing(l, {"f31", "wait31"})
    BY <1>3 DEF Doing, Asked, Lno
  <2> QED
    BY <2>1, <2>2, <1>2
<1>4. CASE TaskOf[l] # w
  <2>1. task'[TaskOf[l]] = task[TaskOf[l]]
    BY <1>1, <1>4 DEF Workers
  <2> QED
    BY <2>1, <1>2 DEF Doing
<1> QED
  BY <1>3, <1>4

\* Who runs Log_Write is a task after start-up, or start-up itself.
LEMMA TaskRuns ==
    ASSUME LogAssumption, Inv, NEW w \in Tasks, task[w].pc # "idle"
    PROVE  Up
BY DEF Inv, Safe, BootInv, Idle, Frame

\* A record still to be copied is that of whoever runs.
LEMMA RecordOf ==
    ASSUME Inv, NEW w, cpu = w, task[w].pc # "bakup", log_bakup.f_recover \in Copying
    PROVE  /\ task[w].pc \in Early /\ Lno(w) = log_bakup.Lno /\ Kind(w) = log_bakup.stat_kind
BY DEF Inv, Safe, BakupInv

LEMMA AcceptSafe == ASSUME LogAssumption, Inv, NEW w \in Workers, Accept(w) PROVE Inv'
<1> DEFINE p == IF Lno(w) \in OneBank /\ w # Boot THEN "wait10" ELSE "copy"
           n == IF Lno(w) \in OneBank THEN 10 ELSE 20
<1>1. /\ cpu = w /\ cpu' = w /\ task[w].pc = "accept" /\ Goto(w, p) /\ UNCHANGED flashing
      /\ log_bakup' = [log_bakup EXCEPT !.f_recover = n]
  BY DEF Accept, At
<1>2. p \in {"wait10", "copy"} /\ n \in Copying /\ (p = "wait10" => Lno(w) \in OneBank /\ w # Boot)
  BY DEF Copying
<1>3. RamShape' /\ BanksKept
  <2>1. CASE Lno(w) \in OneBank
    <3>1. Lno(w) \in Logs /\ Lp(w).kind = 0 /\ LOG_DAT' = [LOG_DAT EXCEPT ![Lno(w)].kind = 0]
      BY <2>1 DEF LogAssumption, Inv, Safe, FrameInv, Lp, Accept
    <3> QED
      BY <3>1, SetKind DEF Inv, Shape, BanksKept, Lp
  <2>2. CASE Lno(w) \notin OneBank
    BY <2>2, NoneSet DEF Accept, Inv, Shape
  <2> QED
    BY <2>1, <2>2
<1> HIDE DEF p, n
<1>4. /\ OtherShape' /\ log_bakup'.f_recover = n
      /\ log_bakup'.Lno = log_bakup.Lno /\ log_bakup'.stat_kind = log_bakup.stat_kind
  BY <1>1, MarkIs DEF Inv, Shape, flashing
<1>5. /\ TaskShape' /\ \A u \in Workers \ {w} : task'[u] = task[u]
      /\ task'[w].pc = p /\ task'[w].Lno = task[w].Lno /\ task'[w].kind = task[w].kind
  BY <1>1, GotoIs DEF Inv, Shape
<1>6. UNCHANGED <<params, req, CheckParam, flt>>
  BY <1>1 DEF flashing
<1>7. Shape'
  BY <1>3, <1>4, <1>5, <1>6 DEF Inv, Shape, ParShape
<1>8. log_bakup.f_recover = 1 /\ Lno(w) = log_bakup.Lno /\ Kind(w) = log_bakup.stat_kind
  BY <1>1, RecordOf DEF Inv, Safe, AcceptInv, Copying
<1>9. BootInv' /\ RequestInv' /\ CopyInv'
  <2>1. CASE w = Boot
    <3>1. ~ Up /\ p = "copy" /\ ~ Up'
      BY <2>1, <1>1, <1>2, <1>5 DEF Up
    <3>2. BootInv'
      BY <3>1, <2>1, <1>1, <1>5, <1>6 DEF LogAssumption, Inv, Safe, BootInv, Workers
    <3>3. CopyInv'
      BY <2>1, <1>5, <1>6, <1>8 DEF Inv, Safe, BakupInv, CopyInv, Lno, Kind, Copying
    <3> QED
      BY <3>1, <3>2, <3>3 DEF RequestInv
  <2>2. CASE w \in Tasks
    <3>1. Up /\ task'[Boot] = task[Boot]
      BY <2>2, <1>1, <1>5, TaskRuns DEF LogAssumption, Workers
    <3>2. RequestInv'
      BY <2>2, <3>1, <1>1, <1>2, <1>3, <1>5, <1>6, RequestsHold DEF Asked, BanksKept, KindsKept
    <3> QED
      BY <3>1, <3>2 DEF BootInv, CopyInv, Up
  <2> QED
    BY <2>1, <2>2 DEF Workers
<1>10. FrameInv'
  <2>1. \A u \in Workers : task[u].Lno \in Logs
    BY DEF Inv, Shape, TaskShape, IsFrame
  <2>2. \A u \in Tasks : task'[u].pc # "idle" => TaskOf[task'[u].Lno] = u
    BY <1>1, <1>5 DEF Inv, Safe, FrameInv, Lno, Workers
  <2>3. \A u \in Tasks : task'[u].pc \in OneTurn => task'[u].kind = LOG_DAT'[task'[u].Lno].kind
    <3> SUFFICES ASSUME NEW u \in Tasks, task'[u].pc \in OneTurn
                 PROVE  task'[u].kind = LOG_DAT'[task'[u].Lno].kind
      OBVIOUS
    <3>1. task[u].pc \in OneTurn /\ task'[u].Lno = task[u].Lno /\ task'[u].kind = task[u].kind
      BY <1>1, <1>5 DEF OneTurn, Early, Workers
    <3>2. task[u].kind = LOG_DAT[task[u].Lno].kind
      BY <3>1 DEF Inv, Safe, FrameInv, Lno, Kind
    <3> QED
      BY <3>1, <3>2, <2>1, <1>3 DEF BanksKept, Workers
  <2>4. \A u \in Workers : /\ task'[u].pc = "toggle" => task'[u].Lno \notin OneBank
                           /\ task'[u].pc \in {"wait10", "wait31"} => task'[u].Lno \in OneBank
    BY <1>2, <1>5 DEF Inv, Safe, FrameInv, Lno
  <2>5. \A l \in OneBank : LOG_DAT'[l].kind = 0
    BY <1>3 DEF LogAssumption, Inv, Safe, FrameInv, BanksKept
  <2> QED
    BY <2>2, <2>3, <2>4, <2>5 DEF FrameInv, Lno, Kind
<1>11. BakupInv'
  <2>1. task'[w].pc \in Early /\ Lno(w)' = log_bakup'.Lno /\ Kind(w)' = log_bakup'.stat_kind
    BY <1>2, <1>4, <1>5, <1>8 DEF Early, Lno, Kind
  <2>2. log_bakup'.Lno \in Flashed /\ req'[log_bakup'.Lno] =>
            params'[log_bakup'.Lno].sramlog_kind # log_bakup'.stat_kind
    BY <1>4, <1>6, <1>8 DEF Inv, Safe, BakupInv, Copying
  <2> QED
    BY <2>1, <2>2, <1>1 DEF BakupInv, Workers
<1>12. AcceptInv'
  BY <1>1, <1>2, <1>5 DEF Inv, Safe, AcceptInv
<1> QED
  BY <1>7, <1>9, <1>10, <1>11, <1>12 DEF Inv, Safe

\* A waiting task is after start-up, and its log's request is the one it sees.
LEMMA WaitIs ==
    ASSUME LogAssumption, Inv, NEW w \in Workers, Waits(w)
    PROVE  /\ w \in Tasks /\ Up /\ task[w].pc \in {"wait10", "wait30", "wait31"}
           /\ Lno(w) \in Flashed /\ req[Lno(w)] => IsWriting(Lno(w))
           /\ task[w].pc = "wait10" => ~ IsWriting(Lno(w))
<1>1. task[w].pc \in {"wait10", "wait30", "wait31"}
  BY DEF Waits, WaitNext
<1>2. w \in Tasks /\ Up
  <2>1. w # Boot
    BY <1>1 DEF Inv, Safe, BootInv, Up
  <2> QED
    BY <2>1, <1>1, TaskRuns DEF Workers
<1>3. Lno(w) \in Flashed => CheckParam[Lno(w)] \in {None, Lno(w)} /\ (req[Lno(w)] => CheckParam[Lno(w)] = Lno(w))
  BY <1>2 DEF Inv, Safe, RequestInv
<1>4. Lno(w) \in Logs /\ Lno(w) # None
  BY DEF LogAssumption, Inv, Shape, TaskShape, IsFrame, Lno
<1>5. ASSUME task[w].pc = "wait10"
      PROVE  ~ IsWriting(Lno(w))
  <2>1. Lno(w) \in OneBank /\ Lno(w) \in Flashed /\ TaskOf[Lno(w)] = w
    BY <1>2, <1>5 DEF LogAssumption, Inv, Safe, FrameInv
  <2>2. ~ Doing(Lno(w), {"f31", "wait31"})
    BY <2>1, <1>5 DEF Doing
  <2>3. ~ req[Lno(w)]
    BY <2>1, <2>2, <1>2 DEF Inv, Safe, RequestInv
  <2> QED
    BY <2>1, <2>3, <1>3 DEF IsWriting
<1> QED
  BY <1>1, <1>2, <1>3, <1>4, <1>5 DEF IsWriting

LEMMA WaitYieldsSafe == ASSUME LogAssumption, Inv, NEW w \in Workers, WaitYields(w) PROVE Inv'
<1>1. /\ cpu = w /\ cpu' = None /\ Waits(w) /\ IsWriting(Lno(w))
      /\ UNCHANGED <<LOG_DAT, log_bakup, params, req, CheckParam, flt, task>>
  BY DEF WaitYields, ram, flashing
<1>2. Up /\ task[w].pc \in {"wait30", "wait31"}
  BY <1>1, WaitIs
<1>3. log_bakup.f_recover \notin Copying
  BY <1>1, <1>2, RecordOf DEF Early
<1>4. \A u \in Workers : task[u].pc # "accept"
  BY <1>1, <1>2 DEF Inv, Safe, AcceptInv
<1>5. BootInv' /\ BakupInv' /\ AcceptInv'
  BY <1>1, <1>2, <1>3, <1>4 DEF BootInv, BakupInv, AcceptInv, Up
<1>6. Shape' /\ FrameInv' /\ RequestInv' /\ CopyInv'
  BY <1>1 DEF Inv, Safe, Shape, RamShape, ParShape, TaskShape, OtherShape,
              FrameInv, RequestInv, CopyInv, Up, Doing, Kind, Lno
<1> QED
  BY <1>5, <1>6 DEF Inv, Safe

LEMMA WaitEndsSafe == ASSUME LogAssumption, Inv, NEW w \in Workers, WaitEnds(w) PROVE Inv'
<1> DEFINE p == WaitNext[task[w].pc]
<1>1. /\ cpu \in {w, None} /\ cpu' = w /\ Waits(w) /\ ~ IsWriting(Lno(w)) /\ Goto(w, p)
      /\ CheckParam' = [CheckParam EXCEPT ![Lno(w)] = None]
      /\ UNCHANGED <<LOG_DAT, log_bakup, params, req, flt>>
  BY DEF WaitEnds, ram, Seen
<1>2. w \in Tasks /\ Up /\ (Lno(w) \in Flashed => ~ req[Lno(w)])
  BY <1>1, WaitIs
<1>3. \/ task[w].pc = "wait10" /\ p = "copy"
      \/ task[w].pc = "wait30" /\ p = "request"
      \/ task[w].pc = "wait31" /\ p = "clear31"
  BY <1>1, WaitIs DEF WaitNext
<1> HIDE DEF p
<1>4. /\ TaskShape' /\ \A u \in Workers \ {w} : task'[u] = task[u]
      /\ task'[w].pc = p /\ task'[w].Lno = task[w].Lno /\ task'[w].kind = task[w].kind
  BY <1>1, GotoIs DEF Inv, Shape
<1>5. Shape'
  BY <1>1, <1>4 DEF Inv, Shape, RamShape, ParShape, OtherShape
<1>6. task'[Boot] = task[Boot]
  BY <1>2, <1>4 DEF LogAssumption, Workers
<1>7. BootInv' /\ CopyInv'
  BY <1>1, <1>2, <1>6 DEF Inv, Safe, BootInv, CopyInv, Up, Lno, Kind
<1>8. RequestInv'
  <2>1. \A l \in Flashed : CheckParam'[l] = CheckParam[l] \/ (CheckParam'[l] = None /\ ~ req[l])
    BY <1>1, <1>2 DEF Inv, Shape, OtherShape
  <2> QED
    BY <2>1, <1>1, <1>2, <1>3, <1>4, RequestsHold DEF Asked, KindsKept
<1>9. FrameInv'
  <2>1. \A u \in Tasks : task'[u].pc # "idle" => TaskOf[task'[u].Lno] = u
    BY <1>2, <1>3, <1>4 DEF Inv, Safe, FrameInv, Lno, Workers
  <2>2. \A u \in Tasks : task'[u].pc \in OneTurn => task'[u].kind = LOG_DAT'[task'[u].Lno].kind
    BY <1>1, <1>2, <1>3, <1>4 DEF Inv, Safe, FrameInv, OneTurn, Early, Lno, Kind, Workers
  <2>3. \A u \in Workers : /\ task'[u].pc = "toggle" => task'[u].Lno \notin OneBank
                           /\ task'[u].pc \in {"wait10", "wait31"} => task'[u].Lno \in OneBank
    BY <1>3, <1>4 DEF Inv, Safe, FrameInv, Lno
  <2> QED
    BY <2>1, <2>2, <2>3, <1>1 DEF Inv, Safe, FrameInv, Lno, Kind
<1>10. BakupInv'
  <2> SUFFICES ASSUME log_bakup.f_recover \in Copying
               PROVE  BakupInv'
    BY <1>1 DEF BakupInv
  <2>1. cpu = w
    BY <1>1 DEF LogAssumption, Inv, Safe, BakupInv, Workers
  <2>2. task[w].pc \in Early /\ Lno(w) = log_bakup.Lno /\ Kind(w) = log_bakup.stat_kind
    BY <2>1, <1>3, RecordOf
  <2>3. task'[w].pc \in Early /\ Lno(w)' = log_bakup.Lno /\ Kind(w)' = log_bakup.stat_kind
    BY <2>2, <1>3, <1>4 DEF Early, Lno, Kind
  <2> QED
    BY <2>3, <1>1 DEF Inv, Safe, BakupInv
<1>11. AcceptInv'
  <2>1. \A u \in Workers : task[u].pc # "accept"
    BY <1>1, <1>3 DEF LogAssumption, Inv, Safe, AcceptInv, Workers
  <2> QED
    BY <2>1, <1>3, <1>4 DEF AcceptInv
<1> QED
  BY <1>5, <1>7, <1>8, <1>9, <1>10, <1>11 DEF Inv, Safe

LEMMA ToggleSafe == ASSUME LogAssumption, Inv, NEW w \in Workers, Toggle(w) PROVE Inv'
<1> DEFINE l == Lno(w)
           x == IF ToDo(w, log_bakup.stat_kind, LOG_DAT[l].kind) THEN 1 - Kind(w) ELSE LOG_DAT[l].kind
<1>1. /\ cpu = w /\ cpu' = w /\ task[w].pc = "toggle" /\ Goto(w, "f321")
      /\ LOG_DAT' = [LOG_DAT EXCEPT ![l].kind = x]
      /\ UNCHANGED <<log_bakup, params, req, CheckParam, flt>>
  BY DEF Toggle, At, flashing
<1>2. l \in Logs /\ Kind(w) \in {0, 1} /\ x \in {0, 1} /\ l \notin OneBank
  <2>1. l \in Logs /\ Kind(w) \in {0, 1}
    BY DEF Inv, Shape, TaskShape, IsFrame, Lno, Kind
  <2>2. 1 - Kind(w) \in {0, 1} /\ LOG_DAT[l].kind \in {0, 1}
    <3>1. 1 - Kind(w) \in {0, 1}
      BY <2>1
    <3>2. LOG_DAT[l].kind \in {0, 1}
      BY <2>1 DEF Inv, Shape, RamShape, IsLog
    <3> QED
      BY <3>1, <3>2
  <2>3. l \notin OneBank
    BY <1>1 DEF Inv, Safe, FrameInv
  <2> QED
    BY <2>1, <2>2, <2>3
<1>3. w # Boot => x = 1 - Kind(w)
  BY DEF ToDo
<1> HIDE DEF l, x
<1>4. /\ RamShape' /\ LOG_DAT'[l].kind = x
      /\ \A m \in Logs \ {l} : LOG_DAT'[m].kind = LOG_DAT[m].kind
  BY <1>1, <1>2, SetKind DEF Inv, Shape
<1>5. /\ TaskShape' /\ \A u \in Workers \ {w} : task'[u] = task[u]
      /\ task'[w].pc = "f321" /\ task'[w].Lno = task[w].Lno
  BY <1>1, GotoIs DEF Inv, Shape
<1>6. Shape'
  BY <1>1, <1>4, <1>5 DEF Inv, Shape, ParShape, OtherShape
<1>7. BootInv' /\ CopyInv'
  <2>1. CASE w = Boot
    <3>1. ~ Up
      BY <2>1, <1>1 DEF Up
    <3>2. \A u \in Tasks : task'[u] = Idle
      BY <3>1, <2>1, <1>5 DEF LogAssumption, Inv, Safe, BootInv, Workers
    <3> QED
      BY <2>1, <3>1, <3>2, <1>1, <1>5 DEF Inv, Safe, BootInv, CopyInv
  <2>2. CASE w \in Tasks
    <3>1. Up /\ task'[Boot] = task[Boot]
      BY <2>2, <1>1, <1>5, TaskRuns DEF LogAssumption, Workers
    <3> QED
      BY <3>1 DEF BootInv, CopyInv, Up
  <2> QED
    BY <2>1, <2>2 DEF Workers
<1>8. FrameInv'
  <2>1. \A u \in Tasks : task'[u].pc # "idle" => TaskOf[task'[u].Lno] = u
    BY <1>1, <1>5 DEF Inv, Safe, FrameInv, Lno, Workers
  <2>2. \A u \in Tasks : task'[u].pc \in OneTurn => task'[u].kind = LOG_DAT'[task'[u].Lno].kind
    <3> SUFFICES ASSUME NEW u \in Tasks, task'[u].pc \in OneTurn
                 PROVE  task'[u].kind = LOG_DAT'[task'[u].Lno].kind
      OBVIOUS
    <3>1. u # w /\ u \in Workers
      BY <1>5 DEF OneTurn, Early, Workers
    <3>2. task'[u] = task[u] /\ task[u].Lno \in Logs
      BY <3>1, <1>5 DEF Inv, Shape, TaskShape, IsFrame
    <3>3. task[u].pc # "idle" /\ TaskOf[task[u].Lno] = u
      BY <3>2 DEF OneTurn, Early, Inv, Safe, FrameInv, Lno
    <3>4. task[u].Lno # l
      <4>1. CASE w = Boot
        BY <4>1, <1>1, <3>3 DEF Inv, Safe, BootInv, Up, Idle, Frame
      <4>2. CASE w \in Tasks
        BY <4>2, <3>1, <3>3, <1>1 DEF Inv, Safe, FrameInv, l
      <4> QED
        BY <4>1, <4>2 DEF Workers
    <3> QED
      BY <3>2, <3>4, <1>4 DEF Inv, Safe, FrameInv, Lno, Kind
  <2>3. \A u \in Workers : /\ task'[u].pc = "toggle" => task'[u].Lno \notin OneBank
                           /\ task'[u].pc \in {"wait10", "wait31"} => task'[u].Lno \in OneBank
    BY <1>5 DEF Inv, Safe, FrameInv, Lno
  <2>4. \A m \in OneBank : LOG_DAT'[m].kind = 0
    BY <1>2, <1>4 DEF LogAssumption, Inv, Safe, FrameInv
  <2> QED
    BY <2>1, <2>2, <2>3, <2>4 DEF FrameInv, Lno, Kind
<1>9. RequestInv'
  <2>1. CASE w = Boot
    BY <2>1, <1>5 DEF RequestInv, Up
  <2>2. CASE w \in Tasks
    <3>1. Up /\ Kind(w) = LOG_DAT[l].kind
      BY <2>2, <1>1, TaskRuns DEF Inv, Safe, FrameInv, OneTurn, l
    <3> SUFFICES ASSUME NEW m \in Flashed
                 PROVE  /\ CheckParam[m] \in {None, m}
                        /\ req[m] => CheckParam[m] = m
                        /\ req[m] /\ m \in OneBank => Doing(m, {"f31", "wait31"})'
                        /\ req[m] /\ m \notin OneBank =>
                              params[m].sramlog_kind # LOG_DAT'[m].kind \/ Doing(m, {"f31", "toggle"})'
                        /\ Doing(m, {"f31", "toggle"})' /\ req[m] => params[m].sramlog_kind = LOG_DAT'[m].kind
      BY <1>1 DEF RequestInv
    <3>2. /\ CheckParam[m] \in {None, m}
          /\ req[m] => CheckParam[m] = m
          /\ req[m] /\ m \in OneBank => Doing(m, {"f31", "wait31"})
          /\ req[m] /\ m \notin OneBank =>
                params[m].sramlog_kind # LOG_DAT[m].kind \/ Doing(m, {"f31", "toggle"})
          /\ Doing(m, {"f31", "toggle"}) /\ req[m] => params[m].sramlog_kind = LOG_DAT[m].kind
      BY <3>1 DEF Inv, Safe, RequestInv
    <3>3. TaskOf[m] \in Tasks /\ TaskOf[m] \in Workers /\ m \in Logs
      BY DEF LogAssumption, Workers
    <3>4. CASE m = l
      <4>1. TaskOf[m] = w
        BY <2>2, <3>4, <1>1 DEF Inv, Safe, FrameInv, l
      <4>2. Doing(m, {"f31", "toggle"})
        BY <3>4, <4>1, <1>1 DEF Doing, l, Lno
      <4>3. ~ Doing(m, {"f31", "toggle"})'
        BY <4>1, <1>5 DEF Doing
      <4>4. req[m] => params[m].sramlog_kind = Kind(w)
        BY <3>1, <3>2, <3>4, <4>2
      <4>5. LOG_DAT'[m].kind = 1 - Kind(w)
        BY <2>2, <3>4, <1>3, <1>4 DEF LogAssumption
      <4>6. Kind(w) # 1 - Kind(w)
        BY <1>2
      <4> QED
        BY <3>2, <3>4, <4>3, <4>4, <4>5, <4>6, <1>2
    <3>5. CASE m # l
      <4>1. CASE TaskOf[m] = w
        <5>1. ~ Doing(m, {"f31", "toggle"}) /\ ~ Doing(m, {"f31", "wait31"})
          BY <4>1, <3>5 DEF Doing, l, Lno
        <5>2. ~ Doing(m, {"f31", "toggle"})' /\ ~ Doing(m, {"f31", "wait31"})'
          BY <4>1, <1>5 DEF Doing
        <5> QED
          BY <5>1, <5>2, <3>2, <3>3, <3>5, <1>4
      <4>2. CASE TaskOf[m] # w
        <5>1. task'[TaskOf[m]] = task[TaskOf[m]]
          BY <3>3, <4>2, <1>5
        <5> QED
          BY <5>1, <3>2, <3>3, <3>5, <1>4 DEF Doing
      <4> QED
        BY <4>1, <4>2
    <3> QED
      BY <3>4, <3>5
  <2> QED
    BY <2>1, <2>2 DEF Workers
<1>10. BakupInv' /\ AcceptInv'
  <2>1. log_bakup.f_recover \notin Copying
    BY <1>1, RecordOf DEF Early
  <2> QED
    BY <2>1, <1>1, <1>5 DEF Inv, Safe, BakupInv, AcceptInv
<1> QED
  BY <1>6, <1>7, <1>8, <1>9, <1>10 DEF Inv, Safe

LEMMA FinishSafe == ASSUME LogAssumption, Inv, NEW w \in Workers, Finish(w) PROVE Inv'
<1> DEFINE g == IF w = Boot THEN Frame("pon", 0, 0, 0) ELSE Idle
<1>1. /\ cpu = w /\ task[w].pc = "end" /\ task' = [task EXCEPT ![w] = g] /\ log_bakup' = NoBakup
      /\ cpu' = IF w = Boot THEN Boot ELSE None
      /\ UNCHANGED <<LOG_DAT, params, req, CheckParam, flt>>
  BY DEF Finish, At, flashing
<1>2. IsFrame(g) /\ g.pc = (IF w = Boot THEN "pon" ELSE "idle") /\ (w # Boot => g = Idle)
  BY FrameIs DEF Idle, LogAssumption
<1> HIDE DEF g
<1>3. TaskShape' /\ task'[w] = g /\ \A u \in Workers \ {w} : task'[u] = task[u]
  BY <1>1, <1>2, TaskSet DEF Inv, Shape
<1>4. OtherShape' /\ log_bakup'.f_recover = 0
  <2>1. 0 \in Logs
    BY DEF LogAssumption
  <2> QED
    BY <2>1, <1>1 DEF Inv, Shape, OtherShape, NoBakup
<1>5. Shape'
  BY <1>1, <1>3, <1>4 DEF Inv, Shape, RamShape, ParShape
<1>6. \A u \in Workers : task[u].pc # "accept"
  BY <1>1 DEF Inv, Safe, AcceptInv
<1>7. BakupInv' /\ AcceptInv'
  BY <1>2, <1>3, <1>4, <1>6 DEF BakupInv, AcceptInv, Copying
<1>8. FrameInv'
  <2>1. \A u \in Workers : u # w => task'[u] = task[u]
    BY <1>3
  <2>2. task'[w].pc \in {"pon", "idle"}
    BY <1>2, <1>3
  <2>3. w \in Tasks => task'[w].pc = "idle"
    BY <1>2, <1>3 DEF LogAssumption
  <2> QED
    BY <2>1, <2>2, <2>3, <1>1 DEF Inv, Safe, FrameInv, OneTurn, Early, Lno, Kind, Workers
<1>9. BootInv' /\ CopyInv' /\ RequestInv'
  <2>1. CASE w = Boot
    <3>1. ~ Up
      BY <2>1, <1>1 DEF Up
    <3>2. \A u \in Tasks : task'[u] = Idle
      BY <3>1, <2>1, <1>3 DEF LogAssumption, Inv, Safe, BootInv, Workers
    <3> QED
      BY <2>1, <3>1, <3>2, <1>1, <1>2, <1>3 DEF Inv, Safe, BootInv, CopyInv, RequestInv, Up
  <2>2. CASE w \in Tasks
    <3>1. Up /\ task'[Boot] = task[Boot]
      BY <2>2, <1>1, <1>3, TaskRuns DEF LogAssumption, Workers
    <3>2. RequestInv'
      <4>1. task'[w].pc \notin Asked /\ task[w].pc \notin Asked
        BY <2>2, <1>1, <1>2, <1>3 DEF LogAssumption, Asked
      <4> QED
        BY <2>2, <3>1, <4>1, <1>1, <1>3, RequestsHold DEF KindsKept
    <3> QED
      BY <3>1, <3>2 DEF BootInv, CopyInv, Up
  <2> QED
    BY <2>1, <2>2 DEF Workers
<1> QED
  BY <1>5, <1>7, <1>8, <1>9 DEF Inv, Safe

LEMMA RequestSafe == ASSUME LogAssumption, Inv, NEW w \in Workers, Request(w) PROVE Inv'
<1> DEFINE l == Lno(w)
<1>1. /\ w \in Tasks /\ cpu = w /\ cpu' = w /\ task[w].pc = "request" /\ Goto(w, "f31") /\ Requested(l)
      /\ CheckParam' = [CheckParam EXCEPT ![l] = l]
      /\ UNCHANGED <<LOG_DAT, log_bakup, flt>>
  BY DEF Request, At, ram, Workers
<1>2. l \in Logs /\ Kind(w) = LOG_DAT[l].kind /\ TaskOf[l] = w
  BY <1>1 DEF Inv, Shape, TaskShape, IsFrame, Lno, Safe, FrameInv, OneTurn, Workers
<1> HIDE DEF l
<1>3. /\ ParShape' /\ req' \in [Flashed -> BOOLEAN]
      /\ l \in Flashed => req'[l] /\ params'[l].sramlog_kind = LOG_DAT[l].kind
      /\ \A m \in Flashed \ {l} : req'[m] = req[m] /\ params'[m].sramlog_kind = params[m].sramlog_kind
  BY <1>1, <1>2, RequestedIs DEF Inv
<1>4. /\ TaskShape' /\ \A u \in Workers \ {w} : task'[u] = task[u]
      /\ task'[w].pc = "f31" /\ task'[w].Lno = task[w].Lno /\ task'[w].kind = task[w].kind
  BY <1>1, GotoIs DEF Inv, Shape
<1>5. Shape'
  BY <1>1, <1>3, <1>4 DEF Inv, Shape, RamShape, OtherShape
<1>6. Up /\ task'[Boot] = task[Boot]
  BY <1>1, <1>4, TaskRuns DEF LogAssumption, Workers
<1>7. BootInv' /\ CopyInv'
  BY <1>6 DEF BootInv, CopyInv, Up
<1>8. FrameInv'
  <2>1. \A u \in Tasks : task'[u].pc # "idle" => TaskOf[task'[u].Lno] = u
    BY <1>1, <1>4 DEF Inv, Safe, FrameInv, Lno, Workers
  <2>2. \A u \in Tasks : task'[u].pc \in OneTurn => task'[u].kind = LOG_DAT'[task'[u].Lno].kind
    BY <1>1, <1>4 DEF Inv, Safe, FrameInv, OneTurn, Early, Lno, Kind, Workers
  <2>3. \A u \in Workers : /\ task'[u].pc = "toggle" => task'[u].Lno \notin OneBank
                           /\ task'[u].pc \in {"wait10", "wait31"} => task'[u].Lno \in OneBank
    BY <1>4 DEF Inv, Safe, FrameInv, Lno
  <2> QED
    BY <2>1, <2>2, <2>3, <1>1 DEF Inv, Safe, FrameInv, Lno, Kind
<1>9. RequestInv'
  <2> SUFFICES ASSUME NEW m \in Flashed
               PROVE  /\ CheckParam'[m] \in {None, m}
                      /\ req'[m] => CheckParam'[m] = m
                      /\ req'[m] /\ m \in OneBank => Doing(m, {"f31", "wait31"})'
                      /\ req'[m] /\ m \notin OneBank =>
                            params'[m].sramlog_kind # LOG_DAT[m].kind \/ Doing(m, {"f31", "toggle"})'
                      /\ Doing(m, {"f31", "toggle"})' /\ req'[m] => params'[m].sramlog_kind = LOG_DAT[m].kind
    BY <1>1 DEF RequestInv
  <2>1. CASE m = l
    <3>1. Doing(m, {"f31", "wait31"})' /\ Doing(m, {"f31", "toggle"})'
      BY <2>1, <1>2, <1>4 DEF Doing, l, Lno
    <3>2. CheckParam'[m] = m /\ params'[m].sramlog_kind = LOG_DAT[m].kind
      BY <2>1, <1>1, <1>3 DEF Inv, Shape, OtherShape
    <3> QED
      BY <3>1, <3>2
  <2>2. CASE m # l
    <3>1. /\ CheckParam[m] \in {None, m}
          /\ req[m] => CheckParam[m] = m
          /\ req[m] /\ m \in OneBank => Doing(m, {"f31", "wait31"})
          /\ req[m] /\ m \notin OneBank =>
                params[m].sramlog_kind # LOG_DAT[m].kind \/ Doing(m, {"f31", "toggle"})
          /\ Doing(m, {"f31", "toggle"}) /\ req[m] => params[m].sramlog_kind = LOG_DAT[m].kind
      BY <1>6 DEF Inv, Safe, RequestInv
    <3>2. CheckParam'[m] = CheckParam[m] /\ req'[m] = req[m] /\ params'[m].sramlog_kind = params[m].sramlog_kind
      BY <2>2, <1>1, <1>3 DEF Inv, Shape, OtherShape
    <3>3. TaskOf[m] \in Workers
      BY DEF LogAssumption, Workers
    <3>4. CASE TaskOf[m] = w
      <4>1. ~ Doing(m, {"f31", "toggle"}) /\ ~ Doing(m, {"f31", "wait31"})
        BY <3>4, <2>2 DEF Doing, l, Lno
      <4>2. ~ Doing(m, {"f31", "toggle"})' /\ ~ Doing(m, {"f31", "wait31"})'
        BY <3>4, <2>2, <1>4 DEF Doing, l, Lno
      <4> QED
        BY <4>1, <4>2, <3>1, <3>2
    <3>5. CASE TaskOf[m] # w
      <4>1. task'[TaskOf[m]] = task[TaskOf[m]]
        BY <3>3, <3>5, <1>4
      <4> QED
        BY <4>1, <3>1, <3>2 DEF Doing
    <3> QED
      BY <3>4, <3>5
  <2> QED
    BY <2>1, <2>2
<1>10. BakupInv' /\ AcceptInv'
  <2>1. log_bakup.f_recover \notin Copying
    BY <1>1, RecordOf DEF Early
  <2> QED
    BY <2>1, <1>1, <1>4 DEF Inv, Safe, BakupInv, AcceptInv
<1> QED
  BY <1>5, <1>7, <1>8, <1>9, <1>10 DEF Inv, Safe

LEMMA RequestPonSafe == ASSUME LogAssumption, Inv, RequestPon PROVE Inv'
<1> DEFINE l == Lno(Boot)
<1>1. /\ cpu = Boot /\ task[Boot].pc = "request" /\ Goto(Boot, "f31")
      /\ UNCHANGED <<LOG_DAT, log_bakup>>
      /\ \/ UNCHANGED <<params, req, flt, cpu, CheckParam>>
         \/ /\ Requested(l) /\ flt' = [pc |-> "start", log |-> l, by |-> Boot] /\ cpu' = FLT
            /\ CheckParam' = [CheckParam EXCEPT ![l] = None]
  BY DEF RequestPon, At, ram
<1>2. l \in Logs
  BY DEF Inv, Shape, TaskShape, IsFrame, Lno, Workers
<1> HIDE DEF l
<1>3. ParShape' /\ req' \in [Flashed -> BOOLEAN]
  BY <1>1, <1>2, RequestedIs DEF Inv, Shape, ParShape, OtherShape
<1>4. /\ TaskShape' /\ \A u \in Workers \ {Boot} : task'[u] = task[u]
      /\ task'[Boot].pc = "f31"
  BY <1>1, GotoIs DEF Inv, Shape, Workers
<1>5. Shape'
  <2>1. flt' = [pc |-> flt'.pc, log |-> flt'.log, by |-> flt'.by] /\ CheckParam' = [m \in Flashed |-> CheckParam'[m]]
    BY <1>1 DEF Inv, Shape, OtherShape
  <2> QED
    BY <2>1, <1>1, <1>3, <1>4 DEF Inv, Shape, RamShape, OtherShape
<1>6. \A u \in Tasks : task'[u] = task[u] /\ task'[u] = Idle
  BY <1>1, <1>4 DEF LogAssumption, Inv, Safe, BootInv, Up, Workers
<1>7. BootInv'
  BY <1>1, <1>4, <1>6 DEF Inv, Safe, BootInv, Up
<1>8. RequestInv' /\ CopyInv'
  BY <1>4 DEF RequestInv, CopyInv, Up
<1>9. FrameInv'
  BY <1>1, <1>4, <1>6 DEF Inv, Safe, FrameInv, Lno, Kind, Workers
<1>10. BakupInv' /\ AcceptInv'
  <2>1. log_bakup.f_recover \notin Copying
    BY <1>1, RecordOf DEF Early
  <2>2. \A u \in Workers : task'[u].pc # "accept"
    BY <1>4, <1>6 DEF Workers, Idle, Frame
  <2> QED
    BY <2>1, <2>2, <1>1 DEF BakupInv, AcceptInv
<1> QED
  BY <1>5, <1>7, <1>8, <1>9, <1>10 DEF Inv, Safe

LEMMA LogWriteSafe == ASSUME LogAssumption, Inv, NEW w \in Tasks, NEW l \in Logs, Log_Write(w, l) PROVE Inv'
<1> DEFINE d == accepted[l] + 1
           k == LOG_DAT[l].kind
           g == Frame("accept", l, d, k)
<1>1. /\ cpu = None /\ cpu' = w /\ w = TaskOf[l] /\ task[w] = Idle /\ task' = [task EXCEPT ![w] = g]
      /\ log_bakup' = [f_recover |-> 1, Lno |-> l, dat |-> d, stat_kind |-> k, stat_wtp |-> LOG_DAT[l].wtp,
                       stat_count |-> LOG_DAT[l].count[k], f_unread |-> LOG_DAT[l].f_unread]
      /\ UNCHANGED <<LOG_DAT, params, req, CheckParam, flt>>
  BY DEF Log_Write, flashing
<1>2. k \in {0, 1}
  BY DEF Inv, Shape, RamShape, IsLog
<1>3. IsFrame(g) /\ g.pc = "accept" /\ g.Lno = l /\ g.kind = k
  <2>1. g = Frame("accept", l, d, k)
    OBVIOUS
  <2> HIDE DEF g, d, k
  <2> QED
    BY <2>1, <1>2, FrameIs
<1>4. k = LOG_DAT[l].kind
  OBVIOUS
<1> HIDE DEF g, d, k
<1>5. /\ TaskShape' /\ \A u \in Workers \ {w} : task'[u] = task[u]
      /\ task'[w].pc = "accept" /\ task'[w].Lno = l /\ task'[w].kind = k
  <2>1. w \in Workers /\ TaskShape
    BY DEF Inv, Shape, Workers
  <2>2. TaskShape' /\ task'[w] = g /\ \A u \in Workers \ {w} : task'[u] = task[u]
    <3>1. task' = [task EXCEPT ![w] = g] /\ IsFrame(g)
      BY <1>1, <1>3
    <3> QED
      BY <2>1, <3>1, TaskSet
  <2> QED
    BY <2>2, <1>3
<1>6. OtherShape' /\ log_bakup'.f_recover = 1 /\ log_bakup'.Lno = l /\ log_bakup'.stat_kind = k
  BY <1>1, <1>2 DEF Inv, Shape, OtherShape
<1>7. Shape'
  BY <1>1, <1>5, <1>6 DEF Inv, Shape, RamShape, ParShape
<1>8. Up /\ task'[Boot] = task[Boot]
  BY <1>1, <1>5 DEF LogAssumption, Inv, Safe, BootInv, Workers
<1>9. task[w].pc = "idle"
  BY <1>1 DEF Idle, Frame
<1>10. BootInv' /\ CopyInv'
  BY <1>8 DEF BootInv, CopyInv, Up
<1>11. RequestInv'
  <2>1. task'[w].pc \notin Asked /\ task[w].pc \notin Asked
    BY <1>5, <1>9 DEF Asked
  <2> QED
    BY <2>1, <1>1, <1>5, <1>8, RequestsHold DEF KindsKept
<1>12. FrameInv'
  <2>1. \A u \in Tasks : task'[u].pc # "idle" => TaskOf[task'[u].Lno] = u
    BY <1>1, <1>5 DEF Inv, Safe, FrameInv, Lno, Workers
  <2>2. \A u \in Tasks : task'[u].pc \in OneTurn => task'[u].kind = LOG_DAT'[task'[u].Lno].kind
    BY <1>1, <1>4, <1>5 DEF Inv, Safe, FrameInv, Lno, Kind, Workers
  <2>3. \A u \in Workers : /\ task'[u].pc = "toggle" => task'[u].Lno \notin OneBank
                           /\ task'[u].pc \in {"wait10", "wait31"} => task'[u].Lno \in OneBank
    BY <1>5 DEF Inv, Safe, FrameInv, Lno
  <2> QED
    BY <2>1, <2>2, <2>3, <1>1 DEF Inv, Safe, FrameInv, Lno, Kind
<1>13. BakupInv'
  <2>1. l \in Flashed /\ req[l] => params[l].sramlog_kind # k
    BY <1>1, <1>4, <1>8, <1>9 DEF Inv, Safe, RequestInv, Doing
  <2> QED
    BY <2>1, <1>1, <1>5, <1>6 DEF BakupInv, Early, Lno, Kind, Workers
<1>14. AcceptInv'
  <2>1. \A u \in Workers : task[u].pc # "accept"
    BY <1>1 DEF LogAssumption, Inv, Safe, AcceptInv, Workers
  <2> QED
    BY <2>1, <1>1, <1>5, <1>6 DEF AcceptInv
<1> QED
  BY <1>7, <1>10, <1>11, <1>12, <1>13, <1>14 DEF Inv, Safe

-----------------------------------------------------------------------------
(* The theorem. *)

LEMMA InitHolds == ASSUME LogAssumption, Init PROVE Inv
<1>1. IsFrame(Idle) /\ Idle.pc = "idle"
  BY FrameIs DEF Idle, LogAssumption
<1>2. RamShape
  BY DEF Init, RamShape, IsLog
<1>3. ParShape
  BY DEF Init, ParShape, IsParam
<1>4. TaskShape /\ \A w \in Workers : task[w] = Idle
  BY <1>1 DEF Init, TaskShape, Workers
<1>5. OtherShape /\ log_bakup.f_recover = 0
  BY DEF Init, OtherShape, NoBakup, LogAssumption
<1>6. \A l \in Flashed : ~ req[l] /\ CheckParam[l] = None
  BY DEF Init
<1>7. Up /\ BootInv /\ RequestInv
  BY <1>1, <1>4, <1>6 DEF BootInv, RequestInv, Up, Workers
<1>8. \A l \in OneBank : LOG_DAT[l].kind = 0
  BY DEF Init, LogAssumption
<1>9. FrameInv /\ BakupInv /\ AcceptInv /\ CopyInv
  BY <1>1, <1>4, <1>5, <1>8 DEF FrameInv, BakupInv, AcceptInv, CopyInv, OneTurn, Early, Copying, Workers
<1> QED
  BY <1>2, <1>3, <1>4, <1>5, <1>7, <1>9 DEF Inv, Safe, Shape

LEMMA StepKeeps == ASSUME LogAssumption, Inv, NEW w \in Workers, Step(w) PROVE Inv'
<1>1. CASE Accept(w)
  BY <1>1, AcceptSafe
<1>2. CASE WaitYields(w)
  BY <1>2, WaitYieldsSafe
<1>3. CASE WaitEnds(w)
  BY <1>3, WaitEndsSafe
<1>4. CASE Copy(w)
  BY <1>4, CopySafe
<1>5. CASE CountUnread(w)
  BY <1>5, CountUnreadSafe
<1>6. CASE Count(w)
  BY <1>6, CountSafe
<1>7. CASE Checkpoint(w)
  BY <1>7, CheckpointSafe
<1>8. CASE Advance(w)
  BY <1>8, AdvanceSafe
<1>9. CASE Cap(w)
  BY <1>9, CapSafe
<1>10. CASE Rewind(w)
  BY <1>10, RewindSafe
<1>11. CASE Oldest(w)
  BY <1>11, OldestSafe
<1>12. CASE Toggle(w)
  BY <1>12, ToggleSafe
<1>13. CASE ClearBank(w)
  BY <1>13, ClearBankSafe
<1>14. CASE Finish(w)
  BY <1>14, FinishSafe
<1>15. CASE Request(w)
  BY <1>15, RequestSafe
<1> QED
  BY <1>1, <1>2, <1>3, <1>4, <1>5, <1>6, <1>7, <1>8, <1>9, <1>10, <1>11, <1>12, <1>13, <1>14, <1>15 DEF Step

LEMMA RecoverKeeps == ASSUME LogAssumption, Inv, Recover PROVE Inv'
<1>1. CASE LogWritePon \/ RequestPon \/ PonLog \/ BootDone
  BY <1>1, LogWritePonSafe, RequestPonSafe, PonLogSafe, BootDoneSafe
<1>2. CASE PonErase \/ PonWrite \/ PonFcount \/ PonInfo
  BY <1>2, PonEraseSafe, PonWriteSafe, PonFcountSafe, PonInfoSafe
<1>3. CASE PonSecttop \/ PonSectnum \/ PonEnd
  BY <1>3, PonSecttopSafe, PonSectnumSafe, PonEndSafe
<1> QED
  BY <1>1, <1>2, <1>3 DEF Recover

LEMMA NextKeeps == ASSUME LogAssumption, Inv, [Next]_vars PROVE Inv'
<1>1. ASSUME NEW w \in Tasks, NEW l \in Logs, Log_Write(w, l)
      PROVE  Inv'
  BY <1>1, LogWriteSafe
<1>2. ASSUME NEW w \in Workers, Step(w)
      PROVE  Inv'
  BY <1>2, StepKeeps
<1>3. CASE FlashStep
  BY <1>3, FlashKeeps
<1>4. CASE Recover
  BY <1>4, RecoverKeeps
<1>5. ASSUME NEW l \in Logs, NEW t \in Targets, Read(l, t)
      PROVE  Inv'
  BY <1>5, ReadersKeep
<1>6. CASE PowerCut
  BY <1>6, PowerCutSafe
<1>7. CASE UNCHANGED vars
  <2>1. UNCHANGED <<LOG_DAT, log_bakup, params, req, CheckParam, flt, task, cpu>>
    BY <1>7 DEF vars, ram, flashing
  <2> QED
    BY <2>1 DEF Inv, Safe, Shape, RamShape, ParShape, TaskShape, OtherShape, BootInv, FrameInv,
                RequestInv, BakupInv, AcceptInv, CopyInv, Up, Doing, Kind, Lno
<1> QED
  BY <1>1, <1>2, <1>3, <1>4, <1>5, <1>6, <1>7, Zenon DEF Next, Workers

\* Only Copy writes into a bank, and not into the one a request names.
LEMMA CopyElsewhere ==
    ASSUME LogAssumption, Inv, NEW w \in Workers, Copy(w), NEW l \in Flashed, req[l]
    PROVE  LOG_DAT'[l].dat[params[l].sramlog_kind] = LOG_DAT[l].dat[params[l].sramlog_kind]
<1>1. cpu = w /\ task[w].pc = "copy" /\ LOG_DAT' = [LOG_DAT EXCEPT ![Lno(w)].dat[Kind(w)][Lp(w).wtp] = task[w].dat]
  BY DEF Copy, At
<1>2. Lno(w) \in Logs /\ Kind(w) \in {0, 1} /\ l \in Logs /\ params[l].sramlog_kind \in {0, 1}
  BY DEF LogAssumption, Inv, Shape, TaskShape, IsFrame, ParShape, IsParam, Lno, Kind
<1>3. l = Lno(w) => params[l].sramlog_kind # Kind(w)
  <2> SUFFICES ASSUME l = Lno(w)
               PROVE  params[l].sramlog_kind # Kind(w)
    OBVIOUS
  <2>1. CASE w = Boot
    BY <2>1, <1>1 DEF Inv, Safe, CopyInv
  <2>2. CASE w \in Tasks
    <3>1. Up /\ TaskOf[l] = w /\ Kind(w) = LOG_DAT[l].kind
      BY <2>2, <1>1, TaskRuns DEF Inv, Safe, FrameInv, OneTurn, Early
    <3>2. ~ Doing(l, {"f31", "wait31"}) /\ ~ Doing(l, {"f31", "toggle"})
      BY <3>1, <1>1 DEF Doing
    <3> QED
      BY <3>1, <3>2 DEF Inv, Safe, RequestInv
  <2> QED
    BY <2>1, <2>2 DEF Workers
<1>4. \A m \in Logs, k \in {0, 1} : (m # Lno(w) \/ k # Kind(w)) => LOG_DAT'[m].dat[k] = LOG_DAT[m].dat[k]
  BY <1>1, <1>2, SetDat DEF Inv, Shape
<1> QED
  BY <1>2, <1>3, <1>4

LEMMA OthersLeaveBanks ==
    ASSUME LogAssumption, Inv, [Next]_vars, \A w \in Workers : ~ Copy(w)
    PROVE  \A l \in Logs : LOG_DAT'[l].dat = LOG_DAT[l].dat
<1> USE DEF BanksKept
<1>1. ASSUME NEW w \in Tasks, NEW l \in Logs, Log_Write(w, l)
      PROVE  BanksKept
  BY <1>1 DEF Log_Write
<1>2. ASSUME NEW w \in Workers, Step(w)
      PROVE  \A l \in Logs : LOG_DAT'[l].dat = LOG_DAT[l].dat
  <2>1. Lno(w) \in Logs /\ Kind(w) \in {0, 1} /\ LOG_DAT[Lno(w)].kind \in {0, 1}
    BY DEF Inv, Shape, RamShape, IsLog, TaskShape, IsFrame, Lno, Kind
  <2>2. CASE Accept(w)
    BY <2>1, <2>2, SetKind DEF Accept, Inv, Shape
  <2>3. CASE Toggle(w)
    <3> DEFINE x == IF ToDo(w, log_bakup.stat_kind, LOG_DAT[Lno(w)].kind) THEN 1 - Kind(w) ELSE LOG_DAT[Lno(w)].kind
    <3>1. LOG_DAT' = [LOG_DAT EXCEPT ![Lno(w)].kind = x]
      BY <2>3 DEF Toggle
    <3>2. 1 - Kind(w) \in {0, 1}
      BY <2>1
    <3>3. x \in {0, 1}
      BY <2>1, <3>2
    <3> HIDE DEF x
    <3> QED
      BY <2>1, <3>1, <3>3, SetKind DEF Inv, Shape
  <2>4. CASE WaitYields(w) \/ WaitEnds(w) \/ Checkpoint(w) \/ Finish(w) \/ Request(w)
    BY <2>4 DEF WaitYields, WaitEnds, Checkpoint, Finish, Request, ram
  <2>5. CASE CountUnread(w) \/ Count(w) \/ Advance(w) \/ Cap(w)
    BY <2>5, CountUnreadKeeps, CountKeeps, AdvanceKeeps, CapKeeps DEF Inv, Shape
  <2>6. CASE Rewind(w) \/ Oldest(w) \/ ClearBank(w)
    BY <2>6, RewindKeeps, OldestKeeps, ClearBankKeeps DEF Inv, Shape
  <2> QED
    BY <1>2, <2>2, <2>3, <2>4, <2>5, <2>6 DEF Step
<1>3. CASE FlashStep
  <2>1. CASE LOG_DAT' = LOG_DAT
    BY <2>1
  <2>2. CASE FltFcount \/ FltUnread \/ FltCount
    BY <2>2, FltFcountKeeps, FltUnreadKeeps, FltCountKeeps DEF Inv, Shape
  <2>3. CASE FltStart \/ FltSector \/ FltErase \/ FltWrite \/ FltVerified \/ FltInfo
    BY <2>3, <2>1 DEF FltStart, FltSector, FltErase, FltWrite, FltVerified, FltInfo, ram
  <2>4. CASE FltCheckpoint \/ FltSecttop \/ FltSectnum \/ FltUnlock
    BY <2>4, <2>1 DEF FltCheckpoint, FltSecttop, FltSectnum, FltUnlock, ram
  <2> QED
    BY <1>3, <2>2, <2>3, <2>4 DEF FlashStep
<1>4. CASE Recover
  <2>1. CASE PonFcount \/ PonSecttop \/ PonEnd
    BY <2>1, PonFcountKeeps, PonSecttopKeeps, PonEndKeeps DEF Inv, Shape
  <2>2. CASE LogWritePon \/ RequestPon \/ PonLog \/ BootDone
    BY <2>2 DEF LogWritePon, RequestPon, PonLog, BootDone, ram
  <2>3. CASE PonErase \/ PonWrite \/ PonInfo \/ PonSectnum
    BY <2>3 DEF PonErase, PonWrite, PonInfo, PonSectnum, ram
  <2> QED
    BY <1>4, <2>1, <2>2, <2>3 DEF Recover
<1>5. ASSUME NEW l \in Logs, NEW t \in Targets, Read(l, t)
      PROVE  BanksKept
  <2>1. CASE \E start \in BOOLEAN : TargetDataVoidRead(l, t, start)
    BY <2>1, VoidReadKeeps DEF Inv, Shape
  <2>2. CASE UndoTargetDataVoidRead(l, t) \/ TargetVoidReadPointerUpdate(l, t)
    BY <2>2, UndoKeeps, UpdateKeeps DEF Inv, Shape
  <2>3. CASE TargetDataGet(l, t) \/ UnreadToRead(l, t)
    BY <2>3, DataGetKeeps, SkipKeeps DEF Inv, Shape
  <2> QED
    BY <1>5, <2>1, <2>2, <2>3 DEF Read
<1>6. CASE PowerCut \/ UNCHANGED vars
  BY <1>6 DEF PowerCut, vars, ram
<1> QED
  BY <1>1, <1>2, <1>3, <1>4, <1>5, <1>6, Zenon DEF Next, Workers

\* While a write to flash is asked for, whoever adds records to the log adds
\* them to its other bank, with any number of logs, records and power cuts and
\* wherever the power goes.
THEOREM BanksRest == Spec => BankAtRest
<1> USE LogAssumption
<1>1. Init => Inv
  BY InitHolds
<1>2. Inv /\ [Next]_vars => Inv'
  BY NextKeeps
<1> DEFINE Rests == \A l \in Flashed : req[l] /\ req'[l] =>
                LOG_DAT'[l].dat[params[l].sramlog_kind] = LOG_DAT[l].dat[params[l].sramlog_kind]
<1>3. Inv /\ [Next]_vars => [Rests]_vars
  <2> SUFFICES ASSUME Inv, [Next]_vars
               PROVE  Rests
    OBVIOUS
  <2>1. CASE \A w \in Workers : ~ Copy(w)
    BY <2>1, OthersLeaveBanks DEF LogAssumption
  <2>2. CASE \E w \in Workers : Copy(w)
    BY <2>2, CopyElsewhere
  <2> QED
    BY <2>1, <2>2
<1>4. BankAtRest <=> [][Rests]_vars
  BY DEF BankAtRest
<1> HIDE DEF Rests
<1> QED
  BY <1>1, <1>2, <1>3, <1>4, PTL DEF Spec

=============================================================================
