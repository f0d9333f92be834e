--------------------------- MODULE LogContentProofs ---------------------------
(***************************************************************************)
(* Logs keep their records in order and hand them to each target in order, *)
(* for every number and size of logs, banks, sectors, targets, tasks and   *)
(* records, as long as no power cut comes between (NoCuts).                *)
(*                                                                         *)
(* ContentInv adds LogOK of every log to the invariant of LogStoreProofs.  *)
(* There is a lemma for each step, which says what it does to its own log  *)
(* by the lemmas of LogBankProofs, and that it leaves the others alone.    *)
(* The invariant gives the types of the records (TypeOK), StoreHolds,      *)
(* UnreadRight and HandedInOrder.                                          *)
(***************************************************************************)
EXTENDS LogBankProofs

-----------------------------------------------------------------------------
(* The state: a task's place is the phase of its log, and what a step of one *)
(* log leaves alone.                                                         *)

\* No power cut, and the host does not ask to skip the records of a ring.
NoCuts == MaxCuts = 0 /\ Skipped \subseteq Flashed

\* Task w is writing log l.
Owns(w, l) == task[w].pc # "idle" /\ Lno(w) = l

LEMMA LogIs ==
    ASSUME LogAssumption, Inv, NEW w \in Tasks, NEW l, Owns(w, l)
    PROVE  l \in Logs /\ TaskOf[l] = w /\ Phase(l) = task[w].pc
<1>1. l \in Logs
  BY DEF Inv, Shape, TaskShape, IsFrame, Workers, Lno, Owns
<1>2. TaskOf[l] = w
  BY DEF Inv, Safe, FrameInv, Owns
<1> QED
  BY <1>1, <1>2 DEF Phase, Lno, Owns

LEMMA GoesTo ==
    ASSUME LogAssumption, Inv, NEW w \in Tasks, NEW l, Owns(w, l), NEW p, Goto(w, p)
    PROVE  /\ Phase(l)' = p
           /\ \A m \in Logs \ {l} : Phase(m)' = Phase(m)
           /\ task'[w].pc = p /\ task'[w].Lno = task[w].Lno /\ task'[w].kind = task[w].kind
           /\ task'[w].dat = task[w].dat
           /\ \A u \in Workers \ {w} : task'[u] = task[u]
<1>1. /\ task'[w].pc = p /\ task'[w].Lno = task[w].Lno /\ task'[w].kind = task[w].kind
      /\ \A u \in Workers \ {w} : task'[u] = task[u]
  BY GotoIs DEF Inv, Shape, Workers
<1>2. task'[w].dat = task[w].dat
  <2>1. w \in Workers /\ TaskShape /\ IsFrame(task[w])
    BY DEF Inv, Shape, TaskShape, Workers
  <2>2. task'[w] = [task[w] EXCEPT !.pc = p]
    BY <2>1 DEF Goto, TaskShape
  <2> QED
    BY <2>1, <2>2 DEF IsFrame
<1>3. l \in Logs /\ TaskOf[l] = w /\ Lno(w) = l
  BY LogIs DEF Owns
<1>4. Phase(l)' = p
  BY <1>1, <1>3 DEF Phase, Lno
<1>5. ASSUME NEW m \in Logs \ {l} PROVE Phase(m)' = Phase(m)
  <2>1. CASE TaskOf[m] = w
    BY <1>1, <1>3, <2>1, <1>5 DEF Phase, Lno
  <2>2. CASE TaskOf[m] # w
    <3>1. TaskOf[m] \in Workers \ {w}
      BY <2>2 DEF LogAssumption, Workers
    <3> QED
      BY <1>1, <3>1 DEF Phase
  <2> QED
    BY <2>1, <2>2
<1> QED
  BY <1>1, <1>2, <1>4, <1>5

SameView(l) ==
    /\ LOG_DAT'[l] = LOG_DAT[l] /\ Phase(l)' = Phase(l) /\ accepted'[l] = accepted[l]
    /\ handed'[l] = handed[l] /\ sent'[l] = sent[l] /\ lapped'[l] = lapped[l]
    /\ l \in Flashed => /\ req'[l] = req[l] /\ params'[l] = params[l] /\ FltPhase(l)' = FltPhase(l)
                        /\ log_mgr'[l] = log_mgr[l] /\ flash'[l] = flash[l]

LEMMA Elsewhere ==
    ASSUME NEW l \in Logs, LogOK(l), SameView(l)
    PROVE  LogOK(l)'
BY DEF SameView, LogOK

\* Only one log changes.
LEMMA OthersKeep ==
    ASSUME NEW l \in Logs, ContentInv, TurnOK', HistoryShape', LogOK(l)', \A m \in Logs \ {l} : SameView(m)
    PROVE  ContentInv'
BY Elsewhere DEF ContentInv

\* One field of the state, by log.
LEMMA ByLog ==
    ASSUME NEW S, NEW g, NEW g2, g = [m \in S |-> g[m]], NEW l \in S, NEW x, g2 = [g EXCEPT ![l] = x]
    PROVE  g2 = [m \in S |-> g2[m]] /\ g2[l] = x /\ \A m \in S \ {l} : g2[m] = g[m]
OBVIOUS

-----------------------------------------------------------------------------
(* A step of task w on log l, to place p, which makes x of the record of the *)
(* log and y of its lapped.                                                  *)

LogGoes(l, p, x, y) ==
    IF l \in Flashed
    THEN FlashedOK(l, x, p, accepted[l], req[l], params[l], FltPhase(l), log_mgr[l],
                   flash[l], handed[l], sent[l], y)
    ELSE RamOK(l, x, p, accepted[l], handed[l], sent[l], y)

TaskStep(w, l, p, x, y) ==
    /\ cpu \in {w, None} /\ cpu' = w /\ Owns(w, l) /\ p # "idle" /\ Goto(w, p)
    /\ LOG_DAT' = [LOG_DAT EXCEPT ![l] = x]
    /\ lapped' = [lapped EXCEPT ![l] = y]
    /\ UNCHANGED <<log_mgr, req, params, flash, flt, accepted, handed, sent, cuts>>
    /\ log_bakup'.f_recover \in Codes

LEMMA TaskTurn ==
    ASSUME LogAssumption, Inv, ContentInv, NEW w \in Tasks, NEW l, NEW p, NEW x, NEW y, TaskStep(w, l, p, x, y)
    PROVE  TurnOK'
<1>1. /\ task'[w].pc = p /\ task'[w].Lno = task[w].Lno /\ task'[w].kind = task[w].kind
      /\ task'[w].dat = task[w].dat
      /\ \A u \in Workers \ {w} : task'[u] = task[u]
  BY GoesTo DEF TaskStep
<1>2. cpu' = w /\ cpu \in {w, None} /\ p # "idle" /\ task[w].pc # "idle" /\ log_bakup'.f_recover \in Codes
      /\ UNCHANGED <<req, flt, accepted, cuts>>
  BY DEF TaskStep, Owns
<1>3. FLT \notin Tasks /\ Boot \notin Tasks /\ None \notin Tasks /\ None # FLT
  BY DEF LogAssumption
<1>4. TurnOK
  BY DEF ContentInv
<1>5. cuts' = 0 /\ task'[Boot] = Idle /\ flt'.by = FLT
  BY <1>1, <1>2, <1>3, <1>4 DEF TurnOK, Workers
<1>6. cpu' \in Tasks \cup {FLT, None} /\ (cpu' \in Tasks => task'[cpu'].pc # "idle") /\ cpu' # FLT
  BY <1>1, <1>2, <1>3
<1>7. \A u \in Tasks : u # cpu' => \/ task'[u].pc = "idle" \/ task'[u].pc = "wait31"
                                   \/ task'[u].pc = "wait30" /\ Lno(u)' \notin OneBank
  <2> SUFFICES ASSUME NEW u \in Tasks, u # w
               PROVE  \/ task'[u].pc = "idle" \/ task'[u].pc = "wait31"
                      \/ task'[u].pc = "wait30" /\ Lno(u)' \notin OneBank
    BY <1>2
  <2>1. task'[u] = task[u] /\ u # cpu
    BY <1>1, <1>2, <1>3 DEF Workers
  <2> QED
    BY <2>1, <1>4 DEF TurnOK, Lno
<1>8. \A u \in Tasks : task'[u].pc # "idle" => /\ task'[u].dat = accepted'[Lno(u)']
                                               /\ Lno(u)' \notin Flashed => Kind(u)' = 0
  <2> SUFFICES ASSUME NEW u \in Tasks, task'[u].pc # "idle"
               PROVE  task'[u].dat = accepted[Lno(u)'] /\ (Lno(u)' \notin Flashed => Kind(u)' = 0)
    BY <1>2
  <2>1. task[u].pc # "idle" /\ task'[u].dat = task[u].dat /\ Lno(u)' = Lno(u) /\ Kind(u)' = Kind(u)
    BY <1>1, <1>2 DEF Workers, Lno, Kind
  <2> QED
    BY <2>1, <1>4 DEF TurnOK
<1>9. flt'.pc \in {"idle", "write", "verify"} /\ (flt'.pc # "idle" => flt'.log \in Flashed /\ req'[flt'.log])
  <2>1. cpu # FLT
    BY <1>2, <1>3
  <2> QED
    BY <2>1, <1>2, <1>4 DEF TurnOK
<1> QED
  BY <1>2, <1>5, <1>6, <1>7, <1>8, <1>9 DEF TurnOK, Lno, Kind

LEMMA TaskGoes ==
    ASSUME LogAssumption, Inv, ContentInv, NEW w \in Tasks, NEW l, NEW p, NEW x, NEW y, TaskStep(w, l, p, x, y),
           LogGoes(l, p, x, y)
    PROVE  ContentInv'
<1>0. Owns(w, l) /\ Goto(w, p) /\ LOG_DAT' = [LOG_DAT EXCEPT ![l] = x] /\ lapped' = [lapped EXCEPT ![l] = y]
      /\ UNCHANGED <<log_mgr, req, params, flash, flt, accepted, handed, sent>>
  BY DEF TaskStep
<1>1. l \in Logs
  BY <1>0, LogIs
<1>2. Phase(l)' = p /\ \A m \in Logs \ {l} : Phase(m)' = Phase(m)
  BY <1>0, GoesTo
<1>3. HistoryShape
  BY DEF ContentInv
<1>4. LOG_DAT'[l] = x /\ \A m \in Logs \ {l} : LOG_DAT'[m] = LOG_DAT[m]
  BY <1>0, <1>1, ByLog DEF Inv, Shape, RamShape
<1>5. /\ lapped' = [m \in Logs |-> lapped'[m]] /\ lapped'[l] = y
      /\ \A m \in Logs \ {l} : lapped'[m] = lapped[m]
  BY <1>0, <1>1, <1>3, ByLog DEF HistoryShape
<1>6. TurnOK'
  BY TaskTurn
<1>7. HistoryShape'
  BY <1>0, <1>3, <1>5 DEF HistoryShape
<1>8. LogGoes(l, p, x, y)
  OBVIOUS
<1>9. LogOK(l)'
  BY <1>0, <1>2, <1>4, <1>5, <1>8 DEF LogGoes, LogOK, FltPhase
<1>10. \A m \in Logs \ {l} : SameView(m)
  BY <1>0, <1>2, <1>4, <1>5 DEF SameView, FltPhase
<1> QED
  BY <1>1, <1>6, <1>7, <1>9, <1>10, OthersKeep

LEMMA NewCount ==
    ASSUME NEW r, IsLog(r), NEW c
    PROVE  LET x == [r EXCEPT !.count = c] IN
           /\ IsLog(x) /\ x.kind = r.kind /\ x.count = c /\ x.wtp = r.wtp /\ x.dat = r.dat
           /\ x.Fcount = r.Fcount /\ SameReaders(r, x)
BY DEF IsLog, SameReaders

LEMMA NewWtp ==
    ASSUME NEW r, IsLog(r), NEW c
    PROVE  LET x == [r EXCEPT !.wtp = c] IN
           /\ IsLog(x) /\ x.kind = r.kind /\ x.count = r.count /\ x.wtp = c /\ x.dat = r.dat
           /\ x.Fcount = r.Fcount /\ SameReaders(r, x)
BY DEF IsLog, SameReaders

LEMMA NewFcount ==
    ASSUME NEW r, IsLog(r), NEW c
    PROVE  LET x == [r EXCEPT !.Fcount = c] IN
           /\ IsLog(x) /\ x.kind = r.kind /\ x.count = r.count /\ x.wtp = r.wtp /\ x.dat = r.dat
           /\ x.Fcount = c /\ SameReaders(r, x)
BY DEF IsLog, SameReaders

LEMMA NewUnread ==
    ASSUME NEW r, IsLog(r), NEW c
    PROVE  LET x == [r EXCEPT !.unread = c] IN
           /\ LikeBank(r, x) /\ x.Fcount = r.Fcount
           /\ x.unread = c /\ x.f_unread = r.f_unread /\ x.void_read = r.void_read
BY DEF IsLog, LikeBank

LEMMA NewFUnread ==
    ASSUME NEW r, IsLog(r), NEW c
    PROVE  LET x == [r EXCEPT !.f_unread = c] IN
           /\ LikeBank(r, x) /\ x.Fcount = r.Fcount
           /\ x.unread = r.unread /\ x.f_unread = c /\ x.void_read = r.void_read
BY DEF IsLog, LikeBank

LEMMA NewVoid ==
    ASSUME NEW r, IsLog(r), NEW c
    PROVE  LET x == [r EXCEPT !.void_read = c] IN
           /\ LikeBank(r, x) /\ x.Fcount = r.Fcount
           /\ x.unread = r.unread /\ x.f_unread = r.f_unread /\ x.void_read = c
BY DEF IsLog, LikeBank

LEMMA SetBanks ==
    ASSUME NEW r, IsLog(r), NEW c
    PROVE  /\ c \in {0, 1} =>
              LET x == [r EXCEPT !.kind = c] IN
              /\ IsLog(x) /\ x.kind = c /\ x.count = r.count /\ x.wtp = r.wtp /\ x.dat = r.dat /\ x.Fcount = r.Fcount
              /\ SameReaders(r, x)
           /\ c = [k \in {0, 1} |-> c[k]] =>
              LET x == [r EXCEPT !.dat = c] IN
              /\ IsLog(x) /\ x.kind = r.kind /\ x.count = r.count /\ x.wtp = r.wtp /\ x.dat = c /\ x.Fcount = r.Fcount
              /\ SameReaders(r, x)
BY DEF IsLog, SameReaders

\* What a task that runs finds.
LEMMA Running ==
    ASSUME LogAssumption, Inv, ContentInv, NEW w \in Tasks, NEW l, Owns(w, l)
    PROVE  /\ l \in Logs /\ LogGoes(l, task[w].pc, LOG_DAT[l], lapped[l])
           /\ IsLog(LOG_DAT[l]) /\ task[w].dat = accepted[l]
           /\ l \in Flashed => Bit(params[l].sramlog_kind)
           /\ l \notin Flashed => l \in Ring
           /\ task[w].pc \in OneTurn \/ l \notin Flashed => Kind(w) = LOG_DAT[l].kind
           /\ log_bakup.f_recover \in Codes
           /\ LOG_DAT = [LOG_DAT EXCEPT ![l] = LOG_DAT[l]] /\ lapped = [lapped EXCEPT ![l] = lapped[l]]
<1>1. l \in Logs /\ Phase(l) = task[w].pc
  BY LogIs
<1>2. LogOK(l) /\ TurnOK /\ HistoryShape
  BY <1>1 DEF ContentInv
<1>3. LogGoes(l, task[w].pc, LOG_DAT[l], lapped[l])
  BY <1>1, <1>2 DEF LogOK, LogGoes
<1>4. IsLog(LOG_DAT[l]) /\ LOG_DAT = [LOG_DAT EXCEPT ![l] = LOG_DAT[l]]
  BY <1>1 DEF Inv, Shape, RamShape
<1>5. l \in Flashed => Bit(params[l].sramlog_kind)
  BY DEF Inv, Shape, ParShape, IsParam, Bit
<1>6. task[w].dat = accepted[l] /\ log_bakup.f_recover \in Codes
  BY <1>2 DEF TurnOK, Owns
<1>7. l \notin Flashed => Kind(w) = LOG_DAT[l].kind
  <2>1. l \notin Flashed => RingOK(l, LOG_DAT[l], task[w].pc, accepted[l])
    BY <1>3 DEF LogGoes, RamOK
  <2> QED
    BY <2>1, <1>2 DEF TurnOK, Owns, RingOK
<1>8. task[w].pc \in OneTurn => Kind(w) = LOG_DAT[l].kind
  BY DEF Inv, Safe, FrameInv, Owns
<1>9. lapped = [lapped EXCEPT ![l] = lapped[l]]
  BY <1>2 DEF HistoryShape
<1> QED
  BY <1>1, <1>3, <1>4, <1>5, <1>6, <1>7, <1>8, <1>9 DEF Ring

\* The places of a task, by kind of log.
LEMMA Places ==
    ASSUME NEW l, NEW p, NEW x, NEW y, LogGoes(l, p, x, y)
    PROVE  /\ l \in Flashed =>
                p \in {"idle", "accept", "wait10", "copy", "f2", "count", "f3", "wtp", "f4", "f30", "wait30",
                       "request", "f31", "toggle", "f321", "clear", "f323", "wait31", "clear31", "f311", "end"}
           /\ l \notin Flashed =>
                p \in {"idle", "accept", "copy", "end", "f4", "f41", "f42", "rewind", "f43", "f44", "oldest",
                       "unread", "f2", "count", "f3", "wtp", "cap", "f40", "step"}
<1>1. CASE l \in Flashed
  BY <1>1 DEF LogGoes, FlashedOK, Store, BankOK, PhaseOK
<1>2. CASE l \notin Flashed
  BY <1>2 DEF LogGoes, RamOK, RingOK, RingPhaseOK, RingMid
<1> QED
  BY <1>1, <1>2

\* A step of Log_Write proper.
LEMMA MovesTo ==
    ASSUME LogAssumption, Inv, ContentInv, NEW w \in Tasks, NEW l, Owns(w, l), NEW p, NEW x, NEW y,
           l \in Flashed => /\ StepIn(l, LOG_DAT[l], task[w].pc, accepted[l], req[l], x, p)
                            /\ SameReaders(LOG_DAT[l], x) /\ y = lapped[l],
           l \in Ring => RingStepIn(l, LOG_DAT[l], task[w].pc, accepted[l], lapped[l], x, p, y)
    PROVE  LogGoes(l, p, x, y)
<1> DEFINE r == LOG_DAT[l]
           q == task[w].pc
<1>1. LogGoes(l, q, r, lapped[l]) /\ (l \in Flashed => Bit(params[l].sramlog_kind)) /\ (l \notin Flashed => l \in Ring)
  BY Running
<1>2. CASE l \in Flashed
  <2>1. FlashedOK(l, r, q, accepted[l], req[l], params[l], FltPhase(l), log_mgr[l],
                  flash[l], handed[l], sent[l], lapped[l])
    BY <1>1, <1>2 DEF LogGoes
  <2>2. FlashedOK(l, x, p, accepted[l], req[l], params[l], FltPhase(l), log_mgr[l],
                  flash[l], handed[l], sent[l], lapped[l])
    BY <2>1, <1>1, <1>2, FlashedMoves
  <2> QED
    BY <2>2, <1>2 DEF LogGoes
<1>3. CASE l \notin Flashed
  <2>1. RamOK(l, r, q, accepted[l], handed[l], sent[l], lapped[l])
    BY <1>1, <1>3 DEF LogGoes
  <2>2. RamOK(l, x, p, accepted[l], handed[l], sent[l], y)
    BY <2>1, <1>1, <1>3, RamMoves
  <2> QED
    BY <2>2, <1>3 DEF LogGoes
<1> QED
  BY <1>2, <1>3

LEMMA MovesOn ==
    ASSUME LogAssumption, Inv, ContentInv, NEW w \in Tasks, NEW l, NEW p, NEW x, NEW y, TaskStep(w, l, p, x, y),
           l \in Flashed => /\ StepIn(l, LOG_DAT[l], task[w].pc, accepted[l], req[l], x, p)
                            /\ SameReaders(LOG_DAT[l], x) /\ y = lapped[l],
           l \in Ring => RingStepIn(l, LOG_DAT[l], task[w].pc, accepted[l], lapped[l], x, p, y)
    PROVE  ContentInv'
<1>1. LogGoes(l, p, x, y)
  BY MovesTo DEF TaskStep
<1> QED
  BY <1>1, TaskGoes

LEMMA AcceptGoes ==
    ASSUME LogAssumption, Inv, ContentInv, NEW w \in Tasks, NEW l, Owns(w, l), Accept(w)
    PROVE  ContentInv'
<1> DEFINE p == IF l \in OneBank THEN "wait10" ELSE "copy"
           r == LOG_DAT[l]
<1>1. /\ l \in Logs /\ IsLog(r) /\ Lno(w) = l /\ w # Boot
      /\ LOG_DAT = [LOG_DAT EXCEPT ![l] = r] /\ lapped = [lapped EXCEPT ![l] = lapped[l]]
  BY Running DEF Owns, LogAssumption
<1>2. /\ cpu = w /\ cpu' = w /\ task[w].pc = "accept" /\ Goto(w, p) /\ UNCHANGED <<flashing, history>>
  BY <1>1 DEF Accept, At
<1>3. log_bakup'.f_recover \in Codes
  <2>1. \E n \in {10, 20} : log_bakup' = [log_bakup EXCEPT !.f_recover = n]
    BY DEF Accept
  <2> QED
    BY <2>1, <1>2, MarkIs DEF Codes, Inv, Shape, flashing
<1>4. LOG_DAT' = LOG_DAT
  <2>1. CASE l \in OneBank
    <3>1. r.kind = 0 /\ LOG_DAT' = [LOG_DAT EXCEPT ![l].kind = 0]
      BY <1>1, <2>1 DEF Accept, Inv, Safe, FrameInv
    <3>2. r = [r EXCEPT !.kind = 0]
      BY <3>1, <1>1 DEF IsLog
    <3> QED
      BY <3>1, <3>2, <1>1
  <2>2. CASE l \notin OneBank
    BY <1>1, <2>2 DEF Accept
  <2> QED
    BY <2>1, <2>2
<1>5. TaskStep(w, l, p, r, lapped[l])
  BY <1>1, <1>2, <1>3, <1>4 DEF TaskStep, flashing, history, reading
<1>6. StepIn(l, r, task[w].pc, accepted[l], req[l], r, p) /\ SameReaders(r, r)
  BY <1>2 DEF StepIn, MarkTo, SameReaders
<1>7. l \in Ring => RingStepIn(l, r, task[w].pc, accepted[l], lapped[l], r, p, lapped[l])
  BY <1>2 DEF RingStepIn, RingMark, Ring, LogAssumption
<1> HIDE DEF p, r
<1> QED
  BY <1>5, <1>6, <1>7, MovesOn DEF r

LEMMA WaitEndsGoes ==
    ASSUME LogAssumption, Inv, ContentInv, NEW w \in Tasks, NEW l, Owns(w, l), WaitEnds(w)
    PROVE  ContentInv'
<1> DEFINE p == WaitNext[task[w].pc]
           r == LOG_DAT[l]
           c == task[w].pc
<1>1. /\ l \in Logs /\ Lno(w) = l /\ log_bakup.f_recover \in Codes
      /\ LOG_DAT = [LOG_DAT EXCEPT ![l] = r] /\ lapped = [lapped EXCEPT ![l] = lapped[l]]
  BY Running DEF Owns
<1>2. /\ cpu \in {w, None} /\ cpu' = w /\ Waits(w) /\ Goto(w, p) /\ ~ IsWriting(l)
      /\ UNCHANGED <<LOG_DAT, log_bakup, log_mgr, req, params, flash, flt, accepted, handed, sent, lapped, cuts>>
  BY <1>1 DEF WaitEnds, ram, history, reading
<1>3. c \in {"wait10", "wait30", "wait31"} /\ (l \in Flashed => ~ req[l])
  BY <1>1, <1>2, WaitIs DEF Workers
<1>4. \/ c = "wait10" /\ p = "copy"
      \/ c = "wait30" /\ p = "request"
      \/ c = "wait31" /\ p = "clear31"
  BY <1>3 DEF WaitNext
<1>5. l \notin Ring
  <2>1. LogGoes(l, c, r, lapped[l])
    BY Running
  <2> QED
    BY <2>1, <1>3, Places DEF Ring
<1> HIDE DEF p, c
<1>6. TaskStep(w, l, p, r, lapped[l])
  BY <1>1, <1>2, <1>4 DEF TaskStep
<1>7. l \in Flashed => StepIn(l, r, c, accepted[l], req[l], r, p) /\ SameReaders(r, r)
  BY <1>3, <1>4 DEF StepIn, Waited, SameReaders
<1> QED
  BY <1>5, <1>6, <1>7, MovesOn DEF c

LEMMA CopyGoes ==
    ASSUME LogAssumption, Inv, ContentInv, NEW w \in Tasks, NEW l, Owns(w, l), Copy(w)
    PROVE  ContentInv'
<1> DEFINE p == IF l \in Flashed THEN "f2" ELSE "unread"
           r == LOG_DAT[l]
           d == [r.dat EXCEPT ![r.kind] = [@ EXCEPT ![r.wtp] = accepted[l]]]
           x == [r EXCEPT !.dat = d]
<1>1. /\ l \in Logs /\ IsLog(r) /\ Lno(w) = l /\ log_bakup.f_recover \in Codes /\ task[w].dat = accepted[l]
      /\ lapped = [lapped EXCEPT ![l] = lapped[l]]
  BY Running DEF Owns
<1>2. /\ cpu = w /\ cpu' = w /\ task[w].pc = "copy" /\ Goto(w, p) /\ UNCHANGED <<log_bakup, flashing, history>>
      /\ LOG_DAT' = [LOG_DAT EXCEPT ![l].dat[Kind(w)][r.wtp] = task[w].dat]
  BY <1>1 DEF Copy, At, Lp
<1>3. Kind(w) = r.kind
  BY <1>2, Running DEF OneTurn, Early
<1>4. LOG_DAT' = [LOG_DAT EXCEPT ![l] = x]
  BY <1>1, <1>2, <1>3
<1>5. d = [k \in {0, 1} |-> d[k]]
  BY <1>1 DEF IsLog
<1> HIDE DEF d
<1>6. /\ IsLog(x) /\ x.kind = r.kind /\ x.count = r.count /\ x.wtp = r.wtp /\ x.dat = d /\ x.Fcount = r.Fcount
      /\ SameReaders(r, x)
  BY <1>1, <1>5, SetBanks
<1> HIDE DEF x, r
<1>7. CopyOf(r, accepted[l], x)
  BY <1>6 DEF CopyOf, d
<1>8. TaskStep(w, l, p, x, lapped[l])
  BY <1>1, <1>2, <1>4 DEF TaskStep, flashing, history, reading
<1>9. l \in Flashed => StepIn(l, r, task[w].pc, accepted[l], req[l], x, p)
  BY <1>2, <1>7 DEF StepIn
<1>10. l \in Ring => RingStepIn(l, r, task[w].pc, accepted[l], lapped[l], x, p, lapped[l])
  BY <1>2, <1>6, <1>7 DEF RingStepIn, RingCopyOf, Ring
<1> HIDE DEF p
<1> QED
  BY <1>6, <1>8, <1>9, <1>10, MovesOn DEF r

LEMMA CountGoes ==
    ASSUME LogAssumption, Inv, ContentInv, NEW w \in Tasks, NEW l, Owns(w, l), Count(w)
    PROVE  ContentInv'
<1> DEFINE r == LOG_DAT[l]
           c == [r.count EXCEPT ![r.kind] = @ + 1]
           x == [r EXCEPT !.count = c]
<1>1. /\ l \in Logs /\ IsLog(r) /\ Lno(w) = l /\ log_bakup.f_recover \in Codes /\ w # Boot
      /\ lapped = [lapped EXCEPT ![l] = lapped[l]]
  BY Running DEF Owns, LogAssumption
<1>2. /\ cpu = w /\ cpu' = w /\ task[w].pc = "count" /\ Goto(w, "f3") /\ UNCHANGED <<log_bakup, flashing, history>>
      /\ LOG_DAT' = [LOG_DAT EXCEPT ![l].count[Kind(w)] = @ + 1]
  BY <1>1 DEF Count, At, ToDo
<1>3. Kind(w) = r.kind
  BY <1>2, Running DEF OneTurn
<1>4. LOG_DAT' = [LOG_DAT EXCEPT ![l] = x]
  BY <1>1, <1>2, <1>3
<1> HIDE DEF c, r
<1>5. /\ IsLog(x) /\ x.kind = r.kind /\ x.count = c /\ x.wtp = r.wtp /\ x.dat = r.dat /\ x.Fcount = r.Fcount
      /\ SameReaders(r, x)
  BY <1>1, NewCount
<1> HIDE DEF x, r
<1>6. CountOf(r, x)
  BY <1>5 DEF CountOf, c
<1>7. TaskStep(w, l, "f3", x, lapped[l])
  BY <1>1, <1>2, <1>4 DEF TaskStep, flashing, history, reading
<1>8. /\ StepIn(l, r, task[w].pc, accepted[l], req[l], x, "f3")
      /\ RingStepIn(l, r, task[w].pc, accepted[l], lapped[l], x, "f3", lapped[l])
  BY <1>2, <1>5, <1>6 DEF StepIn, RingStepIn, RingCountOf
<1> QED
  BY <1>5, <1>7, <1>8, MovesOn DEF r

LEMMA AdvanceGoes ==
    ASSUME LogAssumption, Inv, ContentInv, NEW w \in Tasks, NEW l, Owns(w, l), Advance(w)
    PROVE  ContentInv'
<1> DEFINE r == LOG_DAT[l]
           c == r.wtp + 1
           x == [r EXCEPT !.wtp = c]
           p == IF task[w].pc = "wtp" THEN "f4" ELSE "f41"
<1>1. /\ l \in Logs /\ IsLog(r) /\ Lno(w) = l /\ log_bakup.f_recover \in Codes /\ w # Boot
      /\ lapped = [lapped EXCEPT ![l] = lapped[l]] /\ LogGoes(l, task[w].pc, r, lapped[l])
  BY Running DEF Owns, LogAssumption
<1>2. /\ cpu = w /\ cpu' = w /\ task[w].pc \in {"wtp", "step"} /\ Goto(w, p) /\ UNCHANGED <<log_bakup, flashing, history>>
      /\ LOG_DAT' = [LOG_DAT EXCEPT ![l].wtp = @ + 1]
  BY <1>1 DEF Advance, ToDo
<1>3. LOG_DAT' = [LOG_DAT EXCEPT ![l] = x]
  BY <1>1, <1>2
<1> HIDE DEF c, r
<1>4. /\ IsLog(x) /\ x.kind = r.kind /\ x.count = r.count /\ x.wtp = c /\ x.dat = r.dat /\ x.Fcount = r.Fcount
      /\ SameReaders(r, x)
  BY <1>1, NewWtp
<1>5. l \in Flashed => task[w].pc = "wtp"
  BY <1>1, <1>2, Places
<1> HIDE DEF x, r
<1>6. AdvanceOf(r, x)
  BY <1>4 DEF AdvanceOf, c
<1>7. TaskStep(w, l, p, x, lapped[l])
  BY <1>1, <1>2, <1>3 DEF TaskStep, flashing, history, reading
<1>8. l \in Flashed => StepIn(l, r, task[w].pc, accepted[l], req[l], x, p)
  BY <1>5, <1>6 DEF StepIn
<1>9. RingStepIn(l, r, task[w].pc, accepted[l], lapped[l], x, p, lapped[l])
  BY <1>2, <1>4, <1>6 DEF RingStepIn, RingAdvanceOf
<1> HIDE DEF p
<1> QED
  BY <1>4, <1>7, <1>8, <1>9, MovesOn DEF r

LEMMA ClearBankGoes ==
    ASSUME LogAssumption, Inv, ContentInv, NEW w \in Tasks, NEW l, Owns(w, l), ClearBank(w)
    PROVE  ContentInv'
<1> DEFINE r == LOG_DAT[l]
           c == [r.count EXCEPT ![r.kind] = 0]
           a == [r EXCEPT !.count = c]
           z == 0
           x == [a EXCEPT !.wtp = z]
           p == IF task[w].pc = "clear" THEN "f323" ELSE "f311"
<1>1. /\ l \in Logs /\ IsLog(r) /\ Lno(w) = l /\ log_bakup.f_recover \in Codes
      /\ lapped = [lapped EXCEPT ![l] = lapped[l]] /\ LogGoes(l, task[w].pc, r, lapped[l])
  BY Running DEF Owns
<1>2. /\ cpu = w /\ cpu' = w /\ task[w].pc \in {"clear", "clear31"} /\ Goto(w, p) /\ UNCHANGED <<log_bakup, flashing, history>>
      /\ LOG_DAT' = [LOG_DAT EXCEPT ![l].count[r.kind] = 0, ![l].wtp = 0]
  BY <1>1 DEF ClearBank, Lp
<1>3. LOG_DAT' = [LOG_DAT EXCEPT ![l] = x]
  BY <1>1, <1>2
<1> HIDE DEF c, r
<1>4. /\ IsLog(a) /\ a.kind = r.kind /\ a.count = c /\ a.wtp = r.wtp /\ a.dat = r.dat /\ a.Fcount = r.Fcount
      /\ SameReaders(r, a)
  BY <1>1, NewCount
<1> HIDE DEF a, z
<1>5. /\ IsLog(x) /\ x.kind = a.kind /\ x.count = a.count /\ x.wtp = z /\ x.dat = a.dat /\ x.Fcount = a.Fcount
      /\ SameReaders(a, x)
  <2>1. IsLog(a)
    BY <1>4
  <2> QED
    BY <2>1, NewWtp
<1>6. l \notin Ring
  BY <1>1, <1>2, Places DEF Ring
<1> HIDE DEF x, r
<1>7. ClearOf(r, x) /\ SameReaders(r, x)
  BY <1>4, <1>5 DEF ClearOf, SameReaders, c, z
<1>8. TaskStep(w, l, p, x, lapped[l])
  BY <1>1, <1>2, <1>3 DEF TaskStep, flashing, history, reading
<1>9. StepIn(l, r, task[w].pc, accepted[l], req[l], x, p)
  BY <1>2, <1>7 DEF StepIn, ClearTo
<1> HIDE DEF p
<1> QED
  BY <1>6, <1>7, <1>8, <1>9, MovesOn DEF r

LEMMA ToggleGoes ==
    ASSUME LogAssumption, Inv, ContentInv, NEW w \in Tasks, NEW l, Owns(w, l), Toggle(w)
    PROVE  ContentInv'
<1> DEFINE r == LOG_DAT[l]
           c == 1 - r.kind
           x == [r EXCEPT !.kind = c]
<1>1. /\ l \in Logs /\ IsLog(r) /\ Lno(w) = l /\ log_bakup.f_recover \in Codes /\ w # Boot
      /\ lapped = [lapped EXCEPT ![l] = lapped[l]] /\ LogGoes(l, task[w].pc, r, lapped[l])
  BY Running DEF Owns, LogAssumption
<1>2. /\ cpu = w /\ cpu' = w /\ task[w].pc = "toggle" /\ Goto(w, "f321") /\ UNCHANGED <<log_bakup, flashing, history>>
      /\ LOG_DAT' = [LOG_DAT EXCEPT ![l].kind = 1 - Kind(w)]
  BY <1>1 DEF Toggle, At, ToDo
<1>3. Kind(w) = r.kind
  BY <1>2, Running DEF OneTurn
<1>4. LOG_DAT' = [LOG_DAT EXCEPT ![l] = x]
  BY <1>1, <1>2, <1>3
<1>5. c \in {0, 1}
  BY <1>1 DEF IsLog
<1> HIDE DEF c
<1>6. /\ IsLog(x) /\ x.kind = c /\ x.count = r.count /\ x.wtp = r.wtp /\ x.dat = r.dat /\ x.Fcount = r.Fcount
      /\ SameReaders(r, x)
  BY <1>1, <1>5, SetBanks
<1>7. l \notin Ring
  BY <1>1, <1>2, Places DEF Ring
<1> HIDE DEF x, r
<1>8. ToggleOf(r, x)
  BY <1>6 DEF ToggleOf, c
<1>9. TaskStep(w, l, "f321", x, lapped[l])
  BY <1>1, <1>2, <1>4 DEF TaskStep, flashing, history, reading
<1>10. StepIn(l, r, task[w].pc, accepted[l], req[l], x, "f321")
  BY <1>2, <1>8 DEF StepIn
<1> QED
  BY <1>6, <1>7, <1>9, <1>10, MovesOn DEF r

LEMMA CapGoes ==
    ASSUME LogAssumption, Inv, ContentInv, NEW w \in Tasks, NEW l, Owns(w, l), Cap(w)
    PROVE  ContentInv'
<1> DEFINE r == LOG_DAT[l]
           c == [r.count EXCEPT ![r.kind] = LOG_SECORNUM[l]]
           x == [r EXCEPT !.count = c]
<1>1. /\ l \in Logs /\ IsLog(r) /\ Lno(w) = l /\ log_bakup.f_recover \in Codes
      /\ lapped = [lapped EXCEPT ![l] = lapped[l]] /\ LogGoes(l, task[w].pc, r, lapped[l])
  BY Running DEF Owns
<1>2. /\ cpu = w /\ cpu' = w /\ task[w].pc = "cap" /\ Goto(w, "f40") /\ UNCHANGED <<log_bakup, flashing, history>>
      /\ LOG_DAT' = [LOG_DAT EXCEPT ![l].count[Kind(w)] = LOG_SECORNUM[l]]
  BY <1>1 DEF Cap, At
<1>3. l \notin Flashed
  <2>0. LogGoes(l, task[w].pc, r, lapped[l])
    BY <1>1
  <2>1. l \in Flashed => task[w].pc \notin {"cap", "rewind"}
    BY <2>0, Places
  <2> QED
    BY <2>1, <1>2
<1>4. Kind(w) = r.kind
  BY <1>3, Running
<1>5. LOG_DAT' = [LOG_DAT EXCEPT ![l] = x]
  BY <1>1, <1>2, <1>4
<1> HIDE DEF c, r
<1>6. /\ IsLog(x) /\ x.kind = r.kind /\ x.count = c /\ x.wtp = r.wtp /\ x.dat = r.dat /\ x.Fcount = r.Fcount
      /\ SameReaders(r, x)
  BY <1>1, NewCount
<1> HIDE DEF x
<1>7. CapOf(l, r, x)
  BY <1>6 DEF CapOf, c
<1>8. TaskStep(w, l, "f40", x, lapped[l])
  BY <1>1, <1>2, <1>5 DEF TaskStep, flashing, history, reading
<1>9. RingStepIn(l, r, task[w].pc, accepted[l], lapped[l], x, "f40", lapped[l])
  BY <1>2, <1>7 DEF RingStepIn
<1> QED
  BY <1>3, <1>8, <1>9, MovesOn DEF r

LEMMA RewindGoes ==
    ASSUME LogAssumption, Inv, ContentInv, NEW w \in Tasks, NEW l, Owns(w, l), Rewind(w)
    PROVE  ContentInv'
<1> DEFINE r == LOG_DAT[l]
           z == 0
           x == [r EXCEPT !.wtp = z]
<1>1. /\ l \in Logs /\ IsLog(r) /\ Lno(w) = l /\ log_bakup.f_recover \in Codes
      /\ lapped = [lapped EXCEPT ![l] = lapped[l]] /\ LogGoes(l, task[w].pc, r, lapped[l])
  BY Running DEF Owns
<1>2. /\ cpu = w /\ cpu' = w /\ task[w].pc = "rewind" /\ Goto(w, "f43") /\ UNCHANGED <<log_bakup, flashing, history>>
      /\ LOG_DAT' = [LOG_DAT EXCEPT ![l].wtp = 0]
  BY <1>1 DEF Rewind, At
<1>3. l \notin Flashed
  <2>0. LogGoes(l, task[w].pc, r, lapped[l])
    BY <1>1
  <2>1. l \in Flashed => task[w].pc \notin {"cap", "rewind"}
    BY <2>0, Places
  <2> QED
    BY <2>1, <1>2
<1>4. LOG_DAT' = [LOG_DAT EXCEPT ![l] = x]
  BY <1>1, <1>2
<1> HIDE DEF r, z
<1>5. /\ IsLog(x) /\ x.kind = r.kind /\ x.count = r.count /\ x.wtp = z /\ x.dat = r.dat /\ x.Fcount = r.Fcount
      /\ SameReaders(r, x)
  <2>1. IsLog(r)
    BY <1>1
  <2> QED
    BY <2>1, NewWtp
<1> HIDE DEF x
<1>6. RewindOf(r, x)
  BY <1>5 DEF RewindOf, z
<1>7. TaskStep(w, l, "f43", x, lapped[l])
  BY <1>1, <1>2, <1>4 DEF TaskStep, flashing, history, reading
<1>8. RingStepIn(l, r, task[w].pc, accepted[l], lapped[l], x, "f43", lapped[l])
  BY <1>2, <1>6 DEF RingStepIn
<1> QED
  BY <1>3, <1>7, <1>8, MovesOn DEF r

LEMMA CountUnreadGoes ==
    ASSUME LogAssumption, Inv, ContentInv, NEW w \in Tasks, NEW l, Owns(w, l), CountUnread(w)
    PROVE  ContentInv'
<1> DEFINE r == LOG_DAT[l]
           s == LOG_SECORNUM[l]
           c == [t \in Targets |-> IF r.f_unread[t] < s THEN r.f_unread[t] + 1 ELSE r.f_unread[t]]
           y == [t \in Targets |-> lapped[l][t] \/ r.f_unread[t] = s]
           x == [r EXCEPT !.f_unread = c]
<1>1. /\ l \in Logs /\ IsLog(r) /\ Lno(w) = l /\ log_bakup.f_recover \in Codes /\ w # Boot
      /\ LogGoes(l, task[w].pc, r, lapped[l])
  BY Running DEF Owns, LogAssumption
<1>2. /\ cpu = w /\ cpu' = w /\ task[w].pc = "unread" /\ Goto(w, "f2")
      /\ UNCHANGED <<log_bakup, flashing, accepted, handed, sent, cuts>>
  BY <1>1 DEF CountUnread, At
<1>3. l \notin Flashed
  BY <1>1, <1>2, Places
<1>4. LOG_DAT' = [LOG_DAT EXCEPT ![l] = x]
  <2>1. LOG_DAT' = [LOG_DAT EXCEPT ![l].f_unread = [t \in Targets |->
                      IF @[t] < s /\ ToDo(w, log_bakup.f_unread[t], @[t]) THEN @[t] + 1 ELSE @[t]]]
    BY <1>1 DEF CountUnread
  <2>2. LOG_DAT' = [LOG_DAT EXCEPT ![l].f_unread = c]
    BY <2>1, <1>1 DEF ToDo
  <2> QED
    BY <2>2, <1>1
<1>5. lapped' = [lapped EXCEPT ![l] = y]
  <2>1. lapped' = [lapped EXCEPT ![l] = [t \in Targets |->
                      @[t] \/ (w # Boot /\ r.f_unread[t] = s)
                           \/ (w = Boot /\ log_bakup.f_unread[t] = s)]]
    BY <1>1 DEF CountUnread, Lp
  <2> QED
    BY <2>1, <1>1
<1> HIDE DEF c, r, y
<1>6. /\ LikeBank(r, x) /\ x.Fcount = r.Fcount
      /\ x.unread = r.unread /\ x.f_unread = c /\ x.void_read = r.void_read
  BY <1>1, NewFUnread
<1> HIDE DEF x
<1>7. UnreadOf(l, r, lapped[l], x, y)
  BY <1>6 DEF UnreadOf, LikeBank, c, y
<1>8. TaskStep(w, l, "f2", x, y)
  BY <1>1, <1>2, <1>4, <1>5 DEF TaskStep, flashing
<1>9. RingStepIn(l, r, task[w].pc, accepted[l], lapped[l], x, "f2", y)
  BY <1>2, <1>7 DEF RingStepIn
<1> QED
  BY <1>3, <1>8, <1>9, MovesOn DEF r

LEMMA OldestGoes ==
    ASSUME LogAssumption, Inv, ContentInv, NEW w \in Tasks, NEW l, Owns(w, l), Oldest(w)
    PROVE  ContentInv'
<1> DEFINE r == LOG_DAT[l]
           c == [t \in Targets |-> IF r.unread[t] < r.wtp /\ r.f_unread[t] >= LOG_SECORNUM[l]
                                   THEN r.wtp ELSE r.unread[t]]
           x == [r EXCEPT !.unread = c]
<1>1. /\ l \in Logs /\ IsLog(r) /\ Lno(w) = l /\ log_bakup.f_recover \in Codes
      /\ lapped = [lapped EXCEPT ![l] = lapped[l]] /\ LogGoes(l, task[w].pc, r, lapped[l])
  BY Running DEF Owns
<1>2. /\ cpu = w /\ cpu' = w /\ task[w].pc = "oldest" /\ Goto(w, "end") /\ UNCHANGED <<log_bakup, flashing, history>>
      /\ LOG_DAT' = [LOG_DAT EXCEPT ![l].unread = c]
  BY <1>1 DEF Oldest, At, Lp
<1>3. l \notin Flashed
  BY <1>1, <1>2, Places
<1>4. LOG_DAT' = [LOG_DAT EXCEPT ![l] = x]
  BY <1>1, <1>2
<1> HIDE DEF c, r
<1>5. /\ LikeBank(r, x) /\ x.Fcount = r.Fcount
      /\ x.unread = c /\ x.f_unread = r.f_unread /\ x.void_read = r.void_read
  BY <1>1, NewUnread
<1> HIDE DEF x
<1>6. OldestOf(l, r, x)
  BY <1>5 DEF OldestOf, LikeBank, c
<1>7. TaskStep(w, l, "end", x, lapped[l])
  BY <1>1, <1>2, <1>4 DEF TaskStep, flashing, history, reading
<1>8. RingStepIn(l, r, task[w].pc, accepted[l], lapped[l], x, "end", lapped[l])
  BY <1>2, <1>6 DEF RingStepIn
<1> QED
  BY <1>3, <1>7, <1>8, MovesOn DEF r

LEMMA CheckpointGoes ==
    ASSUME LogAssumption, Inv, ContentInv, NEW w \in Tasks, NEW l, Owns(w, l), Checkpoint(w)
    PROVE  ContentInv'
<1> DEFINE n == Mark(w)[1]
           p == Mark(w)[2]
           r == LOG_DAT[l]
           c == task[w].pc
<1>1. /\ l \in Logs /\ IsLog(r) /\ Lno(w) = l /\ w # Boot /\ (c \in OneTurn => Kind(w) = r.kind)
      /\ LOG_DAT = [LOG_DAT EXCEPT ![l] = r] /\ lapped = [lapped EXCEPT ![l] = lapped[l]]
      /\ LogGoes(l, c, r, lapped[l])
  BY Running DEF Owns, LogAssumption
<1>2. /\ cpu = w /\ cpu' = w /\ Goto(w, p) /\ UNCHANGED <<LOG_DAT, flashing, history>>
      /\ log_bakup' = [log_bakup EXCEPT !.f_recover = n]
      /\ c \in {"f2", "f3", "f4", "f30", "f31", "f311", "f321", "f323", "f40", "f41", "f42", "f43", "f44"}
  BY DEF Checkpoint
<1>3. n \in Codes
  BY <1>2 DEF Mark, Codes
<1>4. /\ c = "f2" => p = "count"
      /\ c = "f3" => p = IF ~ Full(w) THEN "wtp" ELSE IF l \in Flashed THEN "f30" ELSE "cap"
      /\ c \in {"f4", "f311", "f323", "f43"} => p = "end"
      /\ c = "f30" => p = "wait30"
      /\ c = "f31" => p = IF l \notin OneBank THEN "toggle" ELSE "wait31"
      /\ c = "f321" => p = "clear"
      /\ c = "f40" => p = "step"
      /\ c = "f41" => p = IF r.wtp >= LOG_SECORNUM[l] THEN "f42" ELSE "f44"
      /\ c = "f42" => p = "rewind"
      /\ c = "f44" => p = "oldest"
  BY <1>1, <1>2 DEF Mark, Lp
<1>5. c = "f3" => (Full(w) <=> r.count[r.kind] >= LOG_SECORNUM[l])
  BY <1>1 DEF Full, Lp, OneTurn
<1>6. log_bakup'.f_recover = n
  BY <1>2, MarkIs DEF Inv, Shape, flashing
<1> HIDE DEF n, p
<1>7. p # "idle"
  BY <1>2, <1>4
<1>8. TaskStep(w, l, p, r, lapped[l])
  BY <1>1, <1>2, <1>3, <1>6, <1>7 DEF TaskStep, flashing, history, reading
<1>9. l \in Flashed => StepIn(l, r, c, accepted[l], req[l], r, p) /\ SameReaders(r, r)
  <2> SUFFICES ASSUME l \in Flashed
               PROVE  StepIn(l, r, c, accepted[l], req[l], r, p) /\ SameReaders(r, r)
    OBVIOUS
  <2>1. c \in {"f2", "f3", "f4", "f30", "f31", "f311", "f321", "f323"}
    BY <1>1, <1>2, Places
  <2>2. MarkTo(l, r, c, p)
    BY <2>1, <1>4, <1>5 DEF MarkTo
  <2> QED
    BY <2>2 DEF StepIn, SameReaders
<1>10. l \in Ring => RingStepIn(l, r, c, accepted[l], lapped[l], r, p, lapped[l])
  <2> SUFFICES ASSUME l \in Ring
               PROVE  RingStepIn(l, r, c, accepted[l], lapped[l], r, p, lapped[l])
    OBVIOUS
  <2>1. c \in {"f2", "f3", "f4", "f40", "f41", "f42", "f43", "f44"} /\ l \notin Flashed
    BY <1>1, <1>2, Places DEF Ring
  <2>2. RingMark(l, r, c, p)
    BY <2>1, <1>4, <1>5 DEF RingMark
  <2> QED
    BY <2>2 DEF RingStepIn
<1> HIDE DEF c, r
<1> QED
  BY <1>8, <1>9, <1>10, MovesOn DEF c, r

LEMMA FinishGoes ==
    ASSUME LogAssumption, Inv, ContentInv, NEW w \in Tasks, NEW l, Owns(w, l), Finish(w)
    PROVE  ContentInv'
<1> DEFINE r == LOG_DAT[l]
           y == lapped[l]
<1>1. l \in Logs /\ Lno(w) = l /\ w # Boot /\ TaskOf[l] = w
  BY Running, LogIs DEF Owns, LogAssumption
<1>2. /\ cpu = w /\ cpu' = None /\ task[w].pc = "end" /\ task' = [task EXCEPT ![w] = Idle]
      /\ log_bakup' = NoBakup /\ UNCHANGED <<LOG_DAT, flashing, history>>
  BY <1>1 DEF Finish, At
<1>3. task'[w] = Idle /\ Idle.pc = "idle" /\ \A u \in Workers \ {w} : task'[u] = task[u]
  BY <1>2 DEF Inv, Shape, TaskShape, Workers, Idle, Frame
<1>4. Phase(l)' = "idle" /\ \A m \in Logs \ {l} : Phase(m)' = Phase(m)
  <2>1. Phase(l)' = "idle"
    BY <1>1, <1>3 DEF Phase
  <2>2. ASSUME NEW m \in Logs \ {l} PROVE Phase(m)' = Phase(m)
    <3>1. CASE TaskOf[m] = w
      BY <1>1, <1>3, <2>2, <3>1 DEF Phase, Lno
    <3>2. CASE TaskOf[m] # w
      <4>1. TaskOf[m] \in Workers \ {w}
        BY <3>2 DEF LogAssumption, Workers
      <4> QED
        BY <1>3, <4>1 DEF Phase
    <3> QED
      BY <3>1, <3>2
  <2> QED
    BY <2>1, <2>2
<1>5. LogGoes(l, "idle", r, y)
  <2>1. StepIn(l, r, task[w].pc, accepted[l], req[l], r, "idle") /\ SameReaders(r, r)
    BY <1>2 DEF StepIn, MarkTo, SameReaders
  <2>2. RingStepIn(l, r, task[w].pc, accepted[l], y, r, "idle", y)
    BY <1>2 DEF RingStepIn, RingMark
  <2> HIDE DEF r, y
  <2> QED
    BY <2>1, <2>2, MovesTo DEF r, y
<1>6. LogOK(l)'
  BY <1>2, <1>4, <1>5 DEF LogGoes, LogOK, FltPhase, flashing, history, reading
<1>7. \A m \in Logs \ {l} : SameView(m)
  BY <1>2, <1>4 DEF SameView, FltPhase, flashing, history, reading
<1>8. HistoryShape'
  BY <1>2 DEF ContentInv, HistoryShape, flashing, history, reading
<1>9. TurnOK'
  <2>1. TurnOK /\ FLT \notin Tasks /\ Boot \notin Tasks /\ None \notin Tasks /\ None # FLT
    BY DEF ContentInv, LogAssumption
  <2>2. UNCHANGED <<cuts, flt, accepted, req>> /\ log_bakup'.f_recover \in Codes
    BY <1>2 DEF flashing, history, NoBakup, Codes
  <2>3. cuts' = 0 /\ task'[Boot] = Idle /\ flt'.by = FLT
    BY <1>1, <1>3, <2>1, <2>2 DEF TurnOK, Workers
  <2>4. \A u \in Tasks : \/ task'[u].pc = "idle" \/ task'[u].pc = "wait31"
                         \/ task'[u].pc = "wait30" /\ Lno(u)' \notin OneBank
    <3> SUFFICES ASSUME NEW u \in Tasks, u # w
                 PROVE  \/ task'[u].pc = "idle" \/ task'[u].pc = "wait31"
                        \/ task'[u].pc = "wait30" /\ Lno(u)' \notin OneBank
      BY <1>3
    <3>1. task'[u] = task[u] /\ u # cpu
      BY <1>2, <1>3 DEF Workers
    <3> QED
      BY <3>1, <2>1 DEF TurnOK, Lno
  <2>5. \A u \in Tasks : task'[u].pc # "idle" => /\ task'[u].dat = accepted'[Lno(u)']
                                                 /\ Lno(u)' \notin Flashed => Kind(u)' = 0
    <3> SUFFICES ASSUME NEW u \in Tasks, task'[u].pc # "idle"
                 PROVE  task'[u].dat = accepted[Lno(u)'] /\ (Lno(u)' \notin Flashed => Kind(u)' = 0)
      BY <2>2
    <3>1. u # w
      BY <1>3
    <3>2. task'[u] = task[u]
      BY <3>1, <1>3 DEF Workers
    <3>3. task[u].pc # "idle" /\ task'[u].dat = task[u].dat /\ Lno(u)' = Lno(u) /\ Kind(u)' = Kind(u)
      BY <3>2 DEF Lno, Kind
    <3> QED
      BY <3>3, <2>1 DEF TurnOK
  <2>6. flt'.pc \in {"idle", "write", "verify"} /\ (flt'.pc # "idle" => flt'.log \in Flashed /\ req'[flt'.log])
    BY <1>2, <2>1, <2>2 DEF TurnOK
  <2> QED
    BY <1>2, <2>1, <2>2, <2>3, <2>4, <2>5, <2>6 DEF TurnOK, Lno, Kind
<1> QED
  BY <1>1, <1>6, <1>7, <1>8, <1>9, OthersKeep

LEMMA WaitYieldsGoes ==
    ASSUME LogAssumption, Inv, ContentInv, NEW w \in Tasks, NEW l, Owns(w, l), WaitYields(w)
    PROVE  ContentInv'
<1>1. /\ cpu = w /\ cpu' = None /\ Waits(w) /\ IsWriting(Lno(w)) /\ Lno(w) = l
      /\ UNCHANGED <<LOG_DAT, log_bakup, log_mgr, req, params, flash, flt, task, accepted, handed, sent, lapped, cuts>>
  BY DEF WaitYields, ram, flashing, history, reading, Owns
<1>2. task[w].pc \in {"wait30", "wait31"} /\ Up
  BY <1>1, WaitIs DEF Workers
<1>3. /\ l \in Logs /\ LogGoes(l, task[w].pc, LOG_DAT[l], lapped[l])
  BY Running
<1>4. l \in Flashed
  BY <1>2, <1>3, Places
<1>5. Holds(req[l])
  <2>1. CheckParam[l] \in {None, l}
    BY <1>2, <1>4 DEF Inv, Safe, RequestInv
  <2> QED
    BY <1>1, <2>1 DEF IsWriting, Holds
<1>6. task[w].pc = "wait30" => l \notin OneBank
  <2>1. PhaseOK(l, LOG_DAT[l], task[w].pc, req[l], params[l].sramlog_kind, FltPhase(l))
    BY <1>3, <1>4 DEF LogGoes, FlashedOK, Store, BankOK
  <2> QED
    BY <1>5, <2>1 DEF PhaseOK, Holds
<1>7. TurnOK'
  <2>1. TurnOK /\ FLT \notin Tasks /\ None \notin Tasks /\ None # FLT
    BY DEF ContentInv, LogAssumption
  <2>2. \A u \in Tasks : \/ task[u].pc = "idle" \/ task[u].pc = "wait31"
                         \/ task[u].pc = "wait30" /\ Lno(u) \notin OneBank
    BY <1>1, <1>2, <1>6, <2>1 DEF TurnOK
  <2>3. flt.pc \in {"idle", "write", "verify"}
    BY <1>1, <2>1 DEF TurnOK
  <2> QED
    BY <1>1, <2>1, <2>2, <2>3 DEF TurnOK, Lno, Kind
<1>8. \A m \in Logs : LogOK(m)'
  <2>1. \A m \in Logs : SameView(m)
    BY <1>1 DEF SameView, Phase, FltPhase
  <2> QED
    BY <2>1, Elsewhere DEF ContentInv
<1>9. HistoryShape'
  BY <1>1 DEF ContentInv, HistoryShape
<1> QED
  BY <1>7, <1>8, <1>9 DEF ContentInv

-----------------------------------------------------------------------------
\* The six fields of a request.
IsRequest(p) ==
    p = [record_num |-> p.record_num, sramlog_kind |-> p.sramlog_kind, stat_Fcount |-> p.stat_Fcount,
         stat_sectnum |-> p.stat_sectnum, get_sector |-> p.get_sector, f_recover |-> p.f_recover]

NumTo(p, x) == [p EXCEPT !.record_num = x]
KindTo(p, x) == [p EXCEPT !.sramlog_kind = x]
FcountTo(p, x) == [p EXCEPT !.stat_Fcount = x]
SectnumTo(p, x) == [p EXCEPT !.stat_sectnum = x]
SectorTo(p, x) == [p EXCEPT !.get_sector = x]
MarkedTo(p, x) == [p EXCEPT !.f_recover = x]

LEMMA NumToIs ==
    ASSUME NEW p, IsRequest(p), NEW x
    PROVE  LET a == NumTo(p, x) IN
           /\ IsRequest(a) /\ a.record_num = x
           /\ a.sramlog_kind = p.sramlog_kind /\ a.stat_Fcount = p.stat_Fcount /\ a.stat_sectnum = p.stat_sectnum
           /\ a.get_sector = p.get_sector /\ a.f_recover = p.f_recover
<1> DEFINE a == NumTo(p, x)
<1>1. a = [record_num |-> x, sramlog_kind |-> p.sramlog_kind, stat_Fcount |-> p.stat_Fcount,
           stat_sectnum |-> p.stat_sectnum, get_sector |-> p.get_sector, f_recover |-> p.f_recover]
  BY DEF IsRequest, NumTo
<1> QED
  BY <1>1 DEF IsRequest

LEMMA KindToIs ==
    ASSUME NEW p, IsRequest(p), NEW x
    PROVE  LET a == KindTo(p, x) IN
           /\ IsRequest(a) /\ a.sramlog_kind = x
           /\ a.record_num = p.record_num /\ a.stat_Fcount = p.stat_Fcount /\ a.stat_sectnum = p.stat_sectnum
           /\ a.get_sector = p.get_sector /\ a.f_recover = p.f_recover
<1> DEFINE a == KindTo(p, x)
<1>1. a = [record_num |-> p.record_num, sramlog_kind |-> x, stat_Fcount |-> p.stat_Fcount,
           stat_sectnum |-> p.stat_sectnum, get_sector |-> p.get_sector, f_recover |-> p.f_recover]
  BY DEF IsRequest, KindTo
<1> QED
  BY <1>1 DEF IsRequest

LEMMA FcountToIs ==
    ASSUME NEW p, IsRequest(p), NEW x
    PROVE  LET a == FcountTo(p, x) IN
           /\ IsRequest(a) /\ a.stat_Fcount = x
           /\ a.record_num = p.record_num /\ a.sramlog_kind = p.sramlog_kind /\ a.stat_sectnum = p.stat_sectnum
           /\ a.get_sector = p.get_sector /\ a.f_recover = p.f_recover
<1> DEFINE a == FcountTo(p, x)
<1>1. a = [record_num |-> p.record_num, sramlog_kind |-> p.sramlog_kind, stat_Fcount |-> x,
           stat_sectnum |-> p.stat_sectnum, get_sector |-> p.get_sector, f_recover |-> p.f_recover]
  BY DEF IsRequest, FcountTo
<1> QED
  BY <1>1 DEF IsRequest

LEMMA SectnumToIs ==
    ASSUME NEW p, IsRequest(p), NEW x
    PROVE  LET a == SectnumTo(p, x) IN
           /\ IsRequest(a) /\ a.stat_sectnum = x
           /\ a.record_num = p.record_num /\ a.sramlog_kind = p.sramlog_kind /\ a.stat_Fcount = p.stat_Fcount
           /\ a.get_sector = p.get_sector /\ a.f_recover = p.f_recover
<1> DEFINE a == SectnumTo(p, x)
<1>1. a = [record_num |-> p.record_num, sramlog_kind |-> p.sramlog_kind, stat_Fcount |-> p.stat_Fcount,
           stat_sectnum |-> x, get_sector |-> p.get_sector, f_recover |-> p.f_recover]
  BY DEF IsRequest, SectnumTo
<1> QED
  BY <1>1 DEF IsRequest

LEMMA SectorToIs ==
    ASSUME NEW p, IsRequest(p), NEW x
    PROVE  LET a == SectorTo(p, x) IN
           /\ IsRequest(a) /\ a.get_sector = x
           /\ a.record_num = p.record_num /\ a.sramlog_kind = p.sramlog_kind /\ a.stat_Fcount = p.stat_Fcount /\ a.stat_sectnum = p.stat_sectnum /\ a.f_recover = p.f_recover
<1> DEFINE a == SectorTo(p, x)
<1>1. a = [record_num |-> p.record_num, sramlog_kind |-> p.sramlog_kind, stat_Fcount |-> p.stat_Fcount,
           stat_sectnum |-> p.stat_sectnum, get_sector |-> x, f_recover |-> p.f_recover]
  BY DEF IsRequest, SectorTo
<1> QED
  BY <1>1 DEF IsRequest

LEMMA MarkedToIs ==
    ASSUME NEW p, IsRequest(p), NEW x
    PROVE  LET a == MarkedTo(p, x) IN
           /\ IsRequest(a) /\ a.f_recover = x
           /\ a.record_num = p.record_num /\ a.sramlog_kind = p.sramlog_kind /\ a.stat_Fcount = p.stat_Fcount /\ a.stat_sectnum = p.stat_sectnum
           /\ a.get_sector = p.get_sector
<1> DEFINE a == MarkedTo(p, x)
<1>1. a = [record_num |-> p.record_num, sramlog_kind |-> p.sramlog_kind, stat_Fcount |-> p.stat_Fcount,
           stat_sectnum |-> p.stat_sectnum, get_sector |-> p.get_sector, f_recover |-> x]
  BY DEF IsRequest, MarkedTo
<1> QED
  BY <1>1 DEF IsRequest

LEMMA RequestGoes ==
    ASSUME LogAssumption, Inv, ContentInv, NEW w \in Tasks, NEW l, Owns(w, l), Request(w)
    PROVE  ContentInv'
<1> DEFINE r == LOG_DAT[l]
           n == r.count[r.kind]
           a == NumTo(params[l], n)
           par2 == KindTo(a, r.kind)
<1>1. l \in Logs /\ Lno(w) = l /\ LogGoes(l, task[w].pc, r, lapped[l]) /\ log_bakup.f_recover \in Codes
  BY Running DEF Owns
<1>2. /\ cpu = w /\ cpu' = w /\ task[w].pc = "request" /\ Goto(w, "f31")
      /\ req' = [req EXCEPT ![l] = TRUE]
      /\ params' = [params EXCEPT ![l].record_num = n, ![l].sramlog_kind = r.kind]
      /\ UNCHANGED <<LOG_DAT, log_bakup, log_mgr, flash, flt, accepted, handed, sent, lapped, cuts>>
  BY <1>1 DEF Request, Requested, At, ram, history, reading
<1>3. l \in Flashed
  <2>0. LogGoes(l, task[w].pc, r, lapped[l])
    BY <1>1
  <2>1. l \notin Flashed => task[w].pc # "request"
    BY <2>0, Places
  <2> QED
    BY <2>1, <1>2
<1>4. req = [m \in Flashed |-> req[m]] /\ params = [m \in Flashed |-> params[m]] /\ IsParam(params[l])
  BY <1>3 DEF Inv, Shape, ParShape, OtherShape
<1>5. AskedIn(r, par2)
  <2>1. IsRequest(params[l])
    BY <1>4 DEF IsParam, IsRequest
  <2>2. IsRequest(a) /\ a.record_num = n
    BY <2>1, NumToIs
  <2> HIDE DEF a, n
  <2>3. par2.sramlog_kind = r.kind /\ par2.record_num = a.record_num
    BY <2>2, KindToIs
  <2> QED
    BY <2>2, <2>3 DEF AskedIn, n
<1>6. params' = [params EXCEPT ![l] = par2]
  BY <1>2 DEF NumTo, KindTo
<1> HIDE DEF a, par2, n
<1>7. params'[l] = par2 /\ \A m \in Flashed \ {l} : params'[m] = params[m]
  BY <1>3, <1>4, <1>6, ByLog
<1>8. req'[l] = TRUE /\ \A m \in Flashed \ {l} : req'[m] = req[m]
  BY <1>2, <1>3, <1>4
<1>9. /\ Phase(l)' = "f31"
      /\ \A m \in Logs \ {l} : Phase(m)' = Phase(m)
      /\ task'[w].pc = "f31" /\ task'[w].Lno = task[w].Lno /\ task'[w].kind = task[w].kind
      /\ task'[w].dat = task[w].dat
      /\ \A u \in Workers \ {w} : task'[u] = task[u]
  BY <1>2, GoesTo
<1>10. FlashedOK(l, r, "f31", accepted[l], req'[l], par2, FltPhase(l), log_mgr[l], flash[l], handed[l], sent[l], lapped[l])
  <2> DEFINE j == FltPhase(l)
             k == accepted[l]
             z == req'[l]
             m == log_mgr[l]
             f == flash[l]
  <2>1. FlashedOK(l, r, "request", k, req[l], params[l], j, m, f, handed[l], sent[l], lapped[l])
    BY <1>1, <1>2, <1>3 DEF LogGoes
  <2>2. IsTrue(z)
    BY <1>8 DEF IsTrue
  <2> HIDE DEF r, j, k, z, m, f
  <2>3. Store(l, r, "request", k, req[l], params[l], j, m, f)
    BY <2>1 DEF FlashedOK
  <2>4. Store(l, r, "f31", k, z, par2, j, m, f)
    BY <2>2, <2>3, <1>3, <1>5, StoreRequest
  <2>5. Same(First(l, r, "f31", k, z, par2, j, m), First(l, r, "request", k, req[l], params[l], j, m))
    BY <2>2, <2>3, <1>3, <1>5, StoreRequest
  <2>6. SameReaders(r, r) /\ NoLess(k, k) /\ SameUnread(j, j)
    BY DEF SameReaders, NoLess, SameUnread
  <2>7. FlashedOK(l, r, "f31", k, z, par2, j, m, f, handed[l], sent[l], lapped[l])
    BY <2>1, <2>4, <2>5, <2>6, <1>3, FlashedGoes
  <2> QED
    BY <2>7 DEF j, k, z, m, f
<1>11. LogOK(l)'
  BY <1>2, <1>3, <1>7, <1>9, <1>10 DEF LogOK, FltPhase
<1>12. \A m \in Logs \ {l} : SameView(m)
  BY <1>2, <1>7, <1>8, <1>9 DEF SameView, FltPhase
<1>13. HistoryShape'
  BY <1>2 DEF ContentInv, HistoryShape
<1>14. TurnOK'
  <2>1. TurnOK /\ FLT \notin Tasks /\ Boot \notin Tasks /\ None \notin Tasks
    BY DEF ContentInv, LogAssumption
  <2>2. cuts' = 0 /\ task'[Boot] = Idle /\ flt'.by = FLT
    BY <1>2, <1>9, <2>1 DEF TurnOK, Workers
  <2>3. \A u \in Tasks : u # cpu' => \/ task'[u].pc = "idle" \/ task'[u].pc = "wait31"
                                     \/ task'[u].pc = "wait30" /\ Lno(u)' \notin OneBank
    <3> SUFFICES ASSUME NEW u \in Tasks, u # w
                 PROVE  \/ task'[u].pc = "idle" \/ task'[u].pc = "wait31"
                        \/ task'[u].pc = "wait30" /\ Lno(u)' \notin OneBank
      BY <1>2
    <3>1. task'[u] = task[u] /\ u # cpu
      BY <1>2, <1>9, <2>1 DEF Workers
    <3> QED
      BY <3>1, <2>1 DEF TurnOK, Lno
  <2>4. \A u \in Tasks : task'[u].pc # "idle" => /\ task'[u].dat = accepted'[Lno(u)']
                                                 /\ Lno(u)' \notin Flashed => Kind(u)' = 0
    <3> SUFFICES ASSUME NEW u \in Tasks, task'[u].pc # "idle"
                 PROVE  task'[u].dat = accepted[Lno(u)'] /\ (Lno(u)' \notin Flashed => Kind(u)' = 0)
      BY <1>2
    <3>1. task[u].pc # "idle" /\ task'[u].dat = task[u].dat /\ Lno(u)' = Lno(u) /\ Kind(u)' = Kind(u)
      BY <1>2, <1>9 DEF Workers, Lno, Kind
    <3> QED
      BY <3>1, <2>1 DEF TurnOK
  <2>5. flt.pc \in {"idle", "write", "verify"} /\ (flt.pc # "idle" => flt.log \in Flashed /\ req[flt.log])
    BY <1>2, <2>1 DEF TurnOK
  <2>6. flt'.pc # "idle" => flt'.log \in Flashed /\ req'[flt'.log]
    BY <1>2, <1>8, <2>5
  <2> QED
    BY <1>1, <1>2, <1>9, <2>1, <2>2, <2>3, <2>4, <2>5, <2>6 DEF TurnOK, Lno, Kind
<1> QED
  BY <1>1, <1>11, <1>12, <1>13, <1>14, OthersKeep

LEMMA LogWriteGoes ==
    ASSUME LogAssumption, Inv, ContentInv, NEW w \in Tasks, NEW l \in Logs, Log_Write(w, l)
    PROVE  ContentInv'
<1> DEFINE n == accepted[l]
           r == LOG_DAT[l]
           g == Frame("accept", l, n + 1, r.kind)
<1>1. /\ cpu = None /\ cpu' = w /\ w = TaskOf[l] /\ task[w] = Idle /\ task' = [task EXCEPT ![w] = g]
      /\ n < MaxRecords[l] /\ accepted' = [accepted EXCEPT ![l] = n + 1]
      /\ log_bakup'.f_recover = 1
      /\ UNCHANGED <<LOG_DAT, log_mgr, req, params, flash, flt, handed, sent, lapped, cuts>>
  BY DEF Log_Write, flashing, reading
<1>2. g.pc = "accept" /\ g.Lno = l /\ g.dat = n + 1 /\ g.kind = r.kind /\ Idle.pc = "idle"
  BY DEF Frame, Idle
<1>3. TurnOK /\ HistoryShape /\ LogOK(l)
  BY DEF ContentInv
<1> HIDE DEF g
<1>4. task'[w] = g /\ \A u \in Workers \ {w} : task'[u] = task[u]
  BY <1>1 DEF Inv, Shape, TaskShape, Workers
<1>5. accepted' = [m \in Logs |-> accepted'[m]] /\ accepted'[l] = n + 1 /\ \A m \in Logs \ {l} : accepted'[m] = accepted[m]
  BY <1>1, <1>3 DEF HistoryShape
<1>6. Phase(l) = "idle" /\ Phase(l)' = "accept"
  BY <1>1, <1>2, <1>4 DEF Phase
<1>7. ASSUME NEW m \in Logs \ {l} PROVE Phase(m)' = Phase(m)
  <2>1. CASE TaskOf[m] = w
    BY <1>1, <1>2, <1>4, <1>7, <2>1 DEF Phase
  <2>2. CASE TaskOf[m] # w
    <3>1. TaskOf[m] \in Workers \ {w}
      BY <2>2 DEF LogAssumption, Workers
    <3> QED
      BY <1>4, <3>1 DEF Phase
  <2> QED
    BY <2>1, <2>2
<1>8. ASSUME l \in Flashed PROVE LogOK(l)'
  <2> DEFINE j == FltPhase(l)
             q == req[l]
             par == params[l]
             m == log_mgr[l]
             f == flash[l]
  <2>1. FlashedOK(l, r, "idle", n, q, par, j, m, f, handed[l], sent[l], lapped[l])
    BY <1>3, <1>6, <1>8 DEF LogOK
  <2>2. n < MaxRecords[l]
    BY <1>1
  <2> HIDE DEF r, j, q, par, n, m, f
  <2>3. Store(l, r, "idle", n, q, par, j, m, f)
    BY <2>1 DEF FlashedOK
  <2>4. Store(l, r, "accept", n + 1, q, par, j, m, f)
    BY <2>2, <2>3, <1>8, StoreBegins
  <2>5. Same(First(l, r, "accept", n + 1, q, par, j, m), First(l, r, "idle", n, q, par, j, m))
    BY <2>2, <2>3, <1>8, StoreBegins
  <2>6. SameReaders(r, r) /\ NoLess(n, n + 1) /\ SameUnread(j, j)
    BY DEF SameReaders, NoLess, SameUnread
  <2>7. FlashedOK(l, r, "accept", n + 1, q, par, j, m, f, handed[l], sent[l], lapped[l])
    BY <2>1, <2>4, <2>5, <2>6, <1>8, FlashedGoes
  <2>8. FlashedOK(l, LOG_DAT[l], "accept", accepted'[l], req[l], params[l], FltPhase(l), log_mgr[l], flash[l],
                  handed[l], sent[l], lapped[l])
    BY <2>7, <1>5 DEF r, j, q, par, m, f
  <2>9. LogOK(l)'
    BY <1>1, <1>6, <1>8, <2>8 DEF LogOK, FltPhase
  <2> QED
    BY <2>9
<1>9. ASSUME l \notin Flashed PROVE LogOK(l)'
  <2>1. RamOK(l, r, "idle", n, handed[l], sent[l], lapped[l])
    BY <1>3, <1>6, <1>9 DEF LogOK
  <2>2. n < MaxRecords[l] /\ l \in Ring
    BY <1>1, <1>9 DEF Ring
  <2> HIDE DEF r, n
  <2>3. RamOK(l, r, "accept", n + 1, handed[l], sent[l], lapped[l])
    BY <2>1, <2>2, RamBegins
  <2>4. RamOK(l, LOG_DAT[l], "accept", accepted'[l], handed[l], sent[l], lapped[l])
    BY <2>3, <1>5 DEF r
  <2>5. LogOK(l)'
    BY <1>1, <1>6, <1>9, <2>4 DEF LogOK
  <2> QED
    BY <2>5
<1>10. \A m \in Logs \ {l} : SameView(m)
  BY <1>1, <1>5, <1>7 DEF SameView, FltPhase
<1>11. HistoryShape'
  BY <1>1, <1>3, <1>5 DEF HistoryShape
<1>12. TurnOK'
  <2>1. FLT \notin Tasks /\ Boot \notin Tasks /\ None \notin Tasks /\ None # FLT
    BY DEF LogAssumption
  <2>2. cuts' = 0 /\ task'[Boot] = Idle /\ flt'.by = FLT
    BY <1>1, <1>3, <1>4, <2>1 DEF TurnOK, Workers
  <2>3. \A u \in Tasks : u # w => \/ task'[u].pc = "idle" \/ task'[u].pc = "wait31"
                                  \/ task'[u].pc = "wait30" /\ Lno(u)' \notin OneBank
    BY <1>1, <1>3, <1>4, <2>1 DEF TurnOK, Lno, Workers
  <2>4. \A u \in Tasks : task'[u].pc # "idle" => /\ task'[u].dat = accepted'[Lno(u)']
                                                 /\ Lno(u)' \notin Flashed => Kind(u)' = 0
    <3> SUFFICES ASSUME NEW u \in Tasks, task'[u].pc # "idle"
                 PROVE  task'[u].dat = accepted'[Lno(u)'] /\ (Lno(u)' \notin Flashed => Kind(u)' = 0)
      OBVIOUS
    <3>1. CASE u = w
      <4>1. Lno(u)' = l /\ Kind(u)' = r.kind /\ task'[u].dat = n + 1
        BY <3>1, <1>2, <1>4 DEF Lno, Kind
      <4>2. l \notin Flashed => r.kind = 0
        BY <1>3 DEF LogOK, RamOK, RingOK
      <4> QED
        BY <4>1, <4>2, <1>5
    <3>2. CASE u # w
      <4>1. task[u].pc # "idle" /\ task'[u].dat = task[u].dat /\ Lno(u)' = Lno(u) /\ Kind(u)' = Kind(u)
        BY <3>2, <1>4 DEF Workers, Lno, Kind
      <4>2. Lno(u) \in Logs \ {l}
        <5>1. Lno(u) \in Logs
          BY DEF Inv, Shape, TaskShape, IsFrame, Workers, Lno
        <5>2. TaskOf[Lno(u)] = u
          BY <4>1 DEF Inv, Safe, FrameInv
        <5> QED
          BY <5>1, <5>2, <3>2, <1>1
      <4> QED
        BY <4>1, <4>2, <1>3, <1>5 DEF TurnOK
    <3> QED
      BY <3>1, <3>2
  <2>5. flt'.pc \in {"idle", "write", "verify"} /\ (flt'.pc # "idle" => flt'.log \in Flashed /\ req'[flt'.log])
    BY <1>1, <1>3, <2>1 DEF TurnOK
  <2>6. task'[w].pc # "idle" /\ log_bakup'.f_recover \in Codes
    BY <1>1, <1>2, <1>4 DEF Codes
  <2> QED
    BY <1>1, <2>1, <2>2, <2>3, <2>4, <2>5, <2>6 DEF TurnOK, Lno, Kind
<1> QED
  BY <1>8, <1>9, <1>10, <1>11, <1>12, OthersKeep

LEMMA TaskWorks == ASSUME LogAssumption, Inv, ContentInv, NEW w \in Tasks, Step(w) PROVE ContentInv'
<1>1. PICK l : l = Lno(w)
  OBVIOUS
<1>2. task[w].pc # "idle"
  BY DEF Step, Accept, WaitYields, WaitEnds, Copy, CountUnread, Count, Checkpoint, Advance, Cap, Rewind,
         Oldest, Toggle, ClearBank, Finish, Request, At, Waits, WaitNext
<1>3. Owns(w, l)
  BY <1>1, <1>2 DEF Owns
<1>4. CASE Accept(w) \/ WaitYields(w) \/ WaitEnds(w)
  BY <1>3, <1>4, AcceptGoes, WaitYieldsGoes, WaitEndsGoes
<1>5. CASE Copy(w) \/ CountUnread(w) \/ Count(w)
  BY <1>3, <1>5, CopyGoes, CountUnreadGoes, CountGoes
<1>6. CASE Checkpoint(w) \/ Advance(w) \/ Cap(w)
  BY <1>3, <1>6, CheckpointGoes, AdvanceGoes, CapGoes
<1>7. CASE Rewind(w) \/ Oldest(w) \/ Toggle(w)
  BY <1>3, <1>7, RewindGoes, OldestGoes, ToggleGoes
<1>8. CASE ClearBank(w) \/ Finish(w) \/ Request(w)
  BY <1>3, <1>8, ClearBankGoes, FinishGoes, RequestGoes
<1> QED
  BY <1>4, <1>5, <1>6, <1>7, <1>8 DEF Step

-----------------------------------------------------------------------------
(* A step of the flash task on log l: to place j, with x, y, z, par2, m2 and *)
(* f2 for the record of the log, lapped, req, params, log_mgr and flash.     *)

FltStep(l, j, x, y, z, par2, m2, f2) ==
    /\ l \in Flashed /\ flt'.pc = j /\ flt'.log = l /\ flt'.by = FLT /\ (flt.pc = "idle" \/ flt.log = l)
    /\ cpu \in {FLT, None} /\ cpu' \in {FLT, None} /\ (cpu' = FLT => j # "idle")
    /\ (cpu' = None => j \in {"idle", "write", "verify"}) /\ (j # "idle" => Holds(z))
    /\ LOG_DAT' = [LOG_DAT EXCEPT ![l] = x] /\ lapped' = [lapped EXCEPT ![l] = y]
    /\ req' = [req EXCEPT ![l] = z] /\ params' = [params EXCEPT ![l] = par2]
    /\ log_mgr' = [log_mgr EXCEPT ![l] = m2] /\ flash' = [flash EXCEPT ![l] = f2]
    /\ UNCHANGED <<task, log_bakup, accepted, handed, sent, cuts>>

LEMMA FltTurn ==
    ASSUME LogAssumption, Inv, ContentInv, NEW l, NEW j, NEW x, NEW y, NEW z, NEW par2, NEW m2, NEW f2,
           FltStep(l, j, x, y, z, par2, m2, f2)
    PROVE  TurnOK'
<1>1. TurnOK /\ req = [m \in Flashed |-> req[m]]
  BY DEF ContentInv, Inv, Shape, OtherShape
<1>2. FLT \notin Tasks /\ Boot \notin Tasks /\ None \notin Tasks /\ None # FLT
  BY DEF LogAssumption
<1>3. /\ l \in Flashed /\ flt'.pc = j /\ flt'.log = l /\ flt'.by = FLT
      /\ cpu \in {FLT, None} /\ cpu' \in {FLT, None} /\ (cpu' = FLT => j # "idle")
      /\ (cpu' = None => j \in {"idle", "write", "verify"}) /\ (j # "idle" => Holds(z))
      /\ req' = [req EXCEPT ![l] = z]
      /\ UNCHANGED <<task, log_bakup, accepted, cuts>>
  BY DEF FltStep
<1>4. \A u \in Tasks : /\ \/ task[u].pc = "idle" \/ task[u].pc = "wait31"
                          \/ task[u].pc = "wait30" /\ Lno(u) \notin OneBank
                       /\ task[u].pc # "idle" => /\ task[u].dat = accepted[Lno(u)]
                                                 /\ Lno(u) \notin Flashed => Kind(u) = 0
  BY <1>1, <1>2, <1>3 DEF TurnOK
<1>5. j # "idle" => req'[l]
  BY <1>1, <1>3 DEF Holds
<1>6. cuts' = 0 /\ task'[Boot] = Idle /\ log_bakup'.f_recover \in Codes
  BY <1>1, <1>3 DEF TurnOK
<1>7. \A u \in Tasks : Lno(u)' = Lno(u) /\ Kind(u)' = Kind(u)
  BY <1>3 DEF Lno, Kind
<1>8. /\ cpu' \in Tasks \cup {FLT, None} /\ (cpu' \in Tasks => task'[cpu'].pc # "idle")
      /\ cpu' = FLT => flt'.pc # "idle"
      /\ cpu' # FLT => flt'.pc \in {"idle", "write", "verify"}
      /\ flt'.pc # "idle" => flt'.log \in Flashed /\ req'[flt'.log]
  BY <1>2, <1>3, <1>5
<1>9. \A u \in Tasks : u # cpu' => \/ task'[u].pc = "idle" \/ task'[u].pc = "wait31"
                                   \/ task'[u].pc = "wait30" /\ Lno(u)' \notin OneBank
  BY <1>3, <1>4, <1>7
<1>10. \A u \in Tasks : task'[u].pc # "idle" => /\ task'[u].dat = accepted'[Lno(u)']
                                                /\ Lno(u)' \notin Flashed => Kind(u)' = 0
  BY <1>3, <1>4, <1>7
<1> QED
  BY <1>3, <1>6, <1>8, <1>9, <1>10 DEF TurnOK, Lno, Kind

LEMMA FltGoes ==
    ASSUME LogAssumption, Inv, ContentInv, NEW l, NEW j, NEW x, NEW y, NEW z, NEW par2, NEW m2, NEW f2,
           FltStep(l, j, x, y, z, par2, m2, f2),
           FlashedOK(l, x, Phase(l), accepted[l], z, par2, j, m2, f2, handed[l], sent[l], y)
    PROVE  ContentInv'
<1>1. /\ l \in Flashed /\ flt'.pc = j /\ flt'.log = l /\ (flt.pc = "idle" \/ flt.log = l)
      /\ LOG_DAT' = [LOG_DAT EXCEPT ![l] = x] /\ lapped' = [lapped EXCEPT ![l] = y]
      /\ req' = [req EXCEPT ![l] = z] /\ params' = [params EXCEPT ![l] = par2]
      /\ log_mgr' = [log_mgr EXCEPT ![l] = m2] /\ flash' = [flash EXCEPT ![l] = f2]
      /\ UNCHANGED <<task, accepted, handed, sent>>
  BY DEF FltStep
<1>2. l \in Logs
  BY <1>1 DEF LogAssumption
<1>3. HistoryShape
  BY DEF ContentInv
<1>4. LOG_DAT'[l] = x /\ \A m \in Logs \ {l} : LOG_DAT'[m] = LOG_DAT[m]
  BY <1>1, <1>2, ByLog DEF Inv, Shape, RamShape
<1>5. /\ lapped' = [m \in Logs |-> lapped'[m]] /\ lapped'[l] = y
      /\ \A m \in Logs \ {l} : lapped'[m] = lapped[m]
  BY <1>1, <1>2, <1>3, ByLog DEF HistoryShape
<1>6. req'[l] = z /\ \A m \in Flashed \ {l} : req'[m] = req[m]
  <2>1. req = [m \in Flashed |-> req[m]]
    BY DEF Inv, Shape, OtherShape
  <2> QED
    BY <2>1, <1>1
<1>7. params'[l] = par2 /\ \A m \in Flashed \ {l} : params'[m] = params[m]
  BY <1>1, ByLog DEF Inv, Shape, ParShape
<1>8. /\ log_mgr' = [m \in Flashed |-> log_mgr'[m]] /\ log_mgr'[l] = m2
      /\ \A m \in Flashed \ {l} : log_mgr'[m] = log_mgr[m]
  BY <1>1, <1>3, ByLog DEF HistoryShape
<1>9. /\ flash' = [m \in Flashed |-> flash'[m]] /\ flash'[l] = f2
      /\ \A m \in Flashed \ {l} : flash'[m] = flash[m]
  BY <1>1, <1>3, ByLog DEF HistoryShape
<1>10. \A m \in Logs : Phase(m)' = Phase(m)
  BY <1>1 DEF Phase
<1>11. FltPhase(l)' = j /\ \A m \in Logs \ {l} : FltPhase(m)' = FltPhase(m)
  BY <1>1 DEF FltPhase
<1>12. TurnOK'
  BY FltTurn
<1>13. HistoryShape'
  BY <1>1, <1>3, <1>5, <1>8, <1>9 DEF HistoryShape
<1>14. LogOK(l)'
  <2>1. FlashedOK(l, LOG_DAT'[l], Phase(l)', accepted'[l], req'[l], params'[l], FltPhase(l)', log_mgr'[l], flash'[l],
                  handed'[l], sent'[l], lapped'[l])
    BY <1>1, <1>2, <1>4, <1>5, <1>6, <1>7, <1>8, <1>9, <1>10, <1>11
  <2> QED
    BY <2>1, <1>1 DEF LogOK
<1>15. \A m \in Logs \ {l} : SameView(m)
  BY <1>1, <1>4, <1>5, <1>6, <1>7, <1>8, <1>9, <1>10, <1>11 DEF SameView
<1> QED
  BY <1>2, <1>12, <1>13, <1>14, <1>15, OthersKeep

\* What the flash task finds.
FltFinds(l) ==
    /\ RestsAt(l, Phase(l)) /\ IsLog(LOG_DAT[l]) /\ IsRequest(params[l]) /\ Bit(params[l].sramlog_kind)
    /\ FlashedOK(l, LOG_DAT[l], Phase(l), accepted[l], req[l], params[l], FltPhase(l), log_mgr[l],
                 flash[l], handed[l], sent[l], lapped[l])
    /\ LOG_DAT = [LOG_DAT EXCEPT ![l] = LOG_DAT[l]] /\ lapped = [lapped EXCEPT ![l] = lapped[l]]
    /\ req = [req EXCEPT ![l] = req[l]] /\ params = [params EXCEPT ![l] = params[l]]
    /\ log_mgr = [log_mgr EXCEPT ![l] = log_mgr[l]] /\ flash = [flash EXCEPT ![l] = flash[l]]
    /\ flt.by = FLT

LEMMA FltFound ==
    ASSUME LogAssumption, Inv, ContentInv, NEW l \in Flashed, cpu \in {FLT, None}
    PROVE  FltFinds(l)
<1>1. l \in Logs /\ TaskOf[l] \in Tasks
  BY DEF LogAssumption
<1>2. TurnOK /\ HistoryShape /\ LogOK(l)
  BY <1>1 DEF ContentInv
<1>3. RestsAt(l, Phase(l))
  <2> DEFINE w == TaskOf[l]
  <2>1. \/ task[w].pc = "idle" \/ task[w].pc = "wait31"
        \/ task[w].pc = "wait30" /\ Lno(w) \notin OneBank
    BY <1>1, <1>2 DEF TurnOK, LogAssumption
  <2> QED
    BY <2>1 DEF RestsAt, Resting, Phase, Lno
<1>4. FlashedOK(l, LOG_DAT[l], Phase(l), accepted[l], req[l], params[l], FltPhase(l), log_mgr[l],
                flash[l], handed[l], sent[l], lapped[l])
  BY <1>2 DEF LogOK
<1>5. /\ IsLog(LOG_DAT[l]) /\ LOG_DAT = [LOG_DAT EXCEPT ![l] = LOG_DAT[l]]
  BY <1>1 DEF Inv, Shape, RamShape
<1>6. IsRequest(params[l]) /\ Bit(params[l].sramlog_kind)
  BY DEF Inv, Shape, ParShape, IsParam, IsRequest, Bit
<1>7. params = [params EXCEPT ![l] = params[l]]
  BY DEF Inv, Shape, ParShape
<1>8. req = [req EXCEPT ![l] = req[l]]
  BY DEF Inv, Shape, OtherShape
<1>9. /\ lapped = [lapped EXCEPT ![l] = lapped[l]]
      /\ log_mgr = [log_mgr EXCEPT ![l] = log_mgr[l]] /\ flash = [flash EXCEPT ![l] = flash[l]]
  BY <1>1, <1>2 DEF HistoryShape
<1>10. flt.by = FLT
  BY <1>2 DEF TurnOK
<1> QED
  BY <1>3, <1>4, <1>5, <1>6, <1>7, <1>8, <1>9, <1>10 DEF FltFinds

\* A step after which the readers find what they found before.
LEMMA FltOn ==
    ASSUME LogAssumption, Inv, ContentInv, NEW l, NEW j, NEW x, NEW z, NEW par2, NEW m2, NEW f2,
           FltStep(l, j, x, lapped[l], z, par2, m2, f2),
           Store(l, x, Phase(l), accepted[l], z, par2, j, m2, f2),
           Same(First(l, x, Phase(l), accepted[l], z, par2, j, m2),
                First(l, LOG_DAT[l], Phase(l), accepted[l], req[l], params[l], FltPhase(l), log_mgr[l])),
           SameReaders(LOG_DAT[l], x), SameUnread(FltPhase(l), j)
    PROVE  ContentInv'
<1>1. l \in Flashed /\ cpu \in {FLT, None}
  BY DEF FltStep
<1>2. FlashedOK(l, LOG_DAT[l], Phase(l), accepted[l], req[l], params[l], FltPhase(l), log_mgr[l],
                flash[l], handed[l], sent[l], lapped[l])
  BY <1>1, FltFound DEF FltFinds
<1>3. NoLess(accepted[l], accepted[l])
  BY DEF NoLess
<1>4. FlashedOK(l, x, Phase(l), accepted[l], z, par2, j, m2, f2, handed[l], sent[l], lapped[l])
  BY <1>1, <1>2, <1>3, FlashedGoes
<1> QED
  BY <1>4, FltGoes

-----------------------------------------------------------------------------
\* The flash task is at log l.
FltOf(l) == flt.log = l /\ flt.pc # "idle"

LEMMA FltBusy ==
    ASSUME LogAssumption, Inv, ContentInv, NEW l, FltOf(l), cpu \in {FLT, None}
    PROVE  /\ l \in Flashed /\ Holds(req[l]) /\ FltPhase(l) = flt.pc /\ flt.by = FLT
           /\ RestsAt(l, Phase(l)) /\ IsLog(LOG_DAT[l]) /\ IsRequest(params[l]) /\ Bit(params[l].sramlog_kind)
           /\ FlashedOK(l, LOG_DAT[l], Phase(l), accepted[l], req[l], params[l], flt.pc, log_mgr[l],
                        flash[l], handed[l], sent[l], lapped[l])
           /\ LOG_DAT = [LOG_DAT EXCEPT ![l] = LOG_DAT[l]] /\ lapped = [lapped EXCEPT ![l] = lapped[l]]
           /\ req = [req EXCEPT ![l] = req[l]] /\ params = [params EXCEPT ![l] = params[l]]
           /\ log_mgr = [log_mgr EXCEPT ![l] = log_mgr[l]] /\ flash = [flash EXCEPT ![l] = flash[l]]
           /\ LOG_DAT[l].Fcount \in 0 .. sectmax[l]
           /\ SameReaders(LOG_DAT[l], LOG_DAT[l]) /\ SamePar(params[l], params[l])
<1>1. l \in Flashed /\ Holds(req[l]) /\ FltPhase(l) = flt.pc
  BY DEF ContentInv, TurnOK, FltOf, Holds, FltPhase
<1>2. FltFinds(l)
  BY <1>1, FltFound
<1>3. FlashedOK(l, LOG_DAT[l], Phase(l), accepted[l], req[l], params[l], flt.pc, log_mgr[l],
                flash[l], handed[l], sent[l], lapped[l])
  BY <1>1, <1>2 DEF FltFinds
<1>4. LOG_DAT[l].Fcount \in 0 .. sectmax[l]
  BY <1>3 DEF FlashedOK, Store
<1> QED
  BY <1>1, <1>2, <1>3, <1>4 DEF FltFinds, SameReaders, SamePar

LEMMA FltTo ==
    ASSUME Inv, NEW p, FltGoto(p)
    PROVE  flt'.pc = p /\ flt'.log = flt.log /\ flt'.by = flt.by
BY DEF FltGoto, Inv, Shape, OtherShape

LEMMA FltSectorGoes ==
    ASSUME LogAssumption, Inv, ContentInv, NEW l, FltOf(l), FltSector
    PROVE  ContentInv'
<1> DEFINE s == Sec(l, log_mgr[l], log_mgr[l].sectnum)
           par2 == SectorTo(params[l], s)
<1>1. /\ cpu = FLT /\ cpu' = FLT /\ flt.pc = "sector" /\ flt.log = l /\ FltGoto("erase")
      /\ params' = [params EXCEPT ![l].get_sector = s]
      /\ UNCHANGED <<LOG_DAT, log_bakup, log_mgr, req, flash, task, accepted, handed, sent, lapped, cuts>>
  BY DEF FltSector, FltAt, FltOf, WriteSector, Sec, ram, history, reading
<1>2. params' = [params EXCEPT ![l] = par2]
  BY <1>1 DEF SectorTo
<1>3. /\ l \in Flashed /\ Holds(req[l]) /\ FltPhase(l) = "sector" /\ flt.by = FLT
      /\ RestsAt(l, Phase(l)) /\ IsRequest(params[l])
      /\ FlashedOK(l, LOG_DAT[l], Phase(l), accepted[l], req[l], params[l], "sector", log_mgr[l],
                   flash[l], handed[l], sent[l], lapped[l])
      /\ LOG_DAT = [LOG_DAT EXCEPT ![l] = LOG_DAT[l]] /\ lapped = [lapped EXCEPT ![l] = lapped[l]]
      /\ req = [req EXCEPT ![l] = req[l]]
      /\ log_mgr = [log_mgr EXCEPT ![l] = log_mgr[l]] /\ flash = [flash EXCEPT ![l] = flash[l]]
      /\ SameReaders(LOG_DAT[l], LOG_DAT[l])
  BY <1>1, FltBusy
<1> HIDE DEF s
<1>4. SamePar(params[l], par2) /\ par2.get_sector = s
  BY <1>3, SectorToIs DEF SamePar
<1> HIDE DEF par2
<1>5. FltStep(l, "erase", LOG_DAT[l], lapped[l], req[l], par2, log_mgr[l], flash[l])
  BY <1>1, <1>2, <1>3, FltTo DEF FltStep
<1>6. /\ Store(l, LOG_DAT[l], Phase(l), accepted[l], req[l], par2, "erase", log_mgr[l], flash[l])
      /\ Same(First(l, LOG_DAT[l], Phase(l), accepted[l], req[l], par2, "erase", log_mgr[l]),
              First(l, LOG_DAT[l], Phase(l), accepted[l], req[l], params[l], "sector", log_mgr[l]))
  <2>1. Store(l, LOG_DAT[l], Phase(l), accepted[l], req[l], params[l], "sector", log_mgr[l], flash[l])
    BY <1>3 DEF FlashedOK
  <2>2. par2.get_sector = Sec(l, log_mgr[l], log_mgr[l].sectnum)
    BY <1>4 DEF s
  <2> QED
    BY <2>1, <2>2, <1>3, <1>4, StoreSector
<1>7. SameUnread(FltPhase(l), "erase")
  BY <1>3 DEF SameUnread
<1> QED
  BY <1>3, <1>5, <1>6, <1>7, FltOn

\* The three fields of log_mgr.
IsMgr(m) == m = [secttop |-> m.secttop, sectnum |-> m.sectnum, record_num |-> m.record_num]
LEMMA NewSecttop ==
    ASSUME NEW m, IsMgr(m), NEW x
    PROVE  LET m2 == [m EXCEPT !.secttop = x] IN MgrIs(m2, x, m.sectnum, m.record_num)
BY DEF IsMgr, MgrIs
LEMMA NewSectnum ==
    ASSUME NEW m, IsMgr(m), NEW x
    PROVE  LET m2 == [m EXCEPT !.sectnum = x] IN MgrIs(m2, m.secttop, x, m.record_num)
BY DEF IsMgr, MgrIs
LEMMA NewRecords ==
    ASSUME NEW m, IsMgr(m), NEW x
    PROVE  LET m2 == [m EXCEPT !.record_num = x] IN MgrIs(m2, m.secttop, m.sectnum, x)
BY DEF IsMgr, MgrIs

LEMMA FltEraseGoes ==
    ASSUME LogAssumption, Inv, ContentInv, NEW l, FltOf(l), FltErase
    PROVE  ContentInv'
<1> DEFINE f2 == [flash[l] EXCEPT ![params[l].get_sector] = None]
<1>1. /\ cpu \in {FLT, None} /\ cpu' = None /\ flt.pc = "erase" /\ flt.log = l /\ FltGoto("write")
      /\ flash' = [flash EXCEPT ![l][params[l].get_sector] = None]
      /\ UNCHANGED <<LOG_DAT, log_bakup, log_mgr, req, params, task, accepted, handed, sent, lapped, cuts>>
  BY FltBusy, LogAssumption DEF FltErase, FltAt, FltOf, FltYields, Mgr, Par, FltMark, ram, history, reading
<1>2. /\ l \in Flashed /\ Holds(req[l]) /\ FltPhase(l) = "erase" /\ flt.by = FLT
      /\ RestsAt(l, Phase(l)) /\ IsLog(LOG_DAT[l]) /\ IsRequest(params[l]) /\ Bit(params[l].sramlog_kind)
      /\ FlashedOK(l, LOG_DAT[l], Phase(l), accepted[l], req[l], params[l], "erase", log_mgr[l],
                   flash[l], handed[l], sent[l], lapped[l])
      /\ LOG_DAT = [LOG_DAT EXCEPT ![l] = LOG_DAT[l]] /\ lapped = [lapped EXCEPT ![l] = lapped[l]]
      /\ req = [req EXCEPT ![l] = req[l]] /\ params = [params EXCEPT ![l] = params[l]]
      /\ log_mgr = [log_mgr EXCEPT ![l] = log_mgr[l]] /\ flash = [flash EXCEPT ![l] = flash[l]]
      /\ SameReaders(LOG_DAT[l], LOG_DAT[l]) /\ SamePar(params[l], params[l]) /\ LOG_DAT[l].Fcount \in 0 .. sectmax[l]
  BY <1>1, FltBusy
<1>3. flash' = [flash EXCEPT ![l] = f2]
  BY <1>1, <1>2
<1>4. IsPut(flash[l], params[l].get_sector, None, f2)
  BY DEF IsPut
<1> HIDE DEF f2
<1>5. FltStep(l, "write", LOG_DAT[l], lapped[l], req[l], params[l], log_mgr[l], f2)
  BY <1>1, <1>2, <1>3, FltTo DEF FltStep
<1>6. /\ Store(l, LOG_DAT[l], Phase(l), accepted[l], req[l], params[l], "write", log_mgr[l], f2)
      /\ Same(First(l, LOG_DAT[l], Phase(l), accepted[l], req[l], params[l], "write", log_mgr[l]),
              First(l, LOG_DAT[l], Phase(l), accepted[l], req[l], params[l], "erase", log_mgr[l]))
  <2>1. Store(l, LOG_DAT[l], Phase(l), accepted[l], req[l], params[l], "erase", log_mgr[l], flash[l])
    BY <1>2 DEF FlashedOK
  <2> QED
    BY <2>1, <1>2, <1>4, StoreErase
<1>7. SameUnread(FltPhase(l), "write")
  BY <1>2 DEF SameUnread
<1> QED
  BY <1>2, <1>4, <1>5, <1>6, <1>7, FltOn

LEMMA FltWriteGoes ==
    ASSUME LogAssumption, Inv, ContentInv, NEW l, FltOf(l), FltWrite
    PROVE  ContentInv'
<1> DEFINE f2 == [flash[l] EXCEPT ![params[l].get_sector] = LOG_DAT[l].dat[params[l].sramlog_kind]]
<1>1. /\ cpu \in {FLT, None} /\ cpu' = None /\ flt.pc = "write" /\ flt.log = l /\ FltGoto("verify")
      /\ flash' = [flash EXCEPT ![l][params[l].get_sector] = LOG_DAT[l].dat[params[l].sramlog_kind]]
      /\ UNCHANGED <<LOG_DAT, log_bakup, log_mgr, req, params, task, accepted, handed, sent, lapped, cuts>>
  BY FltBusy, LogAssumption DEF FltWrite, FltAt, FltOf, FltYields, Mgr, Par, FltMark, ram, history, reading
<1>2. /\ l \in Flashed /\ Holds(req[l]) /\ FltPhase(l) = "write" /\ flt.by = FLT
      /\ RestsAt(l, Phase(l)) /\ IsLog(LOG_DAT[l]) /\ IsRequest(params[l]) /\ Bit(params[l].sramlog_kind)
      /\ FlashedOK(l, LOG_DAT[l], Phase(l), accepted[l], req[l], params[l], "write", log_mgr[l],
                   flash[l], handed[l], sent[l], lapped[l])
      /\ LOG_DAT = [LOG_DAT EXCEPT ![l] = LOG_DAT[l]] /\ lapped = [lapped EXCEPT ![l] = lapped[l]]
      /\ req = [req EXCEPT ![l] = req[l]] /\ params = [params EXCEPT ![l] = params[l]]
      /\ log_mgr = [log_mgr EXCEPT ![l] = log_mgr[l]] /\ flash = [flash EXCEPT ![l] = flash[l]]
      /\ SameReaders(LOG_DAT[l], LOG_DAT[l]) /\ SamePar(params[l], params[l]) /\ LOG_DAT[l].Fcount \in 0 .. sectmax[l]
  BY <1>1, FltBusy
<1>3. flash' = [flash EXCEPT ![l] = f2]
  BY <1>1, <1>2
<1>4. IsPut(flash[l], params[l].get_sector, LOG_DAT[l].dat[params[l].sramlog_kind], f2)
  BY DEF IsPut
<1> HIDE DEF f2
<1>5. FltStep(l, "verify", LOG_DAT[l], lapped[l], req[l], params[l], log_mgr[l], f2)
  BY <1>1, <1>2, <1>3, FltTo DEF FltStep
<1>6. /\ Store(l, LOG_DAT[l], Phase(l), accepted[l], req[l], params[l], "verify", log_mgr[l], f2)
      /\ Same(First(l, LOG_DAT[l], Phase(l), accepted[l], req[l], params[l], "verify", log_mgr[l]),
              First(l, LOG_DAT[l], Phase(l), accepted[l], req[l], params[l], "write", log_mgr[l]))
  <2>1. Store(l, LOG_DAT[l], Phase(l), accepted[l], req[l], params[l], "write", log_mgr[l], flash[l])
    BY <1>2 DEF FlashedOK
  <2> QED
    BY <2>1, <1>2, <1>4, StoreWritten
<1>7. SameUnread(FltPhase(l), "verify")
  BY <1>2 DEF SameUnread
<1> QED
  BY <1>2, <1>4, <1>5, <1>6, <1>7, FltOn

LEMMA FltVerifiedGoes ==
    ASSUME LogAssumption, Inv, ContentInv, NEW l, FltOf(l), FltVerified
    PROVE  ContentInv'
<1> DEFINE par2 == MarkedTo(params[l], 2)
<1>1. /\ cpu \in {FLT, None} /\ cpu' = FLT /\ flt.pc = "verify" /\ flt.log = l /\ FltGoto("fcount")
      /\ params' = [params EXCEPT ![l].f_recover = 2]
      /\ UNCHANGED <<LOG_DAT, log_bakup, log_mgr, req, flash, task, accepted, handed, sent, lapped, cuts>>
  BY FltBusy DEF FltVerified, FltAt, FltOf, FltYields, Mgr, Par, FltMark, ram, history, reading
<1>2. /\ l \in Flashed /\ Holds(req[l]) /\ FltPhase(l) = "verify" /\ flt.by = FLT
      /\ RestsAt(l, Phase(l)) /\ IsLog(LOG_DAT[l]) /\ IsRequest(params[l]) /\ Bit(params[l].sramlog_kind)
      /\ FlashedOK(l, LOG_DAT[l], Phase(l), accepted[l], req[l], params[l], "verify", log_mgr[l],
                   flash[l], handed[l], sent[l], lapped[l])
      /\ LOG_DAT = [LOG_DAT EXCEPT ![l] = LOG_DAT[l]] /\ lapped = [lapped EXCEPT ![l] = lapped[l]]
      /\ req = [req EXCEPT ![l] = req[l]] /\ params = [params EXCEPT ![l] = params[l]]
      /\ log_mgr = [log_mgr EXCEPT ![l] = log_mgr[l]] /\ flash = [flash EXCEPT ![l] = flash[l]]
      /\ SameReaders(LOG_DAT[l], LOG_DAT[l]) /\ SamePar(params[l], params[l]) /\ LOG_DAT[l].Fcount \in 0 .. sectmax[l]
  BY <1>1, FltBusy
<1>3. params' = [params EXCEPT ![l] = par2]
  BY <1>1, <1>2 DEF MarkedTo
<1>4. SamePar(params[l], par2) /\ par2.get_sector = params[l].get_sector
  BY <1>2, MarkedToIs DEF SamePar
<1> HIDE DEF par2
<1>5. FltStep(l, "fcount", LOG_DAT[l], lapped[l], req[l], par2, log_mgr[l], flash[l])
  BY <1>1, <1>2, <1>3, FltTo DEF FltStep
<1>6. /\ Store(l, LOG_DAT[l], Phase(l), accepted[l], req[l], par2, "fcount", log_mgr[l], flash[l])
      /\ Same(First(l, LOG_DAT[l], Phase(l), accepted[l], req[l], par2, "fcount", log_mgr[l]),
              First(l, LOG_DAT[l], Phase(l), accepted[l], req[l], params[l], "verify", log_mgr[l]))
  <2>1. Store(l, LOG_DAT[l], Phase(l), accepted[l], req[l], params[l], "verify", log_mgr[l], flash[l])
    BY <1>2 DEF FlashedOK
  <2> QED
    BY <2>1, <1>2, <1>4, StoreVerified
<1>7. SameUnread(FltPhase(l), "fcount")
  BY <1>2 DEF SameUnread
<1> QED
  BY <1>2, <1>4, <1>5, <1>6, <1>7, FltOn

LEMMA FltSectnumGoes ==
    ASSUME LogAssumption, Inv, ContentInv, NEW l, FltOf(l), FltSectnum
    PROVE  ContentInv'
<1> DEFINE m2 == [log_mgr[l] EXCEPT !.sectnum = log_mgr[l].sectnum + 1]
<1>1. /\ cpu \in {FLT, None} /\ cpu' = FLT /\ flt.pc = "sectnum" /\ flt.log = l /\ FltGoto("count")
      /\ log_mgr' = [log_mgr EXCEPT ![l].sectnum = log_mgr[l].sectnum + 1]
      /\ UNCHANGED <<LOG_DAT, log_bakup, req, params, flash, task, accepted, handed, sent, lapped, cuts>>
  BY FltBusy DEF FltSectnum, FltAt, FltOf, FltYields, Mgr, Par, FltMark, ram, history, reading
<1>2. /\ l \in Flashed /\ Holds(req[l]) /\ FltPhase(l) = "sectnum" /\ flt.by = FLT
      /\ RestsAt(l, Phase(l)) /\ IsLog(LOG_DAT[l]) /\ IsRequest(params[l]) /\ Bit(params[l].sramlog_kind)
      /\ FlashedOK(l, LOG_DAT[l], Phase(l), accepted[l], req[l], params[l], "sectnum", log_mgr[l],
                   flash[l], handed[l], sent[l], lapped[l])
      /\ LOG_DAT = [LOG_DAT EXCEPT ![l] = LOG_DAT[l]] /\ lapped = [lapped EXCEPT ![l] = lapped[l]]
      /\ req = [req EXCEPT ![l] = req[l]] /\ params = [params EXCEPT ![l] = params[l]]
      /\ log_mgr = [log_mgr EXCEPT ![l] = log_mgr[l]] /\ flash = [flash EXCEPT ![l] = flash[l]]
      /\ SameReaders(LOG_DAT[l], LOG_DAT[l]) /\ SamePar(params[l], params[l]) /\ LOG_DAT[l].Fcount \in 0 .. sectmax[l]
  BY <1>1, FltBusy
<1>3. log_mgr' = [log_mgr EXCEPT ![l] = m2]
  BY <1>1, <1>2
<1>4. MgrIs(m2, log_mgr[l].secttop, log_mgr[l].sectnum + 1, log_mgr[l].record_num)
  <2>1. IsMgr(log_mgr[l])
    BY <1>2 DEF FlashedOK, Store, SectorsOK, IsMgr
  <2> DEFINE m == log_mgr[l]
             k == m.sectnum + 1
  <2> HIDE DEF m, k
  <2>2. MgrIs([m EXCEPT !.sectnum = k], m.secttop, k, m.record_num)
    BY <2>1, NewSectnum DEF m
  <2> QED
    BY <2>2 DEF m, k
<1> HIDE DEF m2
<1>5. FltStep(l, "count", LOG_DAT[l], lapped[l], req[l], params[l], m2, flash[l])
  BY <1>1, <1>2, <1>3, FltTo DEF FltStep
<1>6. /\ Store(l, LOG_DAT[l], Phase(l), accepted[l], req[l], params[l], "count", m2, flash[l])
      /\ Same(First(l, LOG_DAT[l], Phase(l), accepted[l], req[l], params[l], "count", m2),
              First(l, LOG_DAT[l], Phase(l), accepted[l], req[l], params[l], "sectnum", log_mgr[l]))
  <2>1. Store(l, LOG_DAT[l], Phase(l), accepted[l], req[l], params[l], "sectnum", log_mgr[l], flash[l])
    BY <1>2 DEF FlashedOK
  <2> QED
    BY <2>1, <1>2, <1>4, StoreGrown
<1>7. SameUnread(FltPhase(l), "count")
  BY <1>2 DEF SameUnread
<1> QED
  BY <1>2, <1>4, <1>5, <1>6, <1>7, FltOn

LEMMA FltCountGoes ==
    ASSUME LogAssumption, Inv, ContentInv, NEW l, FltOf(l), FltCount
    PROVE  ContentInv'
<1> DEFINE c == [LOG_DAT[l].count EXCEPT ![params[l].sramlog_kind] = 0]
           x == [LOG_DAT[l] EXCEPT !.count = c]
<1>1. /\ cpu \in {FLT, None} /\ cpu' = FLT /\ flt.pc = "count" /\ flt.log = l /\ FltGoto("f0")
      /\ LOG_DAT' = [LOG_DAT EXCEPT ![l].count[params[l].sramlog_kind] = 0]
      /\ UNCHANGED <<log_bakup, log_mgr, req, params, flash, task, accepted, handed, sent, lapped, cuts>>
  BY FltBusy DEF FltCount, FltAt, FltOf, FltYields, Mgr, Par, FltMark, ram, history, reading
<1>2. /\ l \in Flashed /\ Holds(req[l]) /\ FltPhase(l) = "count" /\ flt.by = FLT
      /\ RestsAt(l, Phase(l)) /\ IsLog(LOG_DAT[l]) /\ IsRequest(params[l]) /\ Bit(params[l].sramlog_kind)
      /\ FlashedOK(l, LOG_DAT[l], Phase(l), accepted[l], req[l], params[l], "count", log_mgr[l],
                   flash[l], handed[l], sent[l], lapped[l])
      /\ LOG_DAT = [LOG_DAT EXCEPT ![l] = LOG_DAT[l]] /\ lapped = [lapped EXCEPT ![l] = lapped[l]]
      /\ req = [req EXCEPT ![l] = req[l]] /\ params = [params EXCEPT ![l] = params[l]]
      /\ log_mgr = [log_mgr EXCEPT ![l] = log_mgr[l]] /\ flash = [flash EXCEPT ![l] = flash[l]]
      /\ SameReaders(LOG_DAT[l], LOG_DAT[l]) /\ SamePar(params[l], params[l]) /\ LOG_DAT[l].Fcount \in 0 .. sectmax[l]
  BY <1>1, FltBusy
<1>3. LOG_DAT' = [LOG_DAT EXCEPT ![l] = x]
  BY <1>1, <1>2
<1>4. Emptied(LOG_DAT[l], params[l].sramlog_kind, x) /\ x.Fcount \in 0 .. sectmax[l] /\ SameReaders(LOG_DAT[l], x)
  <2> DEFINE r == LOG_DAT[l]
  <2>1. IsLog(r)
    BY <1>2
  <2> HIDE DEF c, r
  <2>2. /\ IsLog(x) /\ x.kind = r.kind /\ x.count = c /\ x.wtp = r.wtp /\ x.dat = r.dat
        /\ x.Fcount = r.Fcount /\ SameReaders(r, x)
    BY <2>1, NewCount DEF r
  <2> HIDE DEF x
  <2> QED
    BY <2>2, <1>2 DEF Emptied, Bit, r, c
<1> HIDE DEF x, c
<1>5. FltStep(l, "f0", x, lapped[l], req[l], params[l], log_mgr[l], flash[l])
  BY <1>1, <1>2, <1>3, FltTo DEF FltStep
<1>6. /\ Store(l, x, Phase(l), accepted[l], req[l], params[l], "f0", log_mgr[l], flash[l])
      /\ Same(First(l, x, Phase(l), accepted[l], req[l], params[l], "f0", log_mgr[l]),
              First(l, LOG_DAT[l], Phase(l), accepted[l], req[l], params[l], "count", log_mgr[l]))
  <2>1. Store(l, LOG_DAT[l], Phase(l), accepted[l], req[l], params[l], "count", log_mgr[l], flash[l])
    BY <1>2 DEF FlashedOK
  <2> QED
    BY <2>1, <1>2, <1>4, StoreCounted
<1>7. SameUnread(FltPhase(l), "f0")
  BY <1>2 DEF SameUnread
<1> QED
  BY <1>2, <1>4, <1>5, <1>6, <1>7, FltOn

LEMMA FltUnlockGoes ==
    ASSUME LogAssumption, Inv, ContentInv, NEW l, FltOf(l), FltUnlock
    PROVE  ContentInv'
<1> DEFINE z == FALSE
<1>1. /\ cpu \in {FLT, None} /\ cpu' = None /\ flt.pc = "unlock" /\ flt.log = l /\ FltGoto("idle")
      /\ req' = [req EXCEPT ![l] = FALSE]
      /\ UNCHANGED <<LOG_DAT, log_bakup, log_mgr, params, flash, task, accepted, handed, sent, lapped, cuts>>
  BY FltBusy, LogAssumption DEF FltUnlock, FltAt, FltGoto, FltOf, FltYields, Mgr, Par, FltMark, ram, history, reading
<1>2. /\ l \in Flashed /\ Holds(req[l]) /\ FltPhase(l) = "unlock" /\ flt.by = FLT
      /\ RestsAt(l, Phase(l)) /\ IsLog(LOG_DAT[l]) /\ IsRequest(params[l]) /\ Bit(params[l].sramlog_kind)
      /\ FlashedOK(l, LOG_DAT[l], Phase(l), accepted[l], req[l], params[l], "unlock", log_mgr[l],
                   flash[l], handed[l], sent[l], lapped[l])
      /\ LOG_DAT = [LOG_DAT EXCEPT ![l] = LOG_DAT[l]] /\ lapped = [lapped EXCEPT ![l] = lapped[l]]
      /\ req = [req EXCEPT ![l] = req[l]] /\ params = [params EXCEPT ![l] = params[l]]
      /\ log_mgr = [log_mgr EXCEPT ![l] = log_mgr[l]] /\ flash = [flash EXCEPT ![l] = flash[l]]
      /\ SameReaders(LOG_DAT[l], LOG_DAT[l]) /\ SamePar(params[l], params[l]) /\ LOG_DAT[l].Fcount \in 0 .. sectmax[l]
  BY <1>1, FltBusy
<1>3. req' = [req EXCEPT ![l] = z]
  BY <1>1, <1>2
<1>4. z = FALSE
  OBVIOUS
<1> HIDE DEF z
<1>5. FltStep(l, "idle", LOG_DAT[l], lapped[l], z, params[l], log_mgr[l], flash[l])
  BY <1>1, <1>2, <1>3, FltTo DEF FltStep
<1>6. /\ Store(l, LOG_DAT[l], Phase(l), accepted[l], z, params[l], "idle", log_mgr[l], flash[l])
      /\ Same(First(l, LOG_DAT[l], Phase(l), accepted[l], z, params[l], "idle", log_mgr[l]),
              First(l, LOG_DAT[l], Phase(l), accepted[l], req[l], params[l], "unlock", log_mgr[l]))
  <2>1. Store(l, LOG_DAT[l], Phase(l), accepted[l], req[l], params[l], "unlock", log_mgr[l], flash[l])
    BY <1>2 DEF FlashedOK
  <2> QED
    BY <2>1, <1>2, <1>4, StoreUnlocked
<1>7. SameUnread(FltPhase(l), "idle")
  BY <1>2 DEF SameUnread
<1> QED
  BY <1>2, <1>4, <1>5, <1>6, <1>7, FltOn

LEMMA FltFcountGoes ==
    ASSUME LogAssumption, Inv, ContentInv, NEW l, FltOf(l), FltFcount
    PROVE  ContentInv'
<1> DEFINE j == IF LOG_DAT[l].Fcount < sectmax[l] THEN "f3" ELSE "info"
           c == IF LOG_DAT[l].Fcount < sectmax[l] THEN LOG_DAT[l].Fcount + 1 ELSE LOG_DAT[l].Fcount
           x == [LOG_DAT[l] EXCEPT !.Fcount = c]
<1>1. /\ cpu \in {FLT, None} /\ cpu' = FLT /\ flt.pc = "fcount" /\ flt.log = l /\ FltGoto(j)
      /\ IF LOG_DAT[l].Fcount < sectmax[l]
         THEN LOG_DAT' = [LOG_DAT EXCEPT ![l].Fcount = LOG_DAT[l].Fcount + 1] ELSE LOG_DAT' = LOG_DAT
      /\ UNCHANGED <<log_bakup, log_mgr, req, params, flash, task, accepted, handed, sent, lapped, cuts>>
  BY DEF FltFcount, FltAt, FltOf, ram, history, reading
<1>2. /\ l \in Flashed /\ Holds(req[l]) /\ FltPhase(l) = "fcount" /\ flt.by = FLT
      /\ RestsAt(l, Phase(l)) /\ IsLog(LOG_DAT[l]) /\ IsRequest(params[l]) /\ Bit(params[l].sramlog_kind)
      /\ FlashedOK(l, LOG_DAT[l], Phase(l), accepted[l], req[l], params[l], "fcount", log_mgr[l],
                   flash[l], handed[l], sent[l], lapped[l])
      /\ LOG_DAT = [LOG_DAT EXCEPT ![l] = LOG_DAT[l]] /\ lapped = [lapped EXCEPT ![l] = lapped[l]]
      /\ req = [req EXCEPT ![l] = req[l]] /\ params = [params EXCEPT ![l] = params[l]]
      /\ log_mgr = [log_mgr EXCEPT ![l] = log_mgr[l]] /\ flash = [flash EXCEPT ![l] = flash[l]]
      /\ SameReaders(LOG_DAT[l], LOG_DAT[l]) /\ SamePar(params[l], params[l]) /\ LOG_DAT[l].Fcount \in 0 .. sectmax[l]
  BY <1>1, FltBusy
<1>3. LOG_DAT' = [LOG_DAT EXCEPT ![l] = x]
  <2>1. CASE LOG_DAT[l].Fcount < sectmax[l]
    BY <2>1, <1>1
  <2>2. CASE ~ (LOG_DAT[l].Fcount < sectmax[l])
    <3>1. x = LOG_DAT[l]
      <4>1. x = [LOG_DAT[l] EXCEPT !.Fcount = LOG_DAT[l].Fcount]
        BY <2>2
      <4> QED
        BY <4>1, <1>2 DEF IsLog
    <3> QED
      BY <2>2, <3>1, <1>1, <1>2
  <2> QED
    BY <2>1, <2>2
<1>4. j \in {"f3", "info"} /\ c \in 0 .. sectmax[l]
  <2>1. LOG_DAT[l].Fcount \in 0 .. sectmax[l] /\ sectmax[l] \in Nat
    BY <1>2 DEF LogAssumption
  <2> QED
    BY <2>1
<1> HIDE DEF j, c
<1>5. LikeBank(LOG_DAT[l], x) /\ x.Fcount = c /\ SameReaders(LOG_DAT[l], x)
  <2> DEFINE r == LOG_DAT[l]
  <2>1. IsLog(r)
    BY <1>2
  <2> HIDE DEF r
  <2>2. /\ IsLog(x) /\ x.kind = r.kind /\ x.count = r.count /\ x.wtp = r.wtp /\ x.dat = r.dat
        /\ x.Fcount = c /\ SameReaders(r, x)
    BY <2>1, NewFcount DEF r
  <2> HIDE DEF x
  <2> QED
    BY <2>2 DEF LikeBank, r
<1> HIDE DEF x
<1>6. FltStep(l, j, x, lapped[l], req[l], params[l], log_mgr[l], flash[l])
  <2>1. flt'.pc = j /\ flt'.log = l /\ flt'.by = FLT
    BY <1>1, <1>2, FltTo
  <2>2. j # "idle"
    BY <1>4
  <2> QED
    BY <1>1, <1>2, <1>3, <2>1, <2>2 DEF FltStep
<1>7. /\ Store(l, x, Phase(l), accepted[l], req[l], params[l], j, log_mgr[l], flash[l])
      /\ Same(First(l, x, Phase(l), accepted[l], req[l], params[l], j, log_mgr[l]),
              First(l, LOG_DAT[l], Phase(l), accepted[l], req[l], params[l], "fcount", log_mgr[l]))
  <2>1. Store(l, LOG_DAT[l], Phase(l), accepted[l], req[l], params[l], "fcount", log_mgr[l], flash[l])
    BY <1>2 DEF FlashedOK
  <2>2. x.Fcount \in 0 .. sectmax[l]
    BY <1>4, <1>5
  <2> QED
    BY <2>1, <2>2, <1>2, <1>4, <1>5, StoreFcount
<1>8. SameUnread(FltPhase(l), j)
  BY <1>2, <1>4 DEF SameUnread
<1> QED
  BY <1>2, <1>5, <1>6, <1>7, <1>8, FltOn

LEMMA FltInfoGoes ==
    ASSUME LogAssumption, Inv, ContentInv, NEW l, FltOf(l), FltInfo
    PROVE  ContentInv'
<1> DEFINE m == log_mgr[l]
           g == [m.record_num EXCEPT ![params[l].get_sector] = params[l].record_num]
           m2 == [m EXCEPT !.record_num = g]
           j == IF m.sectnum + 1 > sectmax[l] THEN "f40" ELSE "f41"
<1>1. /\ cpu \in {FLT, None} /\ cpu' = FLT /\ flt.pc = "info" /\ flt.log = l /\ FltGoto(j)
      /\ log_mgr' = [log_mgr EXCEPT ![l].record_num[params[l].get_sector] = params[l].record_num]
      /\ UNCHANGED <<LOG_DAT, log_bakup, req, params, flash, task, accepted, handed, sent, lapped, cuts>>
  BY DEF FltInfo, FltAt, FltOf, Par, Mgr, ram, history, reading
<1>2. /\ l \in Flashed /\ Holds(req[l]) /\ FltPhase(l) = "info" /\ flt.by = FLT
      /\ RestsAt(l, Phase(l)) /\ IsLog(LOG_DAT[l]) /\ IsRequest(params[l]) /\ Bit(params[l].sramlog_kind)
      /\ FlashedOK(l, LOG_DAT[l], Phase(l), accepted[l], req[l], params[l], "info", log_mgr[l],
                   flash[l], handed[l], sent[l], lapped[l])
      /\ LOG_DAT = [LOG_DAT EXCEPT ![l] = LOG_DAT[l]] /\ lapped = [lapped EXCEPT ![l] = lapped[l]]
      /\ req = [req EXCEPT ![l] = req[l]] /\ params = [params EXCEPT ![l] = params[l]]
      /\ log_mgr = [log_mgr EXCEPT ![l] = log_mgr[l]] /\ flash = [flash EXCEPT ![l] = flash[l]]
      /\ SameReaders(LOG_DAT[l], LOG_DAT[l]) /\ SamePar(params[l], params[l]) /\ LOG_DAT[l].Fcount \in 0 .. sectmax[l]
  BY <1>1, FltBusy
<1>3. log_mgr' = [log_mgr EXCEPT ![l] = m2]
  BY <1>1, <1>2
<1>4. j \in {"f40", "f41"}
  OBVIOUS
<1>5. IsPut(m.record_num, params[l].get_sector, params[l].record_num, g)
  BY DEF IsPut
<1>6. IsMgr(m)
  BY <1>2 DEF FlashedOK, Store, SectorsOK, IsMgr
<1> HIDE DEF m, g
<1>7. MgrIs(m2, m.secttop, m.sectnum, g)
  BY <1>6, NewRecords
<1> HIDE DEF m2
<1>8. /\ Store(l, LOG_DAT[l], Phase(l), accepted[l], req[l], params[l], j, m2, flash[l])
      /\ Same(First(l, LOG_DAT[l], Phase(l), accepted[l], req[l], params[l], j, m2),
              First(l, LOG_DAT[l], Phase(l), accepted[l], req[l], params[l], "info", m))
  <2>1. Store(l, LOG_DAT[l], Phase(l), accepted[l], req[l], params[l], "info", m, flash[l])
    BY <1>2 DEF FlashedOK, m
  <2> QED
    BY <2>1, <1>2, <1>5, <1>7, StoreInfo
<1> HIDE DEF j
<1>9. FltStep(l, j, LOG_DAT[l], lapped[l], req[l], params[l], m2, flash[l])
  <2>1. flt'.pc = j /\ flt'.log = l /\ flt'.by = FLT
    BY <1>1, <1>2, FltTo
  <2>2. j # "idle"
    BY <1>4
  <2> QED
    BY <1>1, <1>2, <1>3, <2>1, <2>2 DEF FltStep
<1>10. SameUnread(FltPhase(l), j)
  BY <1>2, <1>4 DEF SameUnread
<1> QED
  BY <1>2, <1>8, <1>9, <1>10, FltOn DEF m

LEMMA FltMarkGoes ==
    ASSUME LogAssumption, Inv, ContentInv, NEW l, FltOf(l), NEW j, NEW n, MarkNext(flt.pc, j),
           cpu = FLT, cpu' = FLT, FltMark(n), FltGoto(j),
           UNCHANGED <<LOG_DAT, log_bakup, log_mgr, req, flash, task, accepted, handed, sent, lapped, cuts>>
    PROVE  ContentInv'
<1> DEFINE par2 == MarkedTo(params[l], n)
           i == flt.pc
<1>1. params' = [params EXCEPT ![l] = par2]
  BY DEF FltMark, FltOf, MarkedTo
<1>2. /\ l \in Flashed /\ Holds(req[l]) /\ FltPhase(l) = i /\ flt.by = FLT /\ flt.log = l
      /\ RestsAt(l, Phase(l)) /\ IsRequest(params[l])
      /\ FlashedOK(l, LOG_DAT[l], Phase(l), accepted[l], req[l], params[l], i, log_mgr[l],
                   flash[l], handed[l], sent[l], lapped[l])
      /\ LOG_DAT = [LOG_DAT EXCEPT ![l] = LOG_DAT[l]] /\ lapped = [lapped EXCEPT ![l] = lapped[l]]
      /\ req = [req EXCEPT ![l] = req[l]]
      /\ log_mgr = [log_mgr EXCEPT ![l] = log_mgr[l]] /\ flash = [flash EXCEPT ![l] = flash[l]]
      /\ SameReaders(LOG_DAT[l], LOG_DAT[l])
  BY FltBusy DEF FltOf
<1>3. SamePar(params[l], par2) /\ par2.get_sector = params[l].get_sector
  BY <1>2, MarkedToIs DEF SamePar
<1> HIDE DEF par2
<1>4. j # "idle" /\ SameUnread(FltPhase(l), j)
  BY <1>2 DEF MarkNext, SameUnread
<1>5. FltStep(l, j, LOG_DAT[l], lapped[l], req[l], par2, log_mgr[l], flash[l])
  BY <1>1, <1>2, <1>4, FltTo DEF FltStep
<1>6. /\ Store(l, LOG_DAT[l], Phase(l), accepted[l], req[l], par2, j, log_mgr[l], flash[l])
      /\ Same(First(l, LOG_DAT[l], Phase(l), accepted[l], req[l], par2, j, log_mgr[l]),
              First(l, LOG_DAT[l], Phase(l), accepted[l], req[l], params[l], i, log_mgr[l]))
  <2>1. Store(l, LOG_DAT[l], Phase(l), accepted[l], req[l], params[l], i, log_mgr[l], flash[l])
    BY <1>2 DEF FlashedOK
  <2> QED
    BY <2>1, <1>2, <1>3, StoreMark
<1> QED
  BY <1>2, <1>4, <1>5, <1>6, FltOn

LEMMA FltCheckpointGoes ==
    ASSUME LogAssumption, Inv, ContentInv, NEW l, FltOf(l), FltCheckpoint
    PROVE  ContentInv'
<1>1. PICK m \in {<< "f3", 3, "info" >>, << "f40", 40, "secttop" >>, << "f41", 41, "sectnum" >>,
                  << "f0", 0, "unlock" >>} : FltAt(m[1]) /\ FltMark(m[2]) /\ FltGoto(m[3])
  BY Zenon DEF FltCheckpoint
<1>2. m[1] \in {"f3", "f40", "f41", "f0"} /\ MarkNext(m[1], m[3])
  BY DEF MarkNext
<1>3. MarkNext(flt.pc, m[3]) /\ cpu = FLT
  BY <1>1, <1>2 DEF FltAt
<1>4. /\ cpu' = FLT
      /\ UNCHANGED <<LOG_DAT, log_bakup, log_mgr, req, flash, task, accepted, handed, sent, lapped, cuts>>
  BY <1>3 DEF FltCheckpoint, ram, history, reading
<1> DEFINE j == m[3]
           n == m[2]
<1>5. MarkNext(flt.pc, j) /\ FltMark(n) /\ FltGoto(j)
  BY <1>1, <1>3
<1> HIDE DEF j, n
<1> QED
  BY <1>3, <1>4, <1>5, FltMarkGoes

LEMMA FltSecttopGoes ==
    ASSUME LogAssumption, Inv, ContentInv, NEW l, FltOf(l), FltSecttop
    PROVE  ContentInv'
<1> DEFINE m == log_mgr[l]
           t == Next1(l, m.secttop)
           m2 == [m EXCEPT !.secttop = t]
<1>1. /\ cpu \in {FLT, None} /\ cpu' = FLT /\ flt.pc = "secttop" /\ flt.log = l /\ FltGoto("unread")
      /\ log_mgr' = [log_mgr EXCEPT ![l].secttop = t]
      /\ UNCHANGED <<LOG_DAT, log_bakup, req, params, flash, task, accepted, handed, sent, lapped, cuts>>
  BY DEF FltSecttop, FltAt, FltOf, ram, history, reading, Next1
<1>2. /\ l \in Flashed /\ Holds(req[l]) /\ FltPhase(l) = "secttop" /\ flt.by = FLT
      /\ RestsAt(l, Phase(l)) /\ IsLog(LOG_DAT[l]) /\ IsRequest(params[l]) /\ Bit(params[l].sramlog_kind)
      /\ FlashedOK(l, LOG_DAT[l], Phase(l), accepted[l], req[l], params[l], "secttop", log_mgr[l],
                   flash[l], handed[l], sent[l], lapped[l])
      /\ LOG_DAT = [LOG_DAT EXCEPT ![l] = LOG_DAT[l]] /\ lapped = [lapped EXCEPT ![l] = lapped[l]]
      /\ req = [req EXCEPT ![l] = req[l]] /\ params = [params EXCEPT ![l] = params[l]]
      /\ log_mgr = [log_mgr EXCEPT ![l] = log_mgr[l]] /\ flash = [flash EXCEPT ![l] = flash[l]]
      /\ SameReaders(LOG_DAT[l], LOG_DAT[l]) /\ SamePar(params[l], params[l]) /\ LOG_DAT[l].Fcount \in 0 .. sectmax[l]
  BY <1>1, FltBusy
<1>3. log_mgr' = [log_mgr EXCEPT ![l] = m2]
  BY <1>1, <1>2
<1>4. IsMgr(m)
  BY <1>2 DEF FlashedOK, Store, SectorsOK, IsMgr
<1> HIDE DEF m, t
<1>5. MgrIs(m2, t, m.sectnum, m.record_num)
  BY <1>4, NewSecttop
<1> HIDE DEF m2
<1>6. FltStep(l, "unread", LOG_DAT[l], lapped[l], req[l], params[l], m2, flash[l])
  BY <1>1, <1>2, <1>3, FltTo DEF FltStep
<1>7. FlashedOK(l, LOG_DAT[l], Phase(l), accepted[l], req[l], params[l], "unread", m2,
                flash[l], handed[l], sent[l], lapped[l])
  <2>1. FlashedOK(l, LOG_DAT[l], Phase(l), accepted[l], req[l], params[l], "secttop", m,
                  flash[l], handed[l], sent[l], lapped[l])
    BY <1>2 DEF m
  <2>2. MgrIs(m2, Next1(l, m.secttop), m.sectnum, m.record_num)
    BY <1>5 DEF t
  <2> QED
    BY <2>1, <2>2, <1>2, FlashedTurned
<1> QED
  BY <1>6, <1>7, FltGoes

LEMMA FltUnreadGoes ==
    ASSUME LogAssumption, Inv, ContentInv, NEW l, FltOf(l), FltUnread
    PROVE  ContentInv'
<1> DEFINE r == LOG_DAT[l]
           s == LOG_SECORNUM[l]
           c == [t \in Targets |-> IF r.unread[t] > s THEN r.unread[t] - s ELSE 0]
           x == [r EXCEPT !.unread = c]
           y == [t \in Targets |-> lapped[l][t] \/ r.unread[t] < s]
<1>1. /\ cpu \in {FLT, None} /\ cpu' = FLT /\ flt.pc = "unread" /\ flt.log = l /\ FltGoto("count")
      /\ UNCHANGED <<log_bakup, log_mgr, req, params, flash, task, accepted, handed, sent, cuts>>
  BY DEF FltUnread, FltAt, FltOf, ram, history, reading
<1>2. /\ l \in Flashed /\ Holds(req[l]) /\ FltPhase(l) = "unread" /\ flt.by = FLT
      /\ RestsAt(l, Phase(l)) /\ IsLog(LOG_DAT[l]) /\ IsRequest(params[l]) /\ Bit(params[l].sramlog_kind)
      /\ FlashedOK(l, LOG_DAT[l], Phase(l), accepted[l], req[l], params[l], "unread", log_mgr[l],
                   flash[l], handed[l], sent[l], lapped[l])
      /\ LOG_DAT = [LOG_DAT EXCEPT ![l] = LOG_DAT[l]] /\ lapped = [lapped EXCEPT ![l] = lapped[l]]
      /\ req = [req EXCEPT ![l] = req[l]] /\ params = [params EXCEPT ![l] = params[l]]
      /\ log_mgr = [log_mgr EXCEPT ![l] = log_mgr[l]] /\ flash = [flash EXCEPT ![l] = flash[l]]
      /\ SameReaders(LOG_DAT[l], LOG_DAT[l]) /\ SamePar(params[l], params[l]) /\ LOG_DAT[l].Fcount \in 0 .. sectmax[l]
  BY <1>1, FltBusy
<1>3. LOG_DAT' = [LOG_DAT EXCEPT ![l].unread = c]
  <2>1. Lowered(l, [t \in Targets |-> s]) = c
    BY DEF Lowered
  <2>2. LOG_DAT' = [LOG_DAT EXCEPT ![l].unread = Lowered(l, [t \in Targets |-> s])]
    BY <1>1 DEF FltUnread
  <2> QED
    BY <2>1, <2>2
<1>4. lapped' = [lapped EXCEPT ![l] = y]
  BY <1>1, <1>2 DEF FltUnread
<1>5. LOG_DAT' = [LOG_DAT EXCEPT ![l] = x]
  BY <1>2, <1>3
<1>6. LoweredTo(l, r, x, lapped[l], y)
  <2>1. IsLog(r)
    BY <1>2
  <2> HIDE DEF r, c
  <2>2. /\ LikeBank(r, x) /\ x.Fcount = r.Fcount
        /\ x.unread = c /\ x.f_unread = r.f_unread /\ x.void_read = r.void_read
    BY <2>1, NewUnread
  <2> HIDE DEF x
  <2> QED
    BY <2>2 DEF LoweredTo, c
<1> HIDE DEF x, y, c
<1>7. FltStep(l, "count", x, y, req[l], params[l], log_mgr[l], flash[l])
  BY <1>1, <1>2, <1>4, <1>5, FltTo DEF FltStep
<1> HIDE DEF r
<1>8. FlashedOK(l, x, Phase(l), accepted[l], req[l], params[l], "count", log_mgr[l],
                flash[l], handed[l], sent[l], y)
  <2>1. FlashedOK(l, r, Phase(l), accepted[l], req[l], params[l], "unread", log_mgr[l],
                  flash[l], handed[l], sent[l], lapped[l])
    BY <1>2 DEF r
  <2> QED
    BY <2>1, <1>2, <1>6, FlashedLowered
<1> QED
  BY <1>7, <1>8, FltGoes

\* The request the flash task takes.
LEMMA FirstPending == ASSUME LogAssumption, Pending # {} PROVE FirstOf(Pending) \in Pending
<1>1. Pending \in SUBSET Nat
  BY DEF LogAssumption, Pending
<1>2. \E m \in Pending : \A k \in Pending : m <= k
  BY <1>1, LeastNumber
<1> QED
  BY <1>2 DEF FirstOf

LEMMA FltStartGoes == ASSUME LogAssumption, Inv, ContentInv, FltStart PROVE ContentInv'
<1>1. /\ flt.pc = "idle" /\ cpu = None /\ Pending # {} /\ Started(FirstOf(Pending))
      /\ flt' = [pc |-> "sector", log |-> FirstOf(Pending), by |-> FLT]
  <2>1. ~ FltAt("start")
    <3>1. ASSUME FltAt("start") PROVE FALSE
      <4>1. FltOf(flt.log) /\ cpu \in {FLT, None} /\ flt.pc = "start"
        BY <3>1 DEF FltAt, FltOf
      <4>2. PICK l : l = flt.log
        OBVIOUS
      <4>3. FlashedOK(l, LOG_DAT[l], Phase(l), accepted[l], req[l], params[l], flt.pc, log_mgr[l],
                      flash[l], handed[l], sent[l], lapped[l])
        BY <4>1, <4>2, FltBusy
      <4>4. JobOK(l, log_mgr[l], flash[l], params[l], flt.pc, AskedFrom(l, LOG_DAT[l], Phase(l), accepted[l], params[l].sramlog_kind))
        BY <4>3 DEF FlashedOK, Store
      <4> QED
        BY <4>1, <4>4 DEF JobOK, Replaced, Copied, Absorbed
    <3> QED
      BY <3>1
  <2> QED
    BY <2>1 DEF FltStart
<1>2. PICK l : l = FirstOf(Pending)
  OBVIOUS
<1>3. l \in Flashed /\ Holds(req[l])
  BY <1>1, <1>2, FirstPending DEF Pending, Holds
<1>4. FltFinds(l)
  BY <1>1, <1>3, FltFound
<1> DEFINE a == FcountTo(params[l], LOG_DAT[l].Fcount)
           b == SectnumTo(a, log_mgr[l].sectnum)
           par2 == MarkedTo(b, 1)
<1>5. params' = [params EXCEPT ![l] = par2]
  BY <1>1, <1>2 DEF Started, FcountTo, SectnumTo, MarkedTo
<1>6. SamePar(params[l], par2)
  <2>1. IsRequest(params[l])
    BY <1>4 DEF FltFinds
  <2>2. IsRequest(a) /\ SamePar(params[l], a)
    BY <2>1, FcountToIs DEF SamePar
  <2> HIDE DEF a
  <2>3. IsRequest(b) /\ SamePar(a, b)
    BY <2>2, SectnumToIs DEF SamePar
  <2> HIDE DEF b
  <2>4. SamePar(b, par2)
    BY <2>3, MarkedToIs DEF SamePar
  <2> QED
    BY <2>2, <2>3, <2>4 DEF SamePar
<1> HIDE DEF par2, a, b
<1>7. /\ cpu' = FLT
      /\ UNCHANGED <<LOG_DAT, log_bakup, log_mgr, req, flash, task, accepted, handed, sent, lapped, cuts>>
  BY DEF FltStart, ram, history, reading
<1>8. /\ LOG_DAT = [LOG_DAT EXCEPT ![l] = LOG_DAT[l]] /\ lapped = [lapped EXCEPT ![l] = lapped[l]]
      /\ req = [req EXCEPT ![l] = req[l]]
      /\ log_mgr = [log_mgr EXCEPT ![l] = log_mgr[l]] /\ flash = [flash EXCEPT ![l] = flash[l]]
  BY <1>4 DEF FltFinds
<1>9. FltStep(l, "sector", LOG_DAT[l], lapped[l], req[l], par2, log_mgr[l], flash[l])
  <2>1. flt'.pc = "sector" /\ flt'.log = l /\ flt'.by = FLT
    BY <1>1, <1>2
  <2> QED
    BY <2>1, <1>1, <1>3, <1>5, <1>7, <1>8 DEF FltStep
<1>10. FltPhase(l) = "idle"
  BY <1>1 DEF FltPhase
<1>11. /\ Store(l, LOG_DAT[l], Phase(l), accepted[l], req[l], params[l], "idle", log_mgr[l], flash[l])
       /\ RestsAt(l, Phase(l))
  BY <1>4, <1>10 DEF FltFinds, FlashedOK
<1>12. /\ Store(l, LOG_DAT[l], Phase(l), accepted[l], req[l], par2, "sector", log_mgr[l], flash[l])
       /\ Same(First(l, LOG_DAT[l], Phase(l), accepted[l], req[l], par2, "sector", log_mgr[l]),
               First(l, LOG_DAT[l], Phase(l), accepted[l], req[l], params[l], "idle", log_mgr[l]))
  BY <1>3, <1>6, <1>11, StoreStart
<1>13. SameUnread(FltPhase(l), "sector") /\ SameReaders(LOG_DAT[l], LOG_DAT[l])
  BY <1>10 DEF SameUnread, SameReaders
<1> QED
  BY <1>9, <1>10, <1>12, <1>13, FltOn

LEMMA FlashWorks == ASSUME LogAssumption, Inv, ContentInv, FlashStep PROVE ContentInv'
<1>1. PICK l : l = flt.log
  OBVIOUS
<1>2. CASE FltStart
  BY <1>2, FltStartGoes
<1>3. CASE flt.pc # "idle"
  <2>1. FltOf(l)
    BY <1>1, <1>3 DEF FltOf
  <2>2. CASE FltSector \/ FltErase \/ FltWrite
    BY <2>1, <2>2, FltSectorGoes, FltEraseGoes, FltWriteGoes
  <2>3. CASE FltVerified \/ FltFcount \/ FltInfo
    BY <2>1, <2>3, FltVerifiedGoes, FltFcountGoes, FltInfoGoes
  <2>4. CASE FltCheckpoint \/ FltSecttop \/ FltUnread
    BY <2>1, <2>4, FltCheckpointGoes, FltSecttopGoes, FltUnreadGoes
  <2>5. CASE FltSectnum \/ FltCount \/ FltUnlock
    BY <2>1, <2>5, FltSectnumGoes, FltCountGoes, FltUnlockGoes
  <2> QED
    BY <1>2, <2>2, <2>3, <2>4, <2>5 DEF FlashStep
<1>4. CASE flt.pc = "idle" /\ ~ FltStart
  <2>1. FALSE
    <3>1. ~ FltCheckpoint
      <4>1. \A m \in {<< "f3", 3, "info" >>, << "f40", 40, "secttop" >>, << "f41", 41, "sectnum" >>,
                       << "f0", 0, "unlock" >>} : m[1] # "idle"
        OBVIOUS
      <4> QED
        BY <4>1, <1>4 DEF FltCheckpoint, FltAt
    <3> QED
      BY <1>4, <3>1 DEF FlashStep, FltAt, FltSector, FltErase, FltWrite, FltVerified, FltFcount, FltInfo, FltSecttop,
                        FltUnread, FltSectnum, FltCount, FltUnlock
  <2> QED
    BY <2>1
<1> QED
  BY <1>2, <1>3, <1>4

-----------------------------------------------------------------------------
(* The readers. *)

LEMMA PutIs ==
    ASSUME NEW f, ByTarget(f), NEW t \in Targets, NEW x
    PROVE  [f EXCEPT ![t] = x] = Put(f, t, x) /\ Put(f, t, f[t]) = f
<1>1. [f EXCEPT ![t] = x] = Put(f, t, x)
  BY DEF ByTarget, Put
<1>2. Put(f, t, f[t]) = f
  BY DEF ByTarget, Put
<1> QED
  BY <1>1, <1>2

LEMMA PutShape == ASSUME NEW f, NEW t, NEW x PROVE ByTarget(Put(f, t, x))
BY DEF ByTarget, Put

\* The record of a log after target t has read.
WithUnread(r, c)  == [r EXCEPT !.unread = c]
WithFUnread(r, c) == [r EXCEPT !.f_unread = c]
WithVoid(r, c)    == [r EXCEPT !.void_read = c]
ReadPut(r, t, u, g, v) ==
    WithVoid(WithFUnread(WithUnread(r, Put(r.unread, t, u)), Put(r.f_unread, t, g)), Put(r.void_read, t, v))

LEMMA ReadPutIs ==
    ASSUME NEW r, IsLog(r), NEW t, NEW u, NEW g, NEW v
    PROVE  ReadTo(r, t, u, g, v, ReadPut(r, t, u, g, v))
<1> DEFINE c1 == Put(r.unread, t, u)
           c2 == Put(r.f_unread, t, g)
           c3 == Put(r.void_read, t, v)
           a == WithUnread(r, c1)
           b == WithFUnread(a, c2)
           x == WithVoid(b, c3)
<1> HIDE DEF c1, c2, c3
<1>1. /\ LikeBank(r, a) /\ a.Fcount = r.Fcount
      /\ a.unread = c1 /\ a.f_unread = r.f_unread /\ a.void_read = r.void_read
  BY NewUnread DEF WithUnread
<1> HIDE DEF a
<1>2. IsLog(a)
  BY <1>1 DEF LikeBank
<1>3. /\ LikeBank(a, b) /\ b.Fcount = a.Fcount
      /\ b.unread = a.unread /\ b.f_unread = c2 /\ b.void_read = a.void_read
  BY <1>2, NewFUnread DEF WithFUnread
<1> HIDE DEF b
<1>4. IsLog(b)
  BY <1>3 DEF LikeBank
<1>5. /\ LikeBank(b, x) /\ x.Fcount = b.Fcount
      /\ x.unread = b.unread /\ x.f_unread = b.f_unread /\ x.void_read = c3
  BY <1>4, NewVoid DEF WithVoid
<1> HIDE DEF x
<1>6. ReadTo(r, t, u, g, v, x)
  BY <1>1, <1>3, <1>5 DEF ReadTo, LikeBank, c1, c2, c3
<1> QED
  BY <1>6 DEF ReadPut, x, b, a, c1, c2, c3

LEMMA ReadPutVoid ==
    ASSUME NEW r, IsLog(r), ByTarget(r.unread), ByTarget(r.f_unread), ByTarget(r.void_read), NEW t \in Targets, NEW v
    PROVE  ReadPut(r, t, r.unread[t], r.f_unread[t], v) = WithVoid(r, [r.void_read EXCEPT ![t] = v])
<1>1. Put(r.unread, t, r.unread[t]) = r.unread /\ Put(r.f_unread, t, r.f_unread[t]) = r.f_unread
  BY PutIs
<1>2. Put(r.void_read, t, v) = [r.void_read EXCEPT ![t] = v]
  BY PutIs
<1>3. WithUnread(r, r.unread) = r
  BY DEF IsLog, WithUnread
<1>4. WithFUnread(r, r.f_unread) = r
  BY DEF IsLog, WithFUnread
<1> QED
  BY <1>1, <1>2, <1>3, <1>4 DEF ReadPut

LEMMA ReadPutAll ==
    ASSUME NEW r, IsLog(r), ByTarget(r.unread), ByTarget(r.f_unread), ByTarget(r.void_read), NEW t \in Targets,
           NEW u, NEW g, NEW v
    PROVE  ReadPut(r, t, u, g, v) =
              WithVoid(WithFUnread(WithUnread(r, [r.unread EXCEPT ![t] = u]), [r.f_unread EXCEPT ![t] = g]),
                       [r.void_read EXCEPT ![t] = v])
<1>1. Put(r.unread, t, u) = [r.unread EXCEPT ![t] = u] /\ Put(r.f_unread, t, g) = [r.f_unread EXCEPT ![t] = g]
  BY PutIs
<1>2. Put(r.void_read, t, v) = [r.void_read EXCEPT ![t] = v]
  BY PutIs
<1> QED
  BY <1>1, <1>2 DEF ReadPut

ReadStep(l, t, x, h, d, b) ==
    /\ cpu = None /\ LOG_DAT' = [LOG_DAT EXCEPT ![l] = x]
    /\ handed' = [handed EXCEPT ![l] = Put(handed[l], t, h)]
    /\ sent' = [sent EXCEPT ![l] = Put(sent[l], t, d)]
    /\ lapped' = [lapped EXCEPT ![l] = Put(lapped[l], t, b)]
    /\ UNCHANGED <<log_bakup, log_mgr, req, params, flash, flt, task, cpu, accepted, cuts>>

LEMMA ReadTurn ==
    ASSUME LogAssumption, Inv, ContentInv, NEW l, NEW t, NEW x, NEW h, NEW d, NEW b, ReadStep(l, t, x, h, d, b)
    PROVE  TurnOK'
<1>1. UNCHANGED <<log_bakup, flt, task, cpu, accepted, cuts, req>>
  BY DEF ReadStep
<1>2. TurnOK
  BY DEF ContentInv
<1> QED
  BY <1>1, <1>2 DEF TurnOK, Lno, Kind

LEMMA ReadGoes ==
    ASSUME LogAssumption, Inv, ContentInv, NEW l \in Logs, NEW t, NEW x, NEW h, NEW d, NEW b, ReadStep(l, t, x, h, d, b),
           l \in Flashed => FlashedOK(l, x, Phase(l), accepted[l], req[l], params[l], FltPhase(l), log_mgr[l], flash[l],
                                      Put(handed[l], t, h), Put(sent[l], t, d), Put(lapped[l], t, b)),
           l \in Ring => RamOK(l, x, Phase(l), accepted[l], Put(handed[l], t, h), Put(sent[l], t, d), Put(lapped[l], t, b))
    PROVE  ContentInv'
<1> DEFINE hh == Put(handed[l], t, h)
           dd == Put(sent[l], t, d)
           bb == Put(lapped[l], t, b)
<1>1. /\ LOG_DAT' = [LOG_DAT EXCEPT ![l] = x]
      /\ handed' = [handed EXCEPT ![l] = hh] /\ sent' = [sent EXCEPT ![l] = dd] /\ lapped' = [lapped EXCEPT ![l] = bb]
      /\ UNCHANGED <<log_mgr, req, params, flash, flt, task, accepted>>
  BY DEF ReadStep
<1>2. /\ l \in Flashed => FlashedOK(l, x, Phase(l), accepted[l], req[l], params[l], FltPhase(l), log_mgr[l], flash[l],
                                    hh, dd, bb)
      /\ l \notin Flashed => RamOK(l, x, Phase(l), accepted[l], hh, dd, bb)
  BY DEF Ring
<1> HIDE DEF hh, dd, bb
<1>3. HistoryShape
  BY DEF ContentInv
<1>4. LOG_DAT'[l] = x /\ \A m \in Logs \ {l} : LOG_DAT'[m] = LOG_DAT[m]
  BY <1>1, ByLog DEF Inv, Shape, RamShape
<1>5. handed' = [m \in Logs |-> handed'[m]] /\ handed'[l] = hh /\ \A m \in Logs \ {l} : handed'[m] = handed[m]
  BY <1>1, <1>3, ByLog DEF HistoryShape
<1>6. sent' = [m \in Logs |-> sent'[m]] /\ sent'[l] = dd /\ \A m \in Logs \ {l} : sent'[m] = sent[m]
  BY <1>1, <1>3, ByLog DEF HistoryShape
<1>7. lapped' = [m \in Logs |-> lapped'[m]] /\ lapped'[l] = bb /\ \A m \in Logs \ {l} : lapped'[m] = lapped[m]
  BY <1>1, <1>3, ByLog DEF HistoryShape
<1>8. \A m \in Logs : Phase(m)' = Phase(m) /\ FltPhase(m)' = FltPhase(m)
  BY <1>1 DEF Phase, FltPhase
<1>9. LogOK(l)'
  <2>1. l \in Flashed => FlashedOK(l, LOG_DAT'[l], Phase(l)', accepted'[l], req'[l], params'[l], FltPhase(l)', log_mgr'[l],
                                   flash'[l], handed'[l], sent'[l], lapped'[l])
    BY <1>1, <1>2, <1>4, <1>5, <1>6, <1>7, <1>8
  <2>2. l \notin Flashed => RamOK(l, LOG_DAT'[l], Phase(l)', accepted'[l], handed'[l], sent'[l], lapped'[l])
    BY <1>1, <1>2, <1>4, <1>5, <1>6, <1>7, <1>8
  <2> QED
    BY <2>1, <2>2 DEF LogOK
<1>10. \A m \in Logs \ {l} : SameView(m)
  BY <1>1, <1>4, <1>5, <1>6, <1>7, <1>8 DEF SameView
<1>11. HistoryShape'
  BY <1>1, <1>3, <1>5, <1>6, <1>7 DEF HistoryShape
<1>12. TurnOK'
  BY ReadTurn
<1> QED
  BY <1>9, <1>10, <1>11, <1>12, OthersKeep

\* What a reader finds.
FirstAt(l) == First(l, LOG_DAT[l], Phase(l), accepted[l], req[l], params[l], FltPhase(l), log_mgr[l])

LEMMA ReaderRests ==
    ASSUME LogAssumption, Inv, ContentInv, NEW l \in Logs, cpu = None
    PROVE  /\ Phase(l) \in Resting /\ (l \in Flashed => RestsAt(l, Phase(l))) /\ (l \notin Flashed => Phase(l) = "idle")
           /\ FltPhase(l) # "unread" /\ InHand(l) = 0
           /\ \A w \in Tasks : task[w].pc \in Resting
<1>1. TurnOK /\ LogOK(l) /\ None \notin Tasks /\ None # FLT /\ TaskOf[l] \in Tasks
  BY DEF ContentInv, LogAssumption
<1>2. \A w \in Tasks : \/ task[w].pc = "idle" \/ task[w].pc = "wait31"
                       \/ task[w].pc = "wait30" /\ Lno(w) \notin OneBank
  BY <1>1 DEF TurnOK
<1>3. \A w \in Tasks : task[w].pc \in Resting
  BY <1>2 DEF Resting
<1>4. Phase(l) \in Resting /\ (l \in Flashed => RestsAt(l, Phase(l)))
  BY <1>1, <1>2 DEF Phase, RestsAt, Resting, Lno
<1>5. l \notin Flashed => Phase(l) = "idle"
  <2>1. l \notin Flashed => RingPhaseOK(LOG_SECORNUM[l], Phase(l), LOG_DAT[l].count[0], LOG_DAT[l].wtp, accepted[l])
    BY <1>1 DEF LogOK, RamOK, RingOK
  <2>2. l \notin Flashed => Phase(l) \notin {"wait30", "wait31"}
    BY <2>1 DEF RingPhaseOK, RingMid
  <2> QED
    BY <2>2, <1>4 DEF Resting
<1>6. FltPhase(l) # "unread"
  BY <1>1 DEF TurnOK, FltPhase
<1>7. InHand(l) = 0
  <2>1. \A w \in Tasks : task[w].pc # "wait10"
    BY <1>3 DEF Resting
  <2> QED
    BY <2>1 DEF InHand
<1> QED
  BY <1>3, <1>4, <1>5, <1>6, <1>7

LEMMA ReaderFinds ==
    ASSUME LogAssumption, Inv, ContentInv, NEW l \in Logs, NEW t \in Targets, cpu = None
    PROVE  /\ IsLog(LOG_DAT[l]) /\ ReadersShape(LOG_DAT[l], handed[l], sent[l], lapped[l])
           /\ HandedOK(handed[l][t], LOG_DAT[l].void_read[t], lapped[l][t], sent[l][t])
           /\ accepted[l] \in Nat
           /\ l \in Flashed => /\ FirstAt(l) \in Int
                               /\ SentOK(LOG_SECORNUM[l], LOG_DAT[l].unread[t], LOG_DAT[l].void_read[t], accepted[l],
                                         lapped[l][t], sent[l][t], FirstAt(l), FltPhase(l))
           /\ l \in Ring => /\ RingRests(LOG_SECORNUM[l], LOG_DAT[l].dat[0], accepted[l], LOG_DAT[l].wtp)
                            /\ LOG_DAT[l].kind = 0 /\ LOG_DAT[l].count[0] = Least(accepted[l], LOG_SECORNUM[l])
                            /\ RingSentOK(LOG_SECORNUM[l], LOG_DAT[l].unread[t], LOG_DAT[l].f_unread[t],
                                          LOG_DAT[l].void_read[t], accepted[l], lapped[l][t], sent[l][t],
                                          accepted[l], LOG_DAT[l].wtp)
           /\ LOG_DAT = [LOG_DAT EXCEPT ![l] = LOG_DAT[l]]
           /\ handed = [handed EXCEPT ![l] = handed[l]] /\ sent = [sent EXCEPT ![l] = sent[l]]
           /\ lapped = [lapped EXCEPT ![l] = lapped[l]]
<1>1. LogOK(l) /\ HistoryShape
  BY DEF ContentInv
<1>2. l \notin Flashed => Phase(l) = "idle"
  BY ReaderRests
<1>3. IsLog(LOG_DAT[l]) /\ LOG_DAT = [LOG_DAT EXCEPT ![l] = LOG_DAT[l]]
  BY DEF Inv, Shape, RamShape
<1>4. /\ handed = [handed EXCEPT ![l] = handed[l]] /\ sent = [sent EXCEPT ![l] = sent[l]]
      /\ lapped = [lapped EXCEPT ![l] = lapped[l]]
  BY <1>1 DEF HistoryShape
<1>5. MaxRecords[l] \in Nat /\ LOG_SECORNUM[l] \in Nat \ {0}
  BY DEF LogAssumption
<1>6. ASSUME l \in Flashed
      PROVE  /\ ReadersShape(LOG_DAT[l], handed[l], sent[l], lapped[l])
             /\ HandedOK(handed[l][t], LOG_DAT[l].void_read[t], lapped[l][t], sent[l][t])
             /\ accepted[l] \in Nat /\ FirstAt(l) \in Int
             /\ SentOK(LOG_SECORNUM[l], LOG_DAT[l].unread[t], LOG_DAT[l].void_read[t], accepted[l],
                       lapped[l][t], sent[l][t], FirstAt(l), FltPhase(l))
  <2>1. FlashedOK(l, LOG_DAT[l], Phase(l), accepted[l], req[l], params[l], FltPhase(l), log_mgr[l],
                  flash[l], handed[l], sent[l], lapped[l])
    BY <1>1, <1>6 DEF LogOK
  <2>2. Store(l, LOG_DAT[l], Phase(l), accepted[l], req[l], params[l], FltPhase(l), log_mgr[l], flash[l])
    BY <2>1 DEF FlashedOK
  <2>3. FirstAt(l) \in Int
    BY <2>2, <1>6, FirstIn DEF FirstAt
  <2>4. accepted[l] \in Nat
    BY <2>2, <1>5 DEF Store, BankOK
  <2>5. ReadersShape(LOG_DAT[l], handed[l], sent[l], lapped[l])
    BY <2>1 DEF FlashedOK
  <2>6. Sents(l, LOG_DAT[l], accepted[l], FirstAt(l), FltPhase(l), handed[l], sent[l], lapped[l])
    BY <2>1 DEF FlashedOK, FirstAt
  <2> QED
    BY <2>3, <2>4, <2>5, <2>6 DEF Sents
<1>7. ASSUME l \notin Flashed
      PROVE  /\ ReadersShape(LOG_DAT[l], handed[l], sent[l], lapped[l])
             /\ HandedOK(handed[l][t], LOG_DAT[l].void_read[t], lapped[l][t], sent[l][t])
             /\ accepted[l] \in Nat
             /\ RingRests(LOG_SECORNUM[l], LOG_DAT[l].dat[0], accepted[l], LOG_DAT[l].wtp)
             /\ LOG_DAT[l].kind = 0 /\ LOG_DAT[l].count[0] = Least(accepted[l], LOG_SECORNUM[l])
             /\ RingSentOK(LOG_SECORNUM[l], LOG_DAT[l].unread[t], LOG_DAT[l].f_unread[t],
                           LOG_DAT[l].void_read[t], accepted[l], lapped[l][t], sent[l][t],
                           accepted[l], LOG_DAT[l].wtp)
  <2> DEFINE r == LOG_DAT[l]
             n == accepted[l]
             s == LOG_SECORNUM[l]
  <2>1. RamOK(l, r, "idle", n, handed[l], sent[l], lapped[l])
    BY <1>1, <1>2, <1>7 DEF LogOK
  <2>2. RingOK(l, r, "idle", n) /\ RingSents(l, r, "idle", n, handed[l], sent[l], lapped[l])
        /\ ReadersShape(r, handed[l], sent[l], lapped[l])
    BY <2>1 DEF RamOK
  <2>3. Placed("idle", n) = n /\ Place("idle", r.wtp) = r.wtp /\ Shown("idle", n) = n /\ ShownTo("idle", r.wtp) = r.wtp
    BY DEF Placed, Place, Shown, ShownTo, RingMid
  <2>4. n \in Nat /\ r.kind = 0
    BY <2>2, <1>5 DEF RingOK
  <2>5. RingPhaseOK(s, "idle", r.count[0], r.wtp, n) /\ RingHolds(s, r.dat[0], n, r.wtp)
    BY <2>2, <2>3 DEF RingOK
  <2>6. r.wtp \in 0 .. s /\ r.wtp < s /\ (n < s => r.wtp = n) /\ r.count[0] = Least(n, s)
    BY <2>5 DEF RingPhaseOK
  <2>7. RingRests(s, r.dat[0], n, r.wtp)
    BY <2>4, <2>5, <2>6, <1>5 DEF RingRests
  <2> QED
    BY <2>2, <2>3, <2>4, <2>6, <2>7 DEF RingSents
<1> QED
  BY <1>3, <1>4, <1>6, <1>7 DEF Ring

LEMMA ReaderGoes ==
    ASSUME LogAssumption, Inv, ContentInv, NEW l \in Logs, NEW t \in Targets,
           NEW u, NEW g, NEW v, NEW x, NEW h, NEW d, NEW b, ReadTo(LOG_DAT[l], t, u, g, v, x),
           ReadStep(l, t, x, h, d, b), HandedOK(h, v, b, d),
           l \in Flashed => SentOK(LOG_SECORNUM[l], u, v, accepted[l], b, d, FirstAt(l), FltPhase(l)),
           l \in Ring => RingSentOK(LOG_SECORNUM[l], u, g, v, accepted[l], b, d, accepted[l], LOG_DAT[l].wtp)
    PROVE  ContentInv'
<1>1. LogOK(l) /\ cpu = None
  BY DEF ContentInv, ReadStep
<1>2. l \in Flashed => FlashedOK(l, x, Phase(l), accepted[l], req[l], params[l], FltPhase(l), log_mgr[l], flash[l],
                                 Put(handed[l], t, h), Put(sent[l], t, d), Put(lapped[l], t, b))
  <2> SUFFICES ASSUME l \in Flashed
               PROVE  FlashedOK(l, x, Phase(l), accepted[l], req[l], params[l], FltPhase(l), log_mgr[l], flash[l],
                                Put(handed[l], t, h), Put(sent[l], t, d), Put(lapped[l], t, b))
    OBVIOUS
  <2>1. FlashedOK(l, LOG_DAT[l], Phase(l), accepted[l], req[l], params[l], FltPhase(l), log_mgr[l],
                  flash[l], handed[l], sent[l], lapped[l])
    BY <1>1 DEF LogOK
  <2>2. SentOK(LOG_SECORNUM[l], u, v, accepted[l], b, d,
               First(l, LOG_DAT[l], Phase(l), accepted[l], req[l], params[l], FltPhase(l), log_mgr[l]), FltPhase(l))
    BY DEF FirstAt
  <2> QED
    BY <2>1, <2>2, FlashedRead
<1>3. l \in Ring => RamOK(l, x, Phase(l), accepted[l], Put(handed[l], t, h), Put(sent[l], t, d), Put(lapped[l], t, b))
  <2> SUFFICES ASSUME l \in Ring
               PROVE  RamOK(l, x, Phase(l), accepted[l], Put(handed[l], t, h), Put(sent[l], t, d), Put(lapped[l], t, b))
    OBVIOUS
  <2>1. l \notin Flashed
    BY DEF Ring
  <2>2. Phase(l) = "idle"
    BY <1>1, <2>1, ReaderRests
  <2>3. RamOK(l, LOG_DAT[l], "idle", accepted[l], handed[l], sent[l], lapped[l])
    BY <1>1, <2>1, <2>2 DEF LogOK
  <2>4. RamOK(l, x, "idle", accepted[l], Put(handed[l], t, h), Put(sent[l], t, d), Put(lapped[l], t, b))
    BY <2>3, RamRead
  <2> QED
    BY <2>2, <2>4
<1> QED
  BY <1>2, <1>3, ReadGoes

\* What a reader of a log with flash sectors can read.
LEMMA ReaderHas ==
    ASSUME LogAssumption, Inv, ContentInv, NEW l \in Flashed, Ready(l)
    PROVE  /\ Indexed(l) = UpTo(FirstAt(l), accepted[l]) /\ FirstAt(l) \in Nat /\ FirstAt(l) <= accepted[l]
           /\ Len(Indexed(l)) = accepted[l] - FirstAt(l)
           /\ Found(l, LOG_DAT[l], accepted[l], FltPhase(l), log_mgr[l], flash[l], FirstAt(l))
<1>1. l \in Logs /\ cpu = None /\ ~ req[l]
  BY DEF Ready, LogAssumption
<1>2. LogOK(l) /\ RestsAt(l, Phase(l))
  BY <1>1, ReaderRests DEF ContentInv
<1>3. AtRest(l, LOG_DAT[l], Phase(l), accepted[l], req[l], params[l], FltPhase(l), log_mgr[l], flash[l])
  BY <1>1, <1>2 DEF LogOK, FlashedOK, AtRest
<1>4. Indexed(l) = UpTo(FirstAt(l), accepted[l])
  <2> DEFINE p == Phase(l)
             n == accepted[l]
             q == req[l]
             par == params[l]
             j == FltPhase(l)
  <2>1. AtRest(l, LOG_DAT[l], p, n, q, par, j, log_mgr[l], flash[l])
    BY <1>3
  <2> HIDE DEF p, n, q, par, j
  <2>2. Same(Indexed(l), UpTo(First(l, LOG_DAT[l], p, n, q, par, j, log_mgr[l]), n))
    BY <2>1, IndexedIs
  <2> QED
    BY <2>2 DEF Same, FirstAt, p, n, q, par, j
<1>5. Found(l, LOG_DAT[l], accepted[l], FltPhase(l), log_mgr[l], flash[l], FirstAt(l))
  BY <1>3, RestIs DEF FirstAt
<1>6. FirstAt(l) \in Nat /\ FirstAt(l) <= accepted[l] /\ accepted[l] \in Nat
  BY <1>5 DEF Found
<1>7. Len(Indexed(l)) = accepted[l] - FirstAt(l)
  <2> DEFINE a == FirstAt(l)
             n == accepted[l]
  <2>0. a \in Int /\ n \in Int /\ a <= n
    BY <1>6
  <2> HIDE DEF a, n
  <2>2. Len(UpTo(a, n)) = n - a
    BY <2>0, UpToIs
  <2>1. Len(UpTo(FirstAt(l), accepted[l])) = accepted[l] - FirstAt(l)
    BY <2>2 DEF a, n
  <2> QED
    BY <2>1, <1>4
<1> QED
  BY <1>4, <1>5, <1>6, <1>7

\* What a reader of a ring can read by index.
LEMMA RingHas ==
    ASSUME LogAssumption, NEW l \in Ring, LOG_DAT[l].kind = 0, NEW c \in Nat, LOG_DAT[l].count[0] = c
    PROVE  Len(Indexed(l)) = c /\ \A i \in 0 .. c - 1 : Indexed(l)[i + 1] = LOG_DAT[l].dat[0][i]
<1>1. Indexed(l) = [i \in 1 .. c |-> LOG_DAT[l].dat[0][i - 1]]
  BY DEF Ring, Indexed, InBank, FirstRecords
<1>2. Len(Indexed(l)) = c
  BY <1>1
<1>3. \A i \in 0 .. c - 1 : Indexed(l)[i + 1] = LOG_DAT[l].dat[0][i]
  BY <1>1
<1> QED
  BY <1>2, <1>3

-----------------------------------------------------------------------------
(* What each reader does. *)

LEMMA VoidReadGoes ==
    ASSUME LogAssumption, Inv, ContentInv, NEW l \in Logs, NEW t \in Targets, NEW start, TargetDataVoidRead(l, t, start)
    PROVE  ContentInv'
<1> DEFINE r == LOG_DAT[l]
           u == r.unread[t]
           f == r.f_unread[t]
           v == r.void_read[t]
           h == handed[l][t]
           b == lapped[l][t]
           d == sent[l][t]
           N == accepted[l]
           s == LOG_SECORNUM[l]
           k == IF start THEN 0 ELSE v
           e == IF start THEN << >> ELSE h
           i == VoidIndex(l, t, k)
           y == Indexed(l)[i + 1]
           x == ReadPut(r, t, u, f, k + 1)
<1>1. /\ Ready(l) /\ cpu = None /\ k < Unread(l, t)
      /\ IF i < Len(Indexed(l))
         THEN /\ LOG_DAT' = [LOG_DAT EXCEPT ![l].void_read[t] = k + 1]
              /\ handed' = [handed EXCEPT ![l][t] = Append(e, y)]
         ELSE /\ LOG_DAT' = [LOG_DAT EXCEPT ![l].void_read[t] = k]
              /\ handed' = [handed EXCEPT ![l][t] = e]
      /\ UNCHANGED <<log_bakup, log_mgr, req, params, flash, flt, task, cpu, accepted, sent, lapped, cuts>>
  BY DEF TargetDataVoidRead, Ready, flashing
<1>2. /\ IsLog(r) /\ ReadersShape(r, handed[l], sent[l], lapped[l])
      /\ HandedOK(h, v, b, d) /\ N \in Nat
      /\ l \in Flashed => /\ FirstAt(l) \in Int
                          /\ SentOK(s, u, v, N, b, d, FirstAt(l), FltPhase(l))
      /\ l \in Ring => /\ RingRests(s, r.dat[0], N, r.wtp) /\ r.kind = 0 /\ r.count[0] = Least(N, s)
                       /\ RingSentOK(s, u, f, v, N, b, d, N, r.wtp)
      /\ handed = [handed EXCEPT ![l] = handed[l]] /\ sent = [sent EXCEPT ![l] = sent[l]]
      /\ lapped = [lapped EXCEPT ![l] = lapped[l]]
  BY <1>1, ReaderFinds
<1>3. Begun(h, v, e, k)
  BY DEF Begun
<1>4. FltPhase(l) # "unread"
  BY <1>1, ReaderRests
<1>5. l \in Flashed => /\ i < Len(Indexed(l)) /\ HandedOK(Append(e, y), k + 1, b, d)
                       /\ SentOK(s, u, k + 1, N, b, d, FirstAt(l), FltPhase(l))
  <2> SUFFICES ASSUME l \in Flashed
               PROVE  /\ i < Len(Indexed(l)) /\ HandedOK(Append(e, y), k + 1, b, d)
                      /\ SentOK(s, u, k + 1, N, b, d, FirstAt(l), FltPhase(l))
    OBVIOUS
  <2> DEFINE a == FirstAt(l)
             j == FltPhase(l)
  <2>1. Indexed(l) = UpTo(a, N) /\ a \in Nat /\ a <= N /\ Len(Indexed(l)) = N - a
    BY <1>1, ReaderHas
  <2>2. i = u + k /\ k < N - a - u
    BY <1>1, <2>1 DEF VoidIndex, Unread
  <2>3. SentOK(s, u, v, N, b, d, a, j) /\ u \in Nat /\ k \in Int /\ N \in Int
    BY <1>2 DEF SentOK
  <2>4. a \in Int /\ 0 <= a /\ a <= N /\ j # "unread" /\ HandedOK(h, v, b, d) /\ Begun(h, v, e, k)
    BY <1>2, <1>3, <1>4, <2>1
  <2>5. u + k < Len(UpTo(a, N))
    <3>1. Len(UpTo(a, N)) = N - a
      BY <2>1
    <3> HIDE DEF u, k, N, a
    <3> QED
      BY <3>1, <2>1, <2>2, <2>3
  <2>6. y = UpTo(a, N)[u + k + 1]
    BY <2>1, <2>2
  <2>7. i < Len(Indexed(l))
    BY <2>1, <2>2, <2>5
  <2> HIDE DEF r, u, f, v, h, b, d, N, s, k, e, i, y, a, j
  <2>8. /\ HandedOK(Append(e, UpTo(a, N)[u + k + 1]), k + 1, b, d)
        /\ SentOK(s, u, k + 1, N, b, d, a, j)
    BY <2>3, <2>4, <2>5, SentVoid
  <2> QED
    BY <2>6, <2>7, <2>8 DEF a, j
<1>6. l \in Ring => /\ i < Len(Indexed(l)) /\ HandedOK(Append(e, y), k + 1, b, d)
                    /\ RingSentOK(s, u, f, k + 1, N, b, d, N, r.wtp)
  <2> SUFFICES ASSUME l \in Ring
               PROVE  /\ i < Len(Indexed(l)) /\ HandedOK(Append(e, y), k + 1, b, d)
                      /\ RingSentOK(s, u, f, k + 1, N, b, d, N, r.wtp)
    OBVIOUS
  <2> DEFINE c == Least(N, s)
             g == r.dat[0]
             w == r.wtp
  <2>1. RingRests(s, g, N, w) /\ RingSentOK(s, u, f, v, N, b, d, N, w)
    BY <1>2
  <2>2. c \in Nat /\ k \in Nat /\ f \in Nat /\ u \in Nat
    BY <2>1 DEF Least, RingRests, RingSentOK
  <2>3. Len(Indexed(l)) = c /\ \A z \in 0 .. c - 1 : Indexed(l)[z + 1] = g[z]
    <3>1. r.kind = 0 /\ r.count[0] = c
      BY <1>2
    <3> QED
      BY <3>1, <2>2, RingHas
  <2>4. k < f /\ i = Turned(s, u + k)
    <3>1. l \notin Flashed
      BY DEF Ring
    <3> QED
      BY <3>1, <1>1 DEF Unread, VoidIndex, Turned
  <2>5. Turned(s, u + k) \in 0 .. s - 1 /\ Turned(s, u + k) < c
    <3>0. k \in Nat /\ f \in Nat /\ k < f
      BY <2>2, <2>4
    <3> HIDE DEF r, u, f, v, h, b, d, N, k, e, i, y, g, w, c
    <3>1. k \in 0 .. f - 1
      BY <3>0
    <3>2. /\ Turned(s, u + k) \in 0 .. s - 1 /\ (~ b => Turned(s, u + k) < Least(N, s))
          /\ (b => Turned(s, u + k) < Least(N, s))
      BY <2>1, <3>1, RingAt
    <3> QED
      BY <3>2 DEF c
  <2>6. i < Len(Indexed(l))
    BY <2>3, <2>4, <2>5
  <2>7. y = g[Turned(s, u + k)]
    <3>1. i \in 0 .. c - 1
      BY <2>2, <2>4, <2>5
    <3> HIDE DEF i, c, g
    <3> QED
      BY <3>1, <2>3, <2>4
  <2>8. HandedOK(h, v, b, d) /\ Begun(h, v, e, k)
    BY <1>2, <1>3
  <2> HIDE DEF r, u, f, v, h, b, d, N, s, k, e, i, y, g, w, c
  <2>9. /\ HandedOK(Append(e, g[Turned(s, u + k)]), k + 1, b, d)
        /\ RingSentOK(s, u, f, k + 1, N, b, d, N, w)
    BY <2>1, <2>4, <2>8, RingVoid
  <2> QED
    BY <2>6, <2>7, <2>9 DEF w
<1>7. i < Len(Indexed(l))
  BY <1>5, <1>6 DEF Ring
<1> HIDE DEF k, e, y, i
<1>8. LOG_DAT' = [LOG_DAT EXCEPT ![l] = x]
  <2> DEFINE z == k + 1
             rr == LOG_DAT[l]
  <2>1. /\ IsLog(rr) /\ ByTarget(rr.unread) /\ ByTarget(rr.f_unread) /\ ByTarget(rr.void_read)
        /\ x = ReadPut(rr, t, rr.unread[t], rr.f_unread[t], z)
    BY <1>2 DEF ReadersShape
  <2>2. LOG_DAT' = [LOG_DAT EXCEPT ![l].void_read[t] = z]
    BY <1>1, <1>7
  <2> HIDE DEF z, x
  <2>3. ReadPut(rr, t, rr.unread[t], rr.f_unread[t], z) = WithVoid(rr, [rr.void_read EXCEPT ![t] = z])
    <3> HIDE DEF rr
    <3> QED
      BY <2>1, ReadPutVoid
  <2> QED
    BY <2>1, <2>2, <2>3 DEF WithVoid
<1>9. handed' = [handed EXCEPT ![l] = Put(handed[l], t, Append(e, y))]
  <2> DEFINE a == handed[l]
             z == Append(e, y)
  <2>1. ByTarget(a)
    BY <1>2 DEF ReadersShape
  <2>2. [a EXCEPT ![t] = z] = Put(a, t, z)
    <3> HIDE DEF a, z
    <3> QED
      BY <2>1, PutIs
  <2> QED
    BY <1>1, <1>7, <2>2
<1>10. Put(sent[l], t, d) = sent[l] /\ Put(lapped[l], t, b) = lapped[l]
  BY <1>2, PutIs DEF ReadersShape
<1>11. ReadStep(l, t, x, Append(e, y), d, b)
  <2> HIDE DEF x
  <2> QED
    BY <1>1, <1>2, <1>8, <1>9, <1>10 DEF ReadStep
<1>12. ReadTo(r, t, u, f, k + 1, x)
  BY <1>2, ReadPutIs
<1> HIDE DEF x
<1> DEFINE z == k + 1
           hh == Append(e, y)
<1>13. ReadTo(r, t, u, f, z, x) /\ ReadStep(l, t, x, hh, d, b)
  BY <1>11, <1>12
<1>14. /\ l \in Flashed => HandedOK(hh, z, b, d) /\ SentOK(s, u, z, N, b, d, FirstAt(l), FltPhase(l))
       /\ l \in Ring => HandedOK(hh, z, b, d) /\ RingSentOK(s, u, f, z, N, b, d, N, r.wtp)
  BY <1>5, <1>6
<1> HIDE DEF z, hh, u, f, v, h, b, d
<1>15. HandedOK(hh, z, b, d)
  BY <1>14 DEF Ring
<1> QED
  BY <1>13, <1>14, <1>15, ReaderGoes

\* What a reader makes of the log of one target.
ReadMade(l, t, u, g, v, h, d, b) ==
    /\ cpu = None
    /\ LOG_DAT' = [LOG_DAT EXCEPT ![l].unread[t] = u, ![l].f_unread[t] = g, ![l].void_read[t] = v]
    /\ handed' = [handed EXCEPT ![l][t] = h]
    /\ sent' = [sent EXCEPT ![l][t] = d]
    /\ lapped' = [lapped EXCEPT ![l][t] = b]
    /\ UNCHANGED <<log_bakup, log_mgr, req, params, flash, flt, task, cpu, accepted, cuts>>

LEMMA HistoryPut ==
    ASSUME NEW f, f = [m \in Logs |-> f[m]], NEW l \in Logs, ByTarget(f[l]), NEW t \in Targets, NEW x
    PROVE  /\ Same([f EXCEPT ![l][t] = x], [f EXCEPT ![l] = Put(f[l], t, x)])
           /\ Same([f EXCEPT ![l][t] = f[l][t]], f)
<1> DEFINE a == f[l]
<1>1. ByTarget(a)
  OBVIOUS
<1>2. [a EXCEPT ![t] = x] = Put(a, t, x) /\ [a EXCEPT ![t] = a[t]] = a
  <2> HIDE DEF a
  <2>1. [a EXCEPT ![t] = x] = Put(a, t, x)
    BY <1>1, PutIs
  <2>2. [a EXCEPT ![t] = a[t]] = a
    BY <1>1 DEF ByTarget
  <2> QED
    BY <2>1, <2>2
<1>3. [f EXCEPT ![l][t] = x] = [f EXCEPT ![l] = [a EXCEPT ![t] = x]]
  BY DEF a
<1>4. [f EXCEPT ![l][t] = f[l][t]] = [f EXCEPT ![l] = [a EXCEPT ![t] = a[t]]]
  BY DEF a
<1>5. [f EXCEPT ![l] = a] = f
  BY DEF a
<1> QED
  BY <1>2, <1>3, <1>4, <1>5 DEF Same

LEMMA ReadPutSame ==
    ASSUME NEW r, IsLog(r), ByTarget(r.unread), ByTarget(r.f_unread), ByTarget(r.void_read), NEW t \in Targets,
           NEW u, NEW g, NEW v
    PROVE  Same([r EXCEPT !.unread[t] = u, !.f_unread[t] = g, !.void_read[t] = v], ReadPut(r, t, u, g, v))
<1> DEFINE c1 == [r.unread EXCEPT ![t] = u]
           c2 == [r.f_unread EXCEPT ![t] = g]
           c3 == [r.void_read EXCEPT ![t] = v]
<1>1. ReadPut(r, t, u, g, v) = WithVoid(WithFUnread(WithUnread(r, c1), c2), c3)
  BY ReadPutAll
<1>2. [r EXCEPT !.unread[t] = u, !.f_unread[t] = g, !.void_read[t] = v] = [r EXCEPT !.unread = c1, !.f_unread = c2, !.void_read = c3]
  BY DEF IsLog
<1> HIDE DEF c1, c2, c3
<1>3. [r EXCEPT !.unread = c1, !.f_unread = c2, !.void_read = c3] = WithVoid(WithFUnread(WithUnread(r, c1), c2), c3)
  BY DEF WithVoid, WithFUnread, WithUnread
<1> QED
  BY <1>1, <1>2, <1>3 DEF Same

LEMMA TriplePut ==
    ASSUME NEW S, NEW f, f = [m \in S |-> f[m]], NEW l \in S, NEW t, NEW u, NEW g, NEW v
    PROVE  Same([f EXCEPT ![l].unread[t] = u, ![l].f_unread[t] = g, ![l].void_read[t] = v],
                [f EXCEPT ![l] = [f[l] EXCEPT !.unread[t] = u, !.f_unread[t] = g, !.void_read[t] = v]])
<1>1. [f EXCEPT ![l].unread[t] = u, ![l].f_unread[t] = g, ![l].void_read[t] = v] =
      [f EXCEPT ![l] = [f[l] EXCEPT !.unread[t] = u, !.f_unread[t] = g, !.void_read[t] = v]]
  OBVIOUS
<1> QED
  BY <1>1 DEF Same

LEMMA ReadMakes ==
    ASSUME LogAssumption, Inv, ContentInv, NEW l \in Logs, NEW t \in Targets,
           NEW u, NEW g, NEW v, NEW h, NEW d, NEW b, ReadMade(l, t, u, g, v, h, d, b), HandedOK(h, v, b, d),
           l \in Flashed => SentOK(LOG_SECORNUM[l], u, v, accepted[l], b, d, FirstAt(l), FltPhase(l)),
           l \in Ring => RingSentOK(LOG_SECORNUM[l], u, g, v, accepted[l], b, d, accepted[l], LOG_DAT[l].wtp)
    PROVE  ContentInv'
<1> DEFINE r == LOG_DAT[l]
           x == ReadPut(r, t, u, g, v)
<1>1. /\ cpu = None
      /\ LOG_DAT' = [LOG_DAT EXCEPT ![l].unread[t] = u, ![l].f_unread[t] = g, ![l].void_read[t] = v]
      /\ handed' = [handed EXCEPT ![l][t] = h] /\ sent' = [sent EXCEPT ![l][t] = d]
      /\ lapped' = [lapped EXCEPT ![l][t] = b]
      /\ UNCHANGED <<log_bakup, log_mgr, req, params, flash, flt, task, cpu, accepted, cuts>>
  BY DEF ReadMade
<1>2. IsLog(r) /\ ReadersShape(r, handed[l], sent[l], lapped[l])
  BY <1>1, ReaderFinds
<1>3. HistoryShape
  BY DEF ContentInv
<1>4. ReadTo(r, t, u, g, v, x)
  BY <1>2, ReadPutIs
<1>5. LOG_DAT' = [LOG_DAT EXCEPT ![l] = x]
  <2>1. LOG_DAT' = [LOG_DAT EXCEPT ![l] = [r EXCEPT !.unread[t] = u, !.f_unread[t] = g, !.void_read[t] = v]]
    <3>1. LOG_DAT = [m \in Logs |-> LOG_DAT[m]]
      BY DEF Inv, Shape, RamShape
    <3>2. Same([LOG_DAT EXCEPT ![l].unread[t] = u, ![l].f_unread[t] = g, ![l].void_read[t] = v],
               [LOG_DAT EXCEPT ![l] = [LOG_DAT[l] EXCEPT !.unread[t] = u, !.f_unread[t] = g, !.void_read[t] = v]])
      BY <3>1, TriplePut
    <3> QED
      BY <1>1, <3>2 DEF Same
  <2>2. IsLog(r) /\ ByTarget(r.unread) /\ ByTarget(r.f_unread) /\ ByTarget(r.void_read)
    BY <1>2 DEF ReadersShape
  <2> HIDE DEF r
  <2>3. Same([r EXCEPT !.unread[t] = u, !.f_unread[t] = g, !.void_read[t] = v], ReadPut(r, t, u, g, v))
    BY <2>2, ReadPutSame
  <2> QED
    BY <2>1, <2>3 DEF Same
<1>6. handed' = [handed EXCEPT ![l] = Put(handed[l], t, h)]
  <2>1. handed = [m \in Logs |-> handed[m]] /\ ByTarget(handed[l])
    BY <1>2, <1>3 DEF HistoryShape, ReadersShape
  <2>2. Same([handed EXCEPT ![l][t] = h], [handed EXCEPT ![l] = Put(handed[l], t, h)])
    BY <2>1, HistoryPut
  <2> QED
    BY <1>1, <2>2 DEF Same
<1>7. sent' = [sent EXCEPT ![l] = Put(sent[l], t, d)]
  <2>1. sent = [m \in Logs |-> sent[m]] /\ ByTarget(sent[l])
    BY <1>2, <1>3 DEF HistoryShape, ReadersShape
  <2>2. Same([sent EXCEPT ![l][t] = d], [sent EXCEPT ![l] = Put(sent[l], t, d)])
    BY <2>1, HistoryPut
  <2> QED
    BY <1>1, <2>2 DEF Same
<1>8. lapped' = [lapped EXCEPT ![l] = Put(lapped[l], t, b)]
  <2>1. lapped = [m \in Logs |-> lapped[m]] /\ ByTarget(lapped[l])
    BY <1>2, <1>3 DEF HistoryShape, ReadersShape
  <2>2. Same([lapped EXCEPT ![l][t] = b], [lapped EXCEPT ![l] = Put(lapped[l], t, b)])
    BY <2>1, HistoryPut
  <2> QED
    BY <1>1, <2>2 DEF Same
<1> HIDE DEF x
<1>9. ReadStep(l, t, x, h, d, b)
  BY <1>1, <1>5, <1>6, <1>7, <1>8 DEF ReadStep
<1> QED
  BY <1>4, <1>9, ReaderGoes

\* What a reader leaves alone.
ReadKeeps(l, t) ==
    /\ Same([sent EXCEPT ![l][t] = sent[l][t]], sent)
    /\ Same([lapped EXCEPT ![l][t] = lapped[l][t]], lapped)
    /\ Same([handed EXCEPT ![l][t] = handed[l][t]], handed)

LEMMA ReadKept ==
    ASSUME LogAssumption, Inv, ContentInv, NEW l \in Logs, NEW t \in Targets, cpu = None
    PROVE  ReadKeeps(l, t)
<1>1. ReadersShape(LOG_DAT[l], handed[l], sent[l], lapped[l]) /\ HistoryShape
  BY ReaderFinds DEF ContentInv
<1>2. /\ handed = [m \in Logs |-> handed[m]] /\ ByTarget(handed[l])
      /\ sent = [m \in Logs |-> sent[m]] /\ ByTarget(sent[l])
      /\ lapped = [m \in Logs |-> lapped[m]] /\ ByTarget(lapped[l])
  BY <1>1 DEF HistoryShape, ReadersShape
<1>3. Same([sent EXCEPT ![l][t] = sent[l][t]], sent)
  BY <1>2, HistoryPut
<1>4. Same([lapped EXCEPT ![l][t] = lapped[l][t]], lapped)
  BY <1>2, HistoryPut
<1>5. Same([handed EXCEPT ![l][t] = handed[l][t]], handed)
  BY <1>2, HistoryPut
<1> QED
  BY <1>3, <1>4, <1>5 DEF ReadKeeps

\* A reader that moves void_read only.
LEMMA VoidPut ==
    ASSUME LogAssumption, Inv, ContentInv, NEW l \in Logs, NEW t \in Targets, cpu = None, NEW v
    PROVE  Same([LOG_DAT EXCEPT ![l].void_read[t] = v],
                [LOG_DAT EXCEPT ![l].unread[t] = LOG_DAT[l].unread[t], ![l].f_unread[t] = LOG_DAT[l].f_unread[t],
                                ![l].void_read[t] = v])
<1> DEFINE r == LOG_DAT[l]
<1>1. IsLog(r) /\ ByTarget(r.unread) /\ ByTarget(r.f_unread) /\ ByTarget(r.void_read)
  BY ReaderFinds DEF ReadersShape
<1>2. [LOG_DAT EXCEPT ![l].void_read[t] = v] = [LOG_DAT EXCEPT ![l] = [r EXCEPT !.void_read[t] = v]]
  OBVIOUS
<1>3. [LOG_DAT EXCEPT ![l].unread[t] = LOG_DAT[l].unread[t], ![l].f_unread[t] = LOG_DAT[l].f_unread[t],
                      ![l].void_read[t] = v] =
      [LOG_DAT EXCEPT ![l] = [r EXCEPT !.unread[t] = r.unread[t], !.f_unread[t] = r.f_unread[t], !.void_read[t] = v]]
  <2> DEFINE u == r.unread[t]
             g == r.f_unread[t]
  <2>1. LOG_DAT = [m \in Logs |-> LOG_DAT[m]]
    BY DEF Inv, Shape, RamShape
  <2> HIDE DEF u, g
  <2>2. Same([LOG_DAT EXCEPT ![l].unread[t] = u, ![l].f_unread[t] = g, ![l].void_read[t] = v],
             [LOG_DAT EXCEPT ![l] = [LOG_DAT[l] EXCEPT !.unread[t] = u, !.f_unread[t] = g, !.void_read[t] = v]])
    BY <2>1, TriplePut
  <2> QED
    BY <2>2 DEF Same, u, g
<1> HIDE DEF r
<1>4. Same([r EXCEPT !.unread[t] = r.unread[t], !.f_unread[t] = r.f_unread[t], !.void_read[t] = v],
           ReadPut(r, t, r.unread[t], r.f_unread[t], v))
  BY <1>1, ReadPutSame
<1>5. ReadPut(r, t, r.unread[t], r.f_unread[t], v) = WithVoid(r, [r.void_read EXCEPT ![t] = v])
  BY <1>1, ReadPutVoid
<1>6. [r EXCEPT !.void_read[t] = v] = WithVoid(r, [r.void_read EXCEPT ![t] = v])
  BY DEF WithVoid
<1> QED
  BY <1>2, <1>3, <1>4, <1>5, <1>6 DEF Same

LEMMA UndoGoes ==
    ASSUME LogAssumption, Inv, ContentInv, NEW l \in Logs, NEW t \in Targets, UndoTargetDataVoidRead(l, t)
    PROVE  ContentInv'
<1> DEFINE u == LOG_DAT[l].unread[t]
           f == LOG_DAT[l].f_unread[t]
           v == LOG_DAT[l].void_read[t]
           h == handed[l][t]
           b == lapped[l][t]
           d == sent[l][t]
           N == accepted[l]
           s == LOG_SECORNUM[l]
           w == LOG_DAT[l].wtp
           a == FirstAt(l)
           j == FltPhase(l)
           z == v - 1
           hh == Front(h)
<1>1. /\ cpu = None /\ v > 0
      /\ LOG_DAT' = [LOG_DAT EXCEPT ![l].void_read[t] = z]
      /\ handed' = [handed EXCEPT ![l][t] = hh]
      /\ UNCHANGED <<log_bakup, log_mgr, req, params, flash, flt, task, cpu, accepted, sent, lapped, cuts>>
  BY DEF UndoTargetDataVoidRead, flashing
<1>2. /\ HandedOK(h, v, b, d) /\ N \in Nat
      /\ l \in Flashed => a \in Int /\ SentOK(s, u, v, N, b, d, a, j)
      /\ l \in Ring => s \in Nat /\ RingSentOK(s, u, f, v, N, b, d, N, w)
  BY <1>1, ReaderFinds DEF RingRests
<1>3. j # "unread"
  BY <1>1, ReaderRests
<1>4. ReadMade(l, t, u, f, z, hh, d, b)
  <2> HIDE DEF z, hh, u, f, d, b
  <2>1. ReadKeeps(l, t)
    BY <1>1, ReadKept
  <2>2. Same([LOG_DAT EXCEPT ![l].void_read[t] = z],
             [LOG_DAT EXCEPT ![l].unread[t] = u, ![l].f_unread[t] = f, ![l].void_read[t] = z])
    BY <1>1, VoidPut DEF u, f
  <2> QED
    BY <1>1, <2>1, <2>2 DEF ReadMade, ReadKeeps, Same, d, b
<1> HIDE DEF u, f, v, h, b, d, N, s, w, a, j
<1>5. ASSUME l \in Flashed PROVE HandedOK(Front(h), v - 1, b, d) /\ SentOK(s, u, v - 1, N, b, d, a, j)
  <2>1. N \in Int /\ a \in Int
    BY <1>2, <1>5
  <2> QED
    BY <1>1, <1>2, <1>3, <1>5, <2>1, SentUndo
<1>6. ASSUME l \in Ring PROVE HandedOK(Front(h), v - 1, b, d) /\ RingSentOK(s, u, f, v - 1, N, b, d, N, w)
  BY <1>1, <1>2, <1>6, RingUndo
<1>7. HandedOK(hh, z, b, d)
  BY <1>5, <1>6 DEF Ring
<1>8. /\ l \in Flashed => SentOK(s, u, z, N, b, d, a, j)
      /\ l \in Ring => RingSentOK(s, u, f, z, N, b, d, N, w)
  BY <1>5, <1>6
<1> HIDE DEF z, hh
<1>9. /\ l \in Flashed => SentOK(LOG_SECORNUM[l], u, z, accepted[l], b, d, FirstAt(l), FltPhase(l))
      /\ l \in Ring => RingSentOK(LOG_SECORNUM[l], u, f, z, accepted[l], b, d, accepted[l], LOG_DAT[l].wtp)
  BY <1>8 DEF s, N, a, j, w
<1> QED
  BY <1>4, <1>7, <1>9, ReadMakes

LEMMA UpdateGoes ==
    ASSUME LogAssumption, Inv, ContentInv, NEW l \in Logs, NEW t \in Targets, TargetVoidReadPointerUpdate(l, t)
    PROVE  ContentInv'
<1> DEFINE u == LOG_DAT[l].unread[t]
           f == LOG_DAT[l].f_unread[t]
           v == LOG_DAT[l].void_read[t]
           h == handed[l][t]
           b == lapped[l][t]
           d == sent[l][t]
           N == accepted[l]
           s == LOG_SECORNUM[l]
           w == LOG_DAT[l].wtp
           a == FirstAt(l)
           j == FltPhase(l)
           e == << >>
           y == Last(h)
           u2 == Wrapped(l, u + v)
           f2 == IF l \in Flashed THEN f ELSE f - v
<1>1. /\ Ready(l) /\ cpu = None /\ v > 0
      /\ IF Unread(l, t) > 0
         THEN /\ LOG_DAT' = [LOG_DAT EXCEPT ![l].unread[t] = u2, ![l].f_unread[t] = f2, ![l].void_read[t] = 0]
              /\ sent' = [sent EXCEPT ![l][t] = y]
         ELSE LOG_DAT' = [LOG_DAT EXCEPT ![l].void_read[t] = 0] /\ sent' = sent
      /\ handed' = [handed EXCEPT ![l][t] = e]
      /\ UNCHANGED <<log_bakup, log_mgr, req, params, flash, flt, task, cpu, accepted, lapped, cuts>>
  <2>0. TargetVoidReadPointerUpdate(l, t)
    OBVIOUS
  <2>1. /\ Ready(l) /\ cpu = None /\ v > 0 /\ handed' = [handed EXCEPT ![l][t] = e]
        /\ UNCHANGED <<log_bakup, log_mgr, req, params, flash, flt, task, cpu, accepted, lapped, cuts>>
    BY <2>0 DEF TargetVoidReadPointerUpdate, flashing, Ready
  <2>2. IF Unread(l, t) > 0
        THEN /\ LOG_DAT' = [LOG_DAT EXCEPT ![l].unread[t] = Wrapped(l, @ + v),
                                           ![l].f_unread[t] = IF l \in Flashed THEN @ ELSE @ - v,
                                           ![l].void_read[t] = 0]
             /\ sent' = [sent EXCEPT ![l][t] = y]
        ELSE LOG_DAT' = [LOG_DAT EXCEPT ![l].void_read[t] = 0] /\ sent' = sent
    BY <2>0 DEF TargetVoidReadPointerUpdate
  <2>3. LOG_DAT = [m \in Logs |-> LOG_DAT[m]] /\ IsLog(LOG_DAT[l])
    BY DEF Inv, Shape, RamShape
  <2>4. [LOG_DAT EXCEPT ![l].unread[t] = Wrapped(l, @ + v), ![l].f_unread[t] = IF l \in Flashed THEN @ ELSE @ - v,
                        ![l].void_read[t] = 0] =
        [LOG_DAT EXCEPT ![l].unread[t] = u2, ![l].f_unread[t] = f2, ![l].void_read[t] = 0]
    BY <2>3 DEF IsLog
  <2> QED
    BY <2>1, <2>2, <2>4
<1>2. /\ HandedOK(h, v, b, d) /\ N \in Nat
      /\ l \in Flashed => a \in Int /\ SentOK(s, u, v, N, b, d, a, j)
      /\ l \in Ring => RingRests(s, LOG_DAT[l].dat[0], N, w) /\ RingSentOK(s, u, f, v, N, b, d, N, w)
  BY <1>1, ReaderFinds
<1>3. j # "unread" /\ ReadKeeps(l, t)
  BY <1>1, ReaderRests, ReadKept
<1>4. CASE Unread(l, t) > 0
  <2>1. ReadMade(l, t, u2, f2, 0, e, y, b)
    <3> HIDE DEF u2, f2, e, y, b
    <3> QED
      BY <1>1, <1>3, <1>4 DEF ReadMade, ReadKeeps, Same, b
  <2>2. u2 = IF l \in Flashed THEN u + v ELSE Turned(s, u + v)
    BY DEF Wrapped, Turned
  <2> HIDE DEF u, f, v, h, b, d, N, s, w, a, j, u2
  <2>3. ASSUME l \in Flashed PROVE HandedOK(e, 0, b, y) /\ SentOK(s, u2, 0, N, b, y, a, j)
    <3>1. N \in Int /\ a \in Int /\ v > 0 /\ u2 = u + v
      BY <1>1, <1>2, <2>2, <2>3
    <3> QED
      BY <1>2, <1>3, <2>3, <3>1, SentUpdate
  <2>4. ASSUME l \in Ring PROVE HandedOK(e, 0, b, y) /\ RingSentOK(s, u2, f2, 0, N, b, y, N, w)
    <3>1. v > 0 /\ u2 = Turned(s, u + v) /\ f2 = f - v
      BY <1>1, <2>2, <2>4 DEF Ring
    <3>2. /\ HandedOK(<< >>, 0, b, Last(h))
          /\ RingSentOK(s, Turned(s, u + v), f - v, 0, N, b, Last(h), N, w)
      BY <1>2, <2>4, <3>1, RingUpdate
    <3> QED
      BY <3>1, <3>2
  <2> HIDE DEF e, y, f2
  <2>5. HandedOK(e, 0, b, y)
    BY <2>3, <2>4 DEF Ring
  <2>6. /\ l \in Flashed => SentOK(LOG_SECORNUM[l], u2, 0, accepted[l], b, y, FirstAt(l), FltPhase(l))
        /\ l \in Ring => RingSentOK(LOG_SECORNUM[l], u2, f2, 0, accepted[l], b, y, accepted[l], LOG_DAT[l].wtp)
    BY <2>3, <2>4 DEF s, N, a, j, w
  <2> QED
    BY <2>1, <2>5, <2>6, ReadMakes
<1>5. CASE ~ (Unread(l, t) > 0)
  <2>0. l \in Flashed
    <3>1. ASSUME l \in Ring PROVE FALSE
      <4>1. Unread(l, t) = f
        BY <3>1 DEF Unread, Ring
      <4>2. v \in 0 .. f /\ f \in 0 .. s /\ s \in Nat
        BY <1>2, <3>1 DEF RingSentOK, RingRests
      <4> HIDE DEF f, v, s
      <4> QED
        BY <1>1, <1>5, <4>1, <4>2
    <3> QED
      BY <3>1 DEF Ring
  <2>1. ReadMade(l, t, u, f, 0, e, d, b)
    <3>1. Same([LOG_DAT EXCEPT ![l].void_read[t] = 0],
               [LOG_DAT EXCEPT ![l].unread[t] = u, ![l].f_unread[t] = f, ![l].void_read[t] = 0])
      BY <1>1, VoidPut
    <3> HIDE DEF u, f, e, d, b
    <3> QED
      BY <1>1, <1>3, <1>5, <3>1 DEF ReadMade, ReadKeeps, Same, d, b
  <2> HIDE DEF u, f, v, h, b, d, N, s, w, a, j
  <2>2. HandedOK(e, 0, b, d) /\ SentOK(s, u, 0, N, b, d, a, j)
    <3>1. N \in Int /\ a \in Int
      BY <1>2, <2>0
    <3> QED
      BY <1>2, <1>3, <2>0, <3>1, SentDrop
  <2> HIDE DEF e
  <2>3. /\ l \in Flashed => SentOK(LOG_SECORNUM[l], u, 0, accepted[l], b, d, FirstAt(l), FltPhase(l))
        /\ l \in Ring => RingSentOK(LOG_SECORNUM[l], u, f, 0, accepted[l], b, d, accepted[l], LOG_DAT[l].wtp)
    BY <2>0, <2>2 DEF s, N, a, j, Ring
  <2> QED
    BY <2>1, <2>2, <2>3, ReadMakes
<1> QED
  BY <1>4, <1>5

LEMMA DoublePut ==
    ASSUME NEW S, NEW f, f = [m \in S |-> f[m]], NEW l \in S, IsLog(f[l]), ByTarget(f[l].void_read), NEW t, NEW u, NEW g,
           NEW z, f[l].void_read[t] = z
    PROVE  Same([f EXCEPT ![l].unread[t] = u, ![l].f_unread[t] = g],
                [f EXCEPT ![l].unread[t] = u, ![l].f_unread[t] = g, ![l].void_read[t] = z])
<1> DEFINE r == f[l]
           x == [r EXCEPT !.unread[t] = u, !.f_unread[t] = g]
<1>1. [f EXCEPT ![l].unread[t] = u, ![l].f_unread[t] = g] = [f EXCEPT ![l] = x]
  OBVIOUS
<1>2. Same([f EXCEPT ![l].unread[t] = u, ![l].f_unread[t] = g, ![l].void_read[t] = z],
           [f EXCEPT ![l] = [f[l] EXCEPT !.unread[t] = u, !.f_unread[t] = g, !.void_read[t] = z]])
  BY TriplePut
<1>3. x = [r EXCEPT !.unread[t] = u, !.f_unread[t] = g, !.void_read[t] = z]
  <2> DEFINE c1 == [r.unread EXCEPT ![t] = u]
             c2 == [r.f_unread EXCEPT ![t] = g]
  <2>1. IsLog(r) /\ ByTarget(r.void_read) /\ r.void_read[t] = z
    OBVIOUS
  <2> HIDE DEF r
  <2>2. x = [r EXCEPT !.unread = c1, !.f_unread = c2]
    BY <2>1 DEF IsLog
  <2>3. [r EXCEPT !.unread[t] = u, !.f_unread[t] = g, !.void_read[t] = z] =
        [r EXCEPT !.unread = c1, !.f_unread = c2, !.void_read = [r.void_read EXCEPT ![t] = z]]
    BY <2>1 DEF IsLog
  <2>4. [r.void_read EXCEPT ![t] = z] = r.void_read
    BY <2>1 DEF ByTarget
  <2> HIDE DEF x, c1, c2
  <2>5. [r EXCEPT !.unread = c1, !.f_unread = c2, !.void_read = r.void_read] = [r EXCEPT !.unread = c1, !.f_unread = c2]
    BY <2>1 DEF IsLog
  <2> QED
    BY <2>2, <2>3, <2>4, <2>5
<1> QED
  BY <1>1, <1>2, <1>3 DEF Same

LEMMA GetGoes ==
    ASSUME LogAssumption, Inv, ContentInv, NEW l \in Logs, NEW t \in Targets, TargetDataGet(l, t)
    PROVE  ContentInv'
<1> DEFINE u == LOG_DAT[l].unread[t]
           f == LOG_DAT[l].f_unread[t]
           v == LOG_DAT[l].void_read[t]
           h == handed[l][t]
           b == lapped[l][t]
           d == sent[l][t]
           N == accepted[l]
           s == LOG_SECORNUM[l]
           w == LOG_DAT[l].wtp
           a == FirstAt(l)
           j == FltPhase(l)
           y == Indexed(l)[u + 1]
           u2 == Wrapped(l, u + 1)
           f2 == IF l \in Flashed THEN f ELSE f - 1
<1>1. /\ Ready(l) /\ cpu = None /\ v = 0 /\ Unread(l, t) > 0 /\ u < Len(Indexed(l))
      /\ LOG_DAT' = [LOG_DAT EXCEPT ![l].unread[t] = u2, ![l].f_unread[t] = f2]
      /\ sent' = [sent EXCEPT ![l][t] = y]
      /\ UNCHANGED <<log_bakup, log_mgr, req, params, flash, flt, task, cpu, accepted, handed, lapped, cuts>>
  <2>0. TargetDataGet(l, t)
    OBVIOUS
  <2>1. /\ Ready(l) /\ cpu = None /\ v = 0 /\ Unread(l, t) > 0 /\ u < Len(Indexed(l))
        /\ sent' = [sent EXCEPT ![l][t] = y]
        /\ UNCHANGED <<log_bakup, log_mgr, req, params, flash, flt, task, cpu, accepted, handed, lapped, cuts>>
    BY <2>0 DEF TargetDataGet, flashing, Ready
  <2>2. LOG_DAT' = [LOG_DAT EXCEPT ![l].unread[t] = Wrapped(l, @ + 1),
                                   ![l].f_unread[t] = IF l \in Flashed THEN @ ELSE @ - 1]
    BY <2>0 DEF TargetDataGet
  <2>3. LOG_DAT = [m \in Logs |-> LOG_DAT[m]] /\ IsLog(LOG_DAT[l])
    BY DEF Inv, Shape, RamShape
  <2>4. [LOG_DAT EXCEPT ![l].unread[t] = Wrapped(l, @ + 1), ![l].f_unread[t] = IF l \in Flashed THEN @ ELSE @ - 1] =
        [LOG_DAT EXCEPT ![l].unread[t] = u2, ![l].f_unread[t] = f2]
    BY <2>3 DEF IsLog
  <2> QED
    BY <2>1, <2>2, <2>4
<1>2. /\ HandedOK(h, v, b, d) /\ N \in Nat
      /\ l \in Flashed => a \in Int /\ SentOK(s, u, v, N, b, d, a, j)
      /\ l \in Ring => /\ RingRests(s, LOG_DAT[l].dat[0], N, w) /\ RingSentOK(s, u, f, v, N, b, d, N, w)
                       /\ LOG_DAT[l].kind = 0 /\ LOG_DAT[l].count[0] = Least(N, s)
  BY <1>1, ReaderFinds
<1>3. j # "unread" /\ ReadKeeps(l, t)
  BY <1>1, ReaderRests, ReadKept
<1>4. ReadMade(l, t, u2, f2, 0, h, y, b)
  <2>1. LOG_DAT = [m \in Logs |-> LOG_DAT[m]] /\ IsLog(LOG_DAT[l]) /\ ByTarget(LOG_DAT[l].void_read)
    BY <1>1, ReaderFinds DEF Inv, Shape, RamShape, ReadersShape
  <2>3. LOG_DAT[l].void_read[t] = 0
    BY <1>1
  <2> HIDE DEF u2, f2
  <2>2. Same([LOG_DAT EXCEPT ![l].unread[t] = u2, ![l].f_unread[t] = f2],
             [LOG_DAT EXCEPT ![l].unread[t] = u2, ![l].f_unread[t] = f2, ![l].void_read[t] = 0])
    BY <2>1, <2>3, DoublePut
  <2> HIDE DEF y, h, b
  <2> QED
    BY <1>1, <1>3, <2>2 DEF ReadMade, ReadKeeps, Same, h, b
<1>5. /\ l \in Flashed => u2 = u + 1
      /\ l \in Ring => u2 = Turned(s, u + 1) /\ f2 = f - 1
  BY DEF Wrapped, Turned, Ring
<1>6. ASSUME l \in Flashed PROVE HandedOK(h, 0, b, y) /\ SentOK(s, u2, 0, N, b, y, a, j)
  <2>1. Indexed(l) = UpTo(a, N) /\ a \in Nat /\ a <= N
    BY <1>1, <1>6, ReaderHas
  <2>2. N \in Int /\ a \in Int /\ 0 <= a /\ u2 = u + 1 /\ v = 0
    BY <1>1, <1>2, <1>5, <1>6, <2>1
  <2>3. u < Len(UpTo(a, N)) /\ y = UpTo(a, N)[u + 1]
    BY <1>1, <2>1
  <2> HIDE DEF u, f, h, b, d, N, s, w, a, j, u2, v, y
  <2>4. HandedOK(h, 0, b, d) /\ SentOK(s, u, 0, N, b, d, a, j)
    BY <1>2, <1>6, <2>2
  <2>5. /\ HandedOK(h, 0, b, UpTo(a, N)[u + 1])
        /\ SentOK(s, u + 1, 0, N, b, UpTo(a, N)[u + 1], a, j)
    BY <1>3, <2>1, <2>2, <2>3, <2>4, SentGet
  <2> QED
    BY <2>2, <2>3, <2>5
<1>7. ASSUME l \in Ring PROVE HandedOK(h, 0, b, y) /\ RingSentOK(s, u2, f2, 0, N, b, y, N, w)
  <2> DEFINE g == LOG_DAT[l].dat[0]
             c == Least(N, s)
  <2>1. RingRests(s, g, N, w) /\ RingSentOK(s, u, f, 0, N, b, d, N, w) /\ HandedOK(h, 0, b, d)
    <3>1. v = 0
      BY <1>1
    <3> QED
      BY <1>2, <1>7, <3>1
  <2>2. c \in Nat /\ u \in Nat
    BY <2>1 DEF Least, RingRests, RingSentOK
  <2>3. Len(Indexed(l)) = c /\ \A i \in 0 .. c - 1 : Indexed(l)[i + 1] = g[i]
    <3>1. LOG_DAT[l].kind = 0 /\ LOG_DAT[l].count[0] = c
      BY <1>2, <1>7
    <3> QED
      BY <1>7, <2>2, <3>1, RingHas
  <2>4. y = g[u] /\ f > 0
    <3>1. Unread(l, t) = f
      BY <1>7 DEF Unread, Ring
    <3>2. f > 0
      BY <1>1, <3>1
    <3>3. u < c
      BY <1>1, <2>3
    <3> HIDE DEF u, c
    <3>4. u \in 0 .. c - 1
      BY <2>2, <3>3
    <3> QED
      BY <2>3, <3>2, <3>4
  <2> HIDE DEF u, f, h, b, d, N, s, w, u2, f2, y, g
  <2>5. HandedOK(h, 0, b, g[u]) /\ RingSentOK(s, Turned(s, u + 1), f - 1, 0, N, b, g[u], N, w)
    BY <2>1, <2>4, RingGet
  <2> QED
    BY <1>5, <1>7, <2>4, <2>5
<1> HIDE DEF u, f, v, h, b, d, N, s, w, a, j, y, u2, f2
<1>8. HandedOK(h, 0, b, y)
  BY <1>6, <1>7 DEF Ring
<1>9. /\ l \in Flashed => SentOK(LOG_SECORNUM[l], u2, 0, accepted[l], b, y, FirstAt(l), FltPhase(l))
      /\ l \in Ring => RingSentOK(LOG_SECORNUM[l], u2, f2, 0, accepted[l], b, y, accepted[l], LOG_DAT[l].wtp)
  BY <1>6, <1>7 DEF s, N, a, j, w
<1> QED
  BY <1>4, <1>8, <1>9, ReadMakes

LEMMA SkipGoes ==
    ASSUME LogAssumption, NoCuts, Inv, ContentInv, NEW l \in Logs, NEW t \in Targets, UnreadToRead(l, t)
    PROVE  ContentInv'
<1> DEFINE f == LOG_DAT[l].f_unread[t]
           N == accepted[l]
           s == LOG_SECORNUM[l]
           a == FirstAt(l)
           j == FltPhase(l)
           e == << >>
           u2 == Len(Indexed(l))
<1>0. l \in Flashed
  BY DEF NoCuts, UnreadToRead
<1>1. /\ Ready(l) /\ cpu = None
      /\ LOG_DAT' = [LOG_DAT EXCEPT ![l].unread[t] = u2, ![l].f_unread[t] = f, ![l].void_read[t] = 0]
      /\ sent' = [sent EXCEPT ![l][t] = N - InHand(l)]
      /\ handed' = [handed EXCEPT ![l][t] = e]
      /\ lapped' = [lapped EXCEPT ![l][t] = FALSE]
      /\ UNCHANGED <<log_bakup, log_mgr, req, params, flash, flt, task, cpu, accepted, cuts>>
  <2>0. UnreadToRead(l, t)
    OBVIOUS
  <2>1. /\ Ready(l) /\ cpu = None
        /\ sent' = [sent EXCEPT ![l][t] = N - InHand(l)]
        /\ handed' = [handed EXCEPT ![l][t] = e]
        /\ lapped' = [lapped EXCEPT ![l][t] = FALSE]
        /\ UNCHANGED <<log_bakup, log_mgr, req, params, flash, flt, task, cpu, accepted, cuts>>
    BY <2>0 DEF UnreadToRead, flashing, Ready
  <2>2. LOG_DAT' = [LOG_DAT EXCEPT
          ![l].unread[t] = IF l \in Flashed THEN Len(Indexed(l)) ELSE @ + LOG_DAT[l].f_unread[t],
          ![l].f_unread[t] = IF l \in Flashed THEN @ ELSE 0,
          ![l].void_read[t] = 0]
    BY <2>0 DEF UnreadToRead
  <2>3. LOG_DAT = [m \in Logs |-> LOG_DAT[m]] /\ IsLog(LOG_DAT[l])
    BY DEF Inv, Shape, RamShape
  <2>4. [LOG_DAT EXCEPT
          ![l].unread[t] = IF l \in Flashed THEN Len(Indexed(l)) ELSE @ + LOG_DAT[l].f_unread[t],
          ![l].f_unread[t] = IF l \in Flashed THEN @ ELSE 0,
          ![l].void_read[t] = 0] =
        [LOG_DAT EXCEPT ![l].unread[t] = u2, ![l].f_unread[t] = f, ![l].void_read[t] = 0]
    BY <1>0, <2>3 DEF IsLog
  <2> QED
    BY <2>1, <2>2, <2>4
<1>2. N \in Nat /\ InHand(l) = 0 /\ j # "unread"
  BY <1>1, ReaderFinds, ReaderRests
<1>3. Indexed(l) = UpTo(a, N) /\ a \in Nat /\ a <= N
  BY <1>0, <1>1, ReaderHas
<1>4. N - InHand(l) = N
  BY <1>2
<1>5. u2 = Len(UpTo(a, N))
  BY <1>3
<1> HIDE DEF f, N, s, a, j, e, u2
<1> DEFINE b == FALSE
<1>6. ReadMade(l, t, u2, f, 0, e, N, b)
  BY <1>1, <1>4 DEF ReadMade
<1>7. b = FALSE
  OBVIOUS
<1> HIDE DEF b
<1>8. HandedOK(<< >>, 0, b, N) /\ SentOK(s, Len(UpTo(a, N)), 0, N, b, N, a, j)
  <2>1. N \in Int /\ a \in Int /\ 0 <= a
    BY <1>2, <1>3
  <2> QED
    BY <1>2, <1>3, <1>7, <2>1, SentSkip
<1>9. HandedOK(e, 0, b, N)
  BY <1>8 DEF e
<1>10. /\ l \in Flashed => SentOK(LOG_SECORNUM[l], u2, 0, accepted[l], b, N, FirstAt(l), FltPhase(l))
       /\ l \in Ring => RingSentOK(LOG_SECORNUM[l], u2, f, 0, accepted[l], b, N, accepted[l], LOG_DAT[l].wtp)
  BY <1>0, <1>5, <1>8 DEF s, N, a, j, Ring
<1> QED
  BY <1>6, <1>9, <1>10, ReadMakes

LEMMA ReadWorks ==
    ASSUME LogAssumption, NoCuts, Inv, ContentInv, NEW l \in Logs, NEW t \in Targets, Read(l, t)
    PROVE  ContentInv'
<1>1. ASSUME NEW start \in BOOLEAN, TargetDataVoidRead(l, t, start) PROVE ContentInv'
  BY <1>1, VoidReadGoes
<1> QED
  BY <1>1, UndoGoes, UpdateGoes, GetGoes, SkipGoes DEF Read

-----------------------------------------------------------------------------
(* The invariant holds. *)

\* Without a power cut start-up has nothing to do.
LEMMA BootRests ==
    ASSUME LogAssumption, Inv, ContentInv
    PROVE  ~ Step(Boot) /\ ~ Recover
<1>1. task[Boot].pc = "idle" /\ cpu # Boot
  BY DEF ContentInv, TurnOK, Idle, Frame, LogAssumption
<1>2. \A p : ~ At(Boot, p)
  BY <1>1 DEF At
<1>3. ~ Waits(Boot)
  BY <1>1 DEF Waits, WaitNext
<1>4. ~ Recover
  BY <1>2 DEF Recover, LogWritePon, RequestPon, PonLog, PonErase, PonWrite, PonFcount, PonInfo, PonSecttop,
              PonSectnum, PonEnd, BootDone
<1>5. /\ ~ Accept(Boot) /\ ~ WaitYields(Boot) /\ ~ WaitEnds(Boot) /\ ~ Copy(Boot) /\ ~ CountUnread(Boot)
      /\ ~ Count(Boot) /\ ~ Cap(Boot) /\ ~ Rewind(Boot) /\ ~ Oldest(Boot) /\ ~ Toggle(Boot) /\ ~ Finish(Boot)
      /\ ~ Request(Boot)
  BY <1>2, <1>3 DEF Accept, WaitYields, WaitEnds, Copy, CountUnread, Count, Cap, Rewind, Oldest, Toggle, Finish, Request
<1>6. ~ Checkpoint(Boot) /\ ~ Advance(Boot) /\ ~ ClearBank(Boot)
  BY <1>1 DEF Checkpoint, Advance, ClearBank
<1> QED
  BY <1>4, <1>5, <1>6 DEF Step

LEMMA NoCut == ASSUME LogAssumption, NoCuts, ContentInv PROVE ~ PowerCut
BY DEF NoCuts, ContentInv, TurnOK, PowerCut

LEMMA RestGoes == ASSUME Inv, ContentInv, UNCHANGED vars PROVE ContentInv'
<1>1. UNCHANGED <<LOG_DAT, log_bakup, log_mgr, req, params, flash, flt, task, cpu, accepted, handed, sent, lapped, cuts>>
  BY DEF vars, ram, flashing, history, reading
<1>2. TurnOK /\ HistoryShape /\ \A l \in Logs : LogOK(l)
  BY DEF ContentInv
<1>3. TurnOK'
  BY <1>1, <1>2 DEF TurnOK, Lno, Kind
<1>4. HistoryShape'
  BY <1>1, <1>2 DEF HistoryShape
<1>5. ASSUME NEW l \in Logs PROVE LogOK(l)'
  <2>1. SameView(l)
    BY <1>1 DEF SameView, Phase, FltPhase
  <2> QED
    BY <1>2, <2>1, Elsewhere
<1> QED
  BY <1>3, <1>4, <1>5 DEF ContentInv

LEMMA ContentNext == ASSUME LogAssumption, NoCuts, Inv, ContentInv, [Next]_vars PROVE ContentInv'
<1>1. ASSUME NEW w \in Tasks, NEW l \in Logs, Log_Write(w, l) PROVE ContentInv'
  BY <1>1, LogWriteGoes
<1>2. ASSUME NEW w \in Tasks, Step(w) PROVE ContentInv'
  BY <1>2, TaskWorks
<1>3. CASE FlashStep
  BY <1>3, FlashWorks
<1>4. ASSUME NEW l \in Logs, NEW t \in Targets, Read(l, t) PROVE ContentInv'
  BY <1>4, ReadWorks
<1>5. CASE UNCHANGED vars
  BY <1>5, RestGoes
<1>6. ~ Step(Boot) /\ ~ Recover /\ ~ PowerCut
  BY BootRests, NoCut
<1> QED
  BY <1>1, <1>2, <1>3, <1>4, <1>5, <1>6, Zenon DEF Next

LEMMA FirstFlashed ==
    ASSUME LogAssumption, Init, NEW l \in Flashed
    PROVE  FlashedOK(l, LOG_DAT[l], "idle", 0, req[l], params[l], "idle", log_mgr[l],
                     flash[l], handed[l], sent[l], lapped[l])
<1> DEFINE r == LOG_DAT[l]
           m == log_mgr[l]
           par == params[l]
           s == LOG_SECORNUM[l]
<1>0. l \in Logs /\ s \in Nat \ {0} /\ MaxRecords[l] \in Nat /\ sectmax[l] \in Nat \ {0}
  BY DEF LogAssumption
<1>1. /\ IsLog(r) /\ r.kind = 0 /\ r.count = [k \in {0, 1} |-> 0] /\ r.wtp = 0
      /\ r.dat = [k \in {0, 1} |-> [i \in 0 .. s - 1 |-> 0]] /\ r.Fcount = 0
      /\ r.unread = [t \in Targets |-> 0] /\ r.f_unread = [t \in Targets |-> 0] /\ r.void_read = [t \in Targets |-> 0]
  BY <1>0 DEF Init, IsLog
<1>2. /\ m = [secttop |-> 0, sectnum |-> 0, record_num |-> [x \in Sectors(l) |-> 0]]
      /\ req[l] = FALSE /\ par.sramlog_kind = 0 /\ flash[l] = [x \in Sectors(l) |-> None]
      /\ handed[l] = [t \in Targets |-> << >>] /\ sent[l] = [t \in Targets |-> 0] /\ lapped[l] = [t \in Targets |-> FALSE]
  BY <1>0 DEF Init
<1>3. Fill(r, "idle") = 0
  BY <1>1 DEF Fill, Before
<1>4. Stored(l, r, "idle", 0, req[l], 0, "idle") = 0
  BY <1>2, <1>3 DEF Stored
<1>5. Back(l, 0) = 0
  BY <1>0 DEF Back
<1>6. PhaseOK(l, r, "idle", req[l], 0, "idle")
  BY <1>0, <1>1, <1>2 DEF PhaseOK
<1>7. DatOK(l, r, "idle", 0) /\ OtherOK(r, req[l], 0, "idle")
  BY <1>1 DEF DatOK, OtherOK
<1>8. r.count \in [{0, 1} -> 0 .. s] /\ r.dat \in [{0, 1} -> Bank(l)]
  <2>1. [i \in 0 .. s - 1 |-> 0] \in Bank(l)
    BY <1>0 DEF Bank
  <2> QED
    BY <1>0, <1>1, <2>1
<1>9. BankOK(l, r, "idle", 0, req[l], 0, "idle")
  BY <1>0, <1>1, <1>6, <1>7, <1>8 DEF BankOK
<1>10. \A from : AskedOK(l, r, par, req[l], from) /\ JobOK(l, m, flash[l], par, "idle", from)
  BY <1>2 DEF AskedOK, JobOK, Replaced, Copied
<1>11. SectorsOK(l, m, flash[l], "idle", 0)
  <2>1. m.secttop = 0 /\ m.sectnum = 0 /\ m.record_num = [x \in Sectors(l) |-> 0]
        /\ m = [secttop |-> m.secttop, sectnum |-> m.sectnum, record_num |-> m.record_num]
    BY <1>2
  <2>2. 0 \in Sectors(l) /\ 0 \in 0 .. sectmax[l]
    BY <1>0 DEF Sectors
  <2>3. m.record_num = [x \in Sectors(l) |-> m.record_num[x]] /\ flash[l] = [x \in Sectors(l) |-> flash[l][x]]
    BY <1>2, <2>1
  <2> HIDE DEF m
  <2> QED
    BY <1>5, <2>1, <2>2, <2>3 DEF SectorsOK
<1>12. Store(l, r, "idle", 0, req[l], par, "idle", m, flash[l])
  <2>1. r.Fcount \in 0 .. sectmax[l]
    BY <1>0, <1>1
  <2> HIDE DEF r, m, par, s
  <2> QED
    BY <1>2, <1>4, <1>9, <1>10, <1>11, <2>1 DEF Store
<1>13. First(l, r, "idle", 0, req[l], par, "idle", m) = 0
  <2>1. m.sectnum = 0 /\ par.sramlog_kind = 0
    BY <1>2
  <2> HIDE DEF r, m, par, s
  <2> QED
    BY <1>4, <1>5, <2>1 DEF First
<1>14. Sents(l, r, 0, 0, "idle", handed[l], sent[l], lapped[l])
  <2>1. UpTo(0, 0 + 0) = << >>
    BY UpToEnds
  <2> QED
    BY <1>1, <1>2, <2>1 DEF Sents, HandedOK, SentOK
<1>15. ReadersShape(r, handed[l], sent[l], lapped[l])
  BY <1>1, <1>2 DEF ReadersShape, ByTarget
<1> HIDE DEF r, m, par, s
<1>16. FlashedOK(l, r, "idle", 0, req[l], par, "idle", m, flash[l], handed[l], sent[l], lapped[l])
  BY <1>12, <1>13, <1>14, <1>15 DEF FlashedOK
<1> QED
  BY <1>16 DEF r, m, par

LEMMA FirstRam ==
    ASSUME LogAssumption, Init, NEW l \in Ring
    PROVE  RamOK(l, LOG_DAT[l], "idle", 0, handed[l], sent[l], lapped[l])
<1> DEFINE r == LOG_DAT[l]
           s == LOG_SECORNUM[l]
<1>0. l \in Logs /\ s \in Nat \ {0} /\ MaxRecords[l] \in Nat
  BY DEF LogAssumption, Ring
<1>1. /\ IsLog(r) /\ r.kind = 0 /\ r.count = [k \in {0, 1} |-> 0] /\ r.wtp = 0
      /\ r.dat = [k \in {0, 1} |-> [i \in 0 .. s - 1 |-> 0]]
      /\ r.unread = [t \in Targets |-> 0] /\ r.f_unread = [t \in Targets |-> 0] /\ r.void_read = [t \in Targets |-> 0]
  BY <1>0 DEF Init, IsLog
<1>2. handed[l] = [t \in Targets |-> << >>] /\ sent[l] = [t \in Targets |-> 0] /\ lapped[l] = [t \in Targets |-> FALSE]
  BY <1>0 DEF Init
<1>3. Placed("idle", 0) = 0 /\ Place("idle", r.wtp) = 0 /\ Shown("idle", 0) = 0 /\ ShownTo("idle", r.wtp) = 0
  BY <1>1 DEF Placed, Place, Shown, ShownTo, RingMid
<1>4. RingPhaseOK(s, "idle", 0, 0, 0) /\ RingHolds(s, r.dat[0], 0, 0)
  BY <1>0 DEF RingPhaseOK, RingHolds, RingMid, Least
<1>5. r.dat \in [{0, 1} -> Bank(l)]
  <2>1. [i \in 0 .. s - 1 |-> 0] \in Bank(l)
    BY <1>0 DEF Bank
  <2> QED
    BY <1>1, <2>1
<1>6. r.count = [k \in {0, 1} |-> r.count[k]] /\ r.count[0] = 0 /\ r.count[1] = 0
  BY <1>1
<1>7. RingOK(l, r, "idle", 0)
  BY <1>0, <1>1, <1>3, <1>4, <1>5, <1>6 DEF RingOK
<1>8. RingSents(l, r, "idle", 0, handed[l], sent[l], lapped[l])
  <2>1. UpTo(0, 0 + 0) = << >>
    BY UpToEnds
  <2> QED
    BY <1>0, <1>1, <1>2, <1>3, <2>1 DEF RingSents, HandedOK, RingSentOK
<1>9. ReadersShape(r, handed[l], sent[l], lapped[l])
  BY <1>1, <1>2 DEF ReadersShape, ByTarget
<1> QED
  BY <1>7, <1>8, <1>9 DEF RamOK

LEMMA ContentInit == ASSUME LogAssumption, Init PROVE ContentInv
<1>1. /\ \A w \in Tasks \cup {Boot} : task[w].pc = "idle" /\ task[w] = Idle
      /\ flt.pc = "idle" /\ flt.by = FLT /\ cpu = None /\ cuts = 0 /\ log_bakup.f_recover = 0
  BY DEF Init, Idle, Frame, NoBakup
<1>2. TurnOK
  BY <1>1 DEF TurnOK, LogAssumption, Codes
<1>3. HistoryShape
  BY DEF Init, HistoryShape
<1>4. ASSUME NEW l \in Logs PROVE LogOK(l)
  <2>1. Phase(l) = "idle" /\ FltPhase(l) = "idle" /\ accepted[l] = 0
    BY <1>1 DEF Phase, FltPhase, LogAssumption, Init
  <2>2. CASE l \in Flashed
    BY <2>1, <2>2, FirstFlashed DEF LogOK
  <2>3. CASE l \notin Flashed
    <3>1. l \in Ring
      BY <2>3 DEF Ring
    <3>2. RamOK(l, LOG_DAT[l], "idle", 0, handed[l], sent[l], lapped[l])
      BY <3>1, FirstRam
    <3> QED
      BY <2>1, <2>3, <3>2 DEF LogOK
  <2> QED
    BY <2>2, <2>3
<1> QED
  BY <1>2, <1>3, <1>4 DEF ContentInv

-----------------------------------------------------------------------------
(* What follows from it. *)

\* What a log is at every place of Log_Write and of the flash task.
LEMMA FlashedTypes ==
    ASSUME LogAssumption, Inv, ContentInv, NEW l \in Flashed
    PROVE  /\ LOG_DAT[l].kind \in {0, 1} /\ LOG_DAT[l].count \in [{0, 1} -> 0 .. LOG_SECORNUM[l] + 1]
           /\ LOG_DAT[l].wtp \in 0 .. LOG_SECORNUM[l] /\ LOG_DAT[l].dat \in [{0, 1} -> Bank(l)]
           /\ \A t \in Targets : LOG_DAT[l].unread[t] \in 0 .. accepted[l]
           /\ log_mgr[l].secttop \in Sectors(l) /\ log_mgr[l].sectnum \in 0 .. sectmax[l]
           /\ params[l].f_recover \in {0, 1, 2, 3, 40, 41} /\ LOG_DAT[l].Fcount \in 0 .. sectmax[l]
<1> DEFINE r == LOG_DAT[l]
           n == accepted[l]
<1>0. l \in Logs /\ LOG_SECORNUM[l] \in Nat
  BY DEF LogAssumption
<1>1. FlashedOK(l, r, Phase(l), n, req[l], params[l], FltPhase(l), log_mgr[l], flash[l], handed[l], sent[l], lapped[l])
  BY <1>0 DEF ContentInv, LogOK
<1>2. /\ Store(l, r, Phase(l), n, req[l], params[l], FltPhase(l), log_mgr[l], flash[l])
      /\ Sents(l, r, n, First(l, r, Phase(l), n, req[l], params[l], FltPhase(l), log_mgr[l]), FltPhase(l),
               handed[l], sent[l], lapped[l])
  BY <1>1 DEF FlashedOK
<1>3. /\ BankOK(l, r, Phase(l), n, req[l], params[l].sramlog_kind, FltPhase(l)) /\ r.Fcount \in 0 .. sectmax[l]
      /\ log_mgr[l].secttop \in Sectors(l) /\ log_mgr[l].sectnum \in 0 .. sectmax[l]
  BY <1>2 DEF Store, SectorsOK
<1>4. /\ r.kind \in {0, 1} /\ r.count \in [{0, 1} -> 0 .. LOG_SECORNUM[l]] /\ r.dat \in [{0, 1} -> Bank(l)]
      /\ r.wtp \in 0 .. LOG_SECORNUM[l] /\ n \in 0 .. MaxRecords[l]
  BY <1>3 DEF BankOK, IsLog, PhaseOK
<1>5. r.count \in [{0, 1} -> 0 .. LOG_SECORNUM[l] + 1]
  BY <1>0, <1>4
<1>6. ASSUME NEW t \in Targets PROVE r.unread[t] \in 0 .. n
  <2>1. r.unread[t] \in Nat /\ r.void_read[t] \in Nat /\ r.unread[t] + r.void_read[t] <= n
    BY <1>2, <1>6 DEF Sents, SentOK
  <2>2. n \in Int
    BY <1>4
  <2> HIDE DEF n, r
  <2> QED
    BY <2>1, <2>2
<1>7. params[l].f_recover \in {0, 1, 2, 3, 40, 41}
  BY DEF Inv, Shape, ParShape, IsParam
<1> QED
  BY <1>3, <1>4, <1>5, <1>6, <1>7

LEMMA RamTypes ==
    ASSUME LogAssumption, Inv, ContentInv, NEW l \in Ring
    PROVE  /\ LOG_DAT[l].kind \in {0, 1} /\ LOG_DAT[l].count \in [{0, 1} -> 0 .. LOG_SECORNUM[l] + 1]
           /\ LOG_DAT[l].wtp \in 0 .. LOG_SECORNUM[l] /\ LOG_DAT[l].dat \in [{0, 1} -> Bank(l)]
           /\ \A t \in Targets : LOG_DAT[l].unread[t] \in 0 .. accepted[l]
<1> DEFINE r == LOG_DAT[l]
           n == accepted[l]
           s == LOG_SECORNUM[l]
           p == Phase(l)
<1>0. l \in Logs /\ l \notin Flashed /\ s \in Nat \ {0} /\ MaxRecords[l] \in Nat
  BY DEF LogAssumption, Ring
<1>1. RingOK(l, r, p, n) /\ RingSents(l, r, p, n, handed[l], sent[l], lapped[l])
  BY <1>0 DEF ContentInv, LogOK, RamOK
<1>2. /\ r.kind = 0 /\ r.count = [k \in {0, 1} |-> r.count[k]] /\ r.count[1] = 0 /\ r.dat \in [{0, 1} -> Bank(l)]
      /\ n \in Nat /\ RingPhaseOK(s, p, r.count[0], r.wtp, n)
  BY <1>0, <1>1 DEF RingOK
<1>3. r.count[0] \in 0 .. s + 1 /\ r.wtp \in 0 .. s
  BY <1>2 DEF RingPhaseOK
<1>4. r.count \in [{0, 1} -> 0 .. s + 1]
  <2>1. 0 \in 0 .. s + 1
    BY <1>0
  <2> HIDE DEF r, s
  <2> QED
    BY <1>2, <1>3, <2>1
<1>5. ASSUME NEW t \in Targets PROVE r.unread[t] \in 0 .. n
  <2> DEFINE u == r.unread[t]
             f == r.f_unread[t]
             w == r.wtp
             shown == Shown(p, n)
             to == ShownTo(p, w)
  <2>1. RingSentOK(s, u, f, r.void_read[t], n, lapped[l][t], sent[l][t], shown, to)
    BY <1>1, <1>5 DEF RingSents
  <2>2. u \in 0 .. s - 1 /\ f \in 0 .. s /\ f <= shown
    BY <2>1 DEF RingSentOK
  <2>3. n >= s \/ (u + f = to) \/ shown >= s
    BY <2>1, <1>0, <1>2 DEF RingSentOK
  <2>4. shown \in Int /\ shown <= n
    BY <1>2 DEF Shown
  <2>5. n < s => to <= n /\ to \in Int
    <3> SUFFICES ASSUME n < s PROVE to <= n /\ to \in Int
      OBVIOUS
    <3> HIDE DEF r, n, s, p
    <3>1. p \in {"accept", "copy"} \cup RingMid => w = n - 1
      BY <1>0, <1>2 DEF RingPhaseOK
    <3>2. p \in {"idle", "end", "f4"} => w = n
      BY <1>0, <1>2 DEF RingPhaseOK
    <3>3. p \notin {"f41", "f42", "rewind", "f43", "f44", "oldest"}
      BY <1>0, <1>2 DEF RingPhaseOK
    <3>4. p \in {"idle", "accept", "copy", "end", "f4"} \cup RingMid
      BY <1>2, <3>3 DEF RingPhaseOK
    <3>5. CASE p \in RingMid
      <4>1. to \in {w, w + 1} /\ w = n - 1
        BY <3>1, <3>5 DEF ShownTo
      <4> HIDE DEF w, to
      <4> QED
        BY <1>2, <4>1
    <3>6. CASE p \notin RingMid
      <4>1. to = w /\ w \in {n - 1, n}
        BY <3>1, <3>2, <3>4, <3>6 DEF ShownTo
      <4> HIDE DEF w, to
      <4> QED
        BY <1>2, <4>1
    <3> QED
      BY <3>5, <3>6
  <2> HIDE DEF u, f, w, shown, to, s, n, p
  <2>6. u \in 0 .. n
    BY <1>0, <1>2, <2>2, <2>3, <2>4, <2>5
  <2> QED
    BY <2>6 DEF u
<1> QED
  BY <1>2, <1>3, <1>4, <1>5

LEMMA TypesHold == ASSUME LogAssumption, Inv, ContentInv PROVE TypeOK
<1>1. log_bakup.f_recover \in Codes /\ cpu \in Tasks \cup {Boot, FLT, None}
  BY DEF ContentInv, TurnOK
<1>2. \A l \in Flashed : l \in Logs
  BY DEF LogAssumption
<1>3. ASSUME NEW l \in Logs
      PROVE  /\ LOG_DAT[l].kind \in {0, 1} /\ LOG_DAT[l].count \in [{0, 1} -> 0 .. LOG_SECORNUM[l] + 1]
             /\ LOG_DAT[l].wtp \in 0 .. LOG_SECORNUM[l] /\ LOG_DAT[l].dat \in [{0, 1} -> Bank(l)]
             /\ \A t \in Targets : LOG_DAT[l].unread[t] \in 0 .. accepted[l]
  <2>1. CASE l \in Flashed
    BY <2>1, FlashedTypes
  <2>2. CASE l \in Ring
    BY <2>2, RamTypes
  <2> QED
    BY <2>1, <2>2 DEF Ring
<1>4. ASSUME NEW l \in Flashed
      PROVE  /\ log_mgr[l].secttop \in Sectors(l) /\ log_mgr[l].sectnum \in 0 .. sectmax[l]
             /\ params[l].f_recover \in {0, 1, 2, 3, 40, 41} /\ LOG_DAT[l].Fcount \in 0 .. sectmax[l]
  BY <1>4, FlashedTypes
<1> QED
  BY <1>1, <1>3, <1>4 DEF TypeOK, Codes

LEMMA FlashedHolds ==
    ASSUME LogAssumption, Inv, ContentInv, NEW l \in Flashed, Ready(l)
    PROVE  /\ Len(Held(l)) >= IF accepted[l] < Capacity(l) THEN accepted[l] ELSE Capacity(l)
           /\ Len(Held(l)) <= accepted[l]
           /\ Held(l) = UpTo(accepted[l] - Len(Held(l)), accepted[l])
<1> DEFINE n == accepted[l]
           a == FirstAt(l)
           c == LOG_DAT[l].count[LOG_DAT[l].kind]
           m == log_mgr[l]
           s == LOG_SECORNUM[l]
           x == sectmax[l]
<1>1. /\ Indexed(l) = UpTo(a, n) /\ a \in Nat /\ a <= n /\ Len(Indexed(l)) = n - a
      /\ Found(l, LOG_DAT[l], n, FltPhase(l), m, flash[l], a)
  BY ReaderHas
<1>2. Held(l) = Indexed(l)
  BY DEF Held
<1>3. /\ c \in Nat /\ n \in Nat /\ a = (n - c) - Back(l, m.sectnum)
      /\ n - c >= Back(l, m.sectnum) /\ (m.sectnum < x => n - c = Back(l, m.sectnum))
      /\ m.sectnum \in 0 .. x
  BY <1>1 DEF Found, SectorsOK
<1>4. s \in Nat \ {0} /\ x \in Nat \ {0}
  BY DEF LogAssumption
<1>5. Capacity(l) = s * x /\ Back(l, x) = x * s /\ Capacity(l) = Back(l, x) /\ Capacity(l) \in Nat
  <2>1. Capacity(l) = s * x /\ Back(l, x) = x * s
    BY DEF Capacity, Back
  <2> HIDE DEF s, x
  <2>2. s * x = x * s /\ s * x \in Nat
    BY <1>4
  <2> QED
    BY <2>1, <2>2
<1>6. n - a >= IF n < Capacity(l) THEN n ELSE Capacity(l)
  <2>1. CASE m.sectnum < x
    <3> DEFINE k == Back(l, m.sectnum)
               y == Capacity(l)
    <3>1. a = n - c - k /\ n - c = k
      BY <1>3, <2>1
    <3> HIDE DEF k, y, n, a, c
    <3>2. n - a = n
      BY <1>1, <1>3, <3>1
    <3>3. y \in Nat
      BY <1>5 DEF y
    <3>4. n - a >= IF n < y THEN n ELSE y
      BY <1>3, <3>2, <3>3
    <3> QED
      BY <3>4 DEF y
  <2>2. CASE m.sectnum = x
    <3> DEFINE y == Capacity(l)
    <3>1. a = n - c - y /\ y \in Nat /\ n - c >= y
      BY <1>3, <1>5, <2>2
    <3> HIDE DEF y, n, a, c
    <3>2. n - a >= IF n < y THEN n ELSE y
      BY <1>1, <1>3, <3>1
    <3> QED
      BY <3>2 DEF y
  <2>3. m.sectnum < x \/ m.sectnum = x
    BY <1>3, <1>4
  <2> QED
    BY <2>1, <2>2, <2>3
<1>7. n - a <= n /\ n - (n - a) = a
  <2> HIDE DEF n, a
  <2> QED
    BY <1>1, <1>3
<1> QED
  BY <1>1, <1>2, <1>6, <1>7

\* The places of a ring, from the oldest record on.
LEMMA RingTurns ==
    ASSUME NEW s \in Nat \ {0}, NEW i \in 0 .. 2 * s - 1
    PROVE  i % s = Turned(s, i)
<1>1. CASE i < s
  BY <1>1, ModIs DEF Turned
<1>2. CASE i >= s
  <2>1. i - s \in 0 .. s - 1 /\ (i - s) + s = i
    BY <1>2
  <2>2. ((i - s) + s) % s = i - s
    BY <2>1, ModIs
  <2> QED
    BY <1>2, <2>1, <2>2 DEF Turned
<1> QED
  BY <1>1, <1>2

LEMMA RamHolds ==
    ASSUME LogAssumption, Inv, ContentInv, NEW l \in Ring, cpu = None
    PROVE  /\ Len(Held(l)) >= IF accepted[l] < Capacity(l) THEN accepted[l] ELSE Capacity(l)
           /\ Len(Held(l)) <= accepted[l]
           /\ Held(l) = UpTo(accepted[l] - Len(Held(l)), accepted[l])
<1> DEFINE n == accepted[l]
           s == LOG_SECORNUM[l]
           g == LOG_DAT[l].dat[0]
           w == LOG_DAT[l].wtp
<1>0. s \in Nat \ {0} /\ l \in Logs /\ l \notin Flashed /\ Capacity(l) = s
  <2>1. s \in Nat \ {0} /\ l \in Logs /\ l \notin Flashed
    BY DEF LogAssumption, Ring
  <2>2. Capacity(l) = s * 1
    BY <2>1 DEF Capacity
  <2> HIDE DEF s
  <2> QED
    BY <2>1, <2>2
<1>2. /\ RingRests(s, g, n, w) /\ LOG_DAT[l].kind = 0 /\ LOG_DAT[l].count[0] = Least(n, s)
  <2>1. l \notin Flashed => Phase(l) = "idle"
    BY <1>0, ReaderRests
  <2>2. RingOK(l, LOG_DAT[l], "idle", n)
    BY <1>0, <2>1 DEF ContentInv, LogOK, RamOK
  <2>3. Placed("idle", n) = n /\ Place("idle", w) = w
    BY DEF Placed, Place, RingMid
  <2>4. n \in Nat /\ LOG_DAT[l].kind = 0
    BY <2>2 DEF RingOK, LogAssumption
  <2>5. RingPhaseOK(s, "idle", LOG_DAT[l].count[0], w, n) /\ RingHolds(s, g, n, w)
    BY <2>2, <2>3 DEF RingOK
  <2>6. w \in 0 .. s /\ w < s /\ (n < s => w = n) /\ LOG_DAT[l].count[0] = Least(n, s)
    BY <2>5 DEF RingPhaseOK
  <2>7. w \in 0 .. s - 1
    <3> HIDE DEF w, s
    <3> QED
      BY <1>0, <2>6
  <2> QED
    BY <1>0, <2>4, <2>5, <2>6, <2>7 DEF RingRests
<1>3. n \in Nat /\ w \in 0 .. s - 1
  BY <1>2 DEF RingRests
<1>4. CASE n < s
  <2>1. LOG_DAT[l].count[0] = n /\ w = n
    BY <1>2, <1>4 DEF Least, RingRests
  <2>2. Held(l) = [i \in 1 .. n |-> g[i - 1]]
    BY <1>0, <1>2, <1>4, <2>1 DEF Held, Indexed, InBank, FirstRecords
  <2>3. ASSUME NEW i \in 1 .. n PROVE g[i - 1] = 0 + i
    <3>0. i \in 1 .. n /\ w = n /\ n < s /\ n \in Nat /\ s \in Nat
      BY <1>0, <1>3, <1>4, <2>1, <2>3
    <3>1. i - 1 \in 0 .. s - 1 /\ i - 1 < w
      <4> HIDE DEF g, n, w, s
      <4> QED
        BY <3>0
    <3>2. g[i - 1] = n - w + (i - 1) + 1
      BY <1>2, <3>1 DEF RingRests, RingHolds
    <3> HIDE DEF g, n, w, s
    <3> QED
      BY <1>3, <2>1, <3>2
  <2> HIDE DEF g, n, w, s
  <2>4. UpTo(0, n) = [i \in 1 .. n |-> 0 + i]
    BY <1>3 DEF UpTo
  <2>5. Held(l) = UpTo(0, n)
    BY <2>2, <2>3, <2>4
  <2>6. Len(Held(l)) = n
    BY <1>3, <2>2
  <2>7. n - n = 0
    BY <1>3
  <2>8. n >= (IF n < Capacity(l) THEN n ELSE Capacity(l)) /\ n <= n
    BY <1>0, <1>3, <1>4
  <2>9. /\ Len(Held(l)) >= IF n < Capacity(l) THEN n ELSE Capacity(l)
        /\ Len(Held(l)) <= n /\ Held(l) = UpTo(n - Len(Held(l)), n)
    BY <2>5, <2>6, <2>7, <2>8
  <2> QED
    BY <2>9 DEF n
<1>5. CASE ~ (n < s)
  <2>1. LOG_DAT[l].count[0] = s
    BY <1>2, <1>5 DEF Least
  <2>2. Held(l) = [i \in 1 .. s |-> g[(w + i - 1) % s]]
    BY <1>0, <2>1 DEF Held
  <2>3. ASSUME NEW i \in 1 .. s PROVE g[(w + i - 1) % s] = (n - s) + i
    <3> DEFINE y == w + i - 1
    <3>0. y \in 0 .. 2 * s - 1 /\ w \in Nat /\ s \in Nat \ {0} /\ n \in Nat /\ s <= n
      <4>1. i \in 1 .. s /\ w \in 0 .. s - 1 /\ s \in Nat \ {0} /\ n \in Nat /\ ~ (n < s)
        BY <1>0, <1>3, <1>5, <2>3
      <4> HIDE DEF g, n, w, s
      <4> QED
        BY <4>1
    <3>1. y % s = Turned(s, y)
      BY <3>0, RingTurns
    <3>2. CASE y < s
      <4>1. y \in 0 .. s - 1 /\ y >= w /\ n >= s /\ Turned(s, y) = y
        BY <3>0, <3>2, <2>3 DEF Turned
      <4>2. g[y] = n - s - w + y + 1
        <5>1. RingHolds(s, g, n, w)
          BY <1>2 DEF RingRests
        <5> HIDE DEF g, n, w, s, y
        <5> QED
          BY <4>1, <5>1 DEF RingHolds
      <4> HIDE DEF g, n, w, s
      <4> QED
        BY <3>0, <3>1, <4>1, <4>2
    <3>3. CASE ~ (y < s)
      <4>1. y - s \in 0 .. s - 1 /\ y - s < w /\ Turned(s, y) = y - s
        <5>1. i \in 1 .. s /\ w \in 0 .. s - 1 /\ s \in Nat /\ y = w + i - 1 /\ ~ (y < s)
          BY <1>3, <3>0, <3>3, <2>3
        <5> HIDE DEF g, n, w, s, y
        <5> QED
          BY <5>1 DEF Turned
      <4>2. g[y - s] = n - w + (y - s) + 1
        <5>1. RingHolds(s, g, n, w)
          BY <1>2 DEF RingRests
        <5> HIDE DEF g, n, w, s, y
        <5> QED
          BY <4>1, <5>1 DEF RingHolds
      <4> HIDE DEF g, n, w, s
      <4> QED
        BY <3>0, <3>1, <4>1, <4>2
    <3> QED
      BY <3>2, <3>3
  <2> HIDE DEF g, n, w, s
  <2>4. UpTo(n - s, n) = [i \in 1 .. s |-> (n - s) + i]
    <3>1. n - (n - s) = s
      BY <1>0, <1>3
    <3> QED
      BY <3>1 DEF UpTo
  <2>5. Held(l) = UpTo(n - s, n)
    BY <2>2, <2>3, <2>4
  <2>6. Len(Held(l)) = s
    BY <1>0, <2>2
  <2>7. s >= (IF n < Capacity(l) THEN n ELSE Capacity(l)) /\ s <= n
    BY <1>0, <1>3, <1>5
  <2>8. /\ Len(Held(l)) >= IF n < Capacity(l) THEN n ELSE Capacity(l)
        /\ Len(Held(l)) <= n /\ Held(l) = UpTo(n - Len(Held(l)), n)
    BY <2>5, <2>6, <2>7
  <2> QED
    BY <2>8 DEF n
<1> QED
  BY <1>4, <1>5

LEMMA NeverFull ==
    ASSUME LogAssumption, Inv, ContentInv, NEW l \in Flashed, cpu = None, task[TaskOf[l]] = Idle
    PROVE  LOG_DAT[l].count[LOG_DAT[l].kind] < LOG_SECORNUM[l]
<1>1. Phase(l) = "idle" /\ l \in Logs
  BY DEF Phase, Idle, Frame, LogAssumption
<1>2. Store(l, LOG_DAT[l], "idle", accepted[l], req[l], params[l], FltPhase(l), log_mgr[l], flash[l])
  BY <1>1 DEF ContentInv, LogOK, FlashedOK
<1>3. PhaseOK(l, LOG_DAT[l], "idle", req[l], params[l].sramlog_kind, FltPhase(l))
  BY <1>2 DEF Store, BankOK
<1> QED
  BY <1>3 DEF PhaseOK

LEMMA HoldsHold == ASSUME LogAssumption, Inv, ContentInv PROVE StoreHolds
<1>1. ASSUME NEW l \in Logs, Ready(l)
      PROVE  LET n == accepted[l] - InHand(l)
                 k == Len(Held(l)) IN
             /\ k >= IF n < Capacity(l) THEN n ELSE Capacity(l)
             /\ k <= n /\ Held(l) = UpTo(n - k, n)
  <2>1. cpu = None
    BY <1>1 DEF Ready
  <2>2. InHand(l) = 0 /\ accepted[l] \in Nat
    <3>1. InHand(l) = 0
      BY <1>1, <2>1, ReaderRests
    <3>2. l \in Flashed => accepted[l] \in Nat
      <4>1. l \in Flashed => Found(l, LOG_DAT[l], accepted[l], FltPhase(l), log_mgr[l], flash[l], FirstAt(l))
        BY <1>1, ReaderHas
      <4> QED
        BY <4>1 DEF Found
    <3>3. l \notin Flashed => accepted[l] \in Nat
      <4>1. l \notin Flashed => RingOK(l, LOG_DAT[l], Phase(l), accepted[l])
        BY <1>1 DEF ContentInv, LogOK, RamOK
      <4>2. l \notin Flashed => accepted[l] \in 0 .. MaxRecords[l]
        BY <4>1 DEF RingOK
      <4>3. MaxRecords[l] \in Nat
        BY <1>1 DEF LogAssumption
      <4> QED
        BY <4>2, <4>3
    <3> QED
      BY <3>1, <3>2, <3>3
  <2>3. accepted[l] - InHand(l) = accepted[l]
    BY <2>2
  <2>4. /\ Len(Held(l)) >= IF accepted[l] < Capacity(l) THEN accepted[l] ELSE Capacity(l)
        /\ Len(Held(l)) <= accepted[l]
        /\ Held(l) = UpTo(accepted[l] - Len(Held(l)), accepted[l])
    <3>1. CASE l \in Flashed
      BY <1>1, <3>1, FlashedHolds
    <3>2. CASE l \in Ring
      BY <2>1, <3>2, RamHolds
    <3> QED
      BY <1>1, <3>1, <3>2 DEF Ring
  <2> QED
    BY <2>3, <2>4
<1>2. ASSUME NEW l \in Flashed, cpu = None, task[TaskOf[l]] = Idle
      PROVE  LOG_DAT[l].count[LOG_DAT[l].kind] < LOG_SECORNUM[l]
  BY <1>2, NeverFull
<1> QED
  BY <1>1, <1>2 DEF StoreHolds

LEMMA UpToRest ==
    ASSUME NEW a \in Nat, NEW n \in Nat, NEW u \in Nat, a <= n
    PROVE  UpTo(a + u, n) = SubSeq(UpTo(a, n), u + 1, n - a)
<1>1. UpTo(a + u, n) = [i \in 1 .. n - (a + u) |-> (a + u) + i]
  BY DEF UpTo
<1>2. UpTo(a, n) \in Seq(Int) /\ Len(UpTo(a, n)) = n - a /\ \A i \in 1 .. n - a : UpTo(a, n)[i] = a + i
  BY UpToIs
<1> DEFINE S == UpTo(a, n)
<1>3. SubSeq(S, u + 1, n - a) = [i \in 1 .. n - (a + u) |-> S[i + u]]
  <2>1. SubSeq(S, u + 1, n - a) = [i \in 1 .. (1 + (n - a) - (u + 1)) |-> S[i + (u + 1) - 1]]
    BY DEF SubSeq
  <2>2. 1 + (n - a) - (u + 1) = n - (a + u)
    OBVIOUS
  <2>3. \A i \in 1 .. n - (a + u) : i + (u + 1) - 1 = i + u
    OBVIOUS
  <2> HIDE DEF S
  <2> QED
    BY <2>1, <2>2, <2>3
<1>4. ASSUME NEW i \in 1 .. n - (a + u) PROVE S[i + u] = (a + u) + i
  <2>1. i + u \in 1 .. n - a
    BY <1>4
  <2>2. S[i + u] = a + (i + u)
    BY <1>2, <2>1
  <2> HIDE DEF S
  <2> QED
    BY <2>2
<1> HIDE DEF S
<1>5. UpTo(a + u, n) = SubSeq(S, u + 1, n - a)
  BY <1>1, <1>3, <1>4
<1> QED
  BY <1>5 DEF S

LEMMA FlashedUnread ==
    ASSUME LogAssumption, Inv, ContentInv, NEW l \in Flashed, NEW t \in Targets, Ready(l), ~ lapped[l][t]
    PROVE  UpTo(sent[l][t], accepted[l]) = SubSeq(Indexed(l), LOG_DAT[l].unread[t] + 1, Len(Indexed(l)))
<1> DEFINE n == accepted[l]
           a == FirstAt(l)
           u == LOG_DAT[l].unread[t]
           d == sent[l][t]
<1>0. l \in Logs /\ cpu = None
  BY DEF LogAssumption, Ready
<1>1. Indexed(l) = UpTo(a, n) /\ a \in Nat /\ a <= n /\ Len(Indexed(l)) = n - a
  BY ReaderHas
<1>2. /\ SentOK(LOG_SECORNUM[l], u, LOG_DAT[l].void_read[t], n, lapped[l][t], d, a, FltPhase(l)) /\ n \in Nat
      /\ HandedOK(handed[l][t], LOG_DAT[l].void_read[t], lapped[l][t], d)
  BY <1>0, ReaderFinds
<1>3. FltPhase(l) # "unread"
  BY <1>0, ReaderRests
<1>4. u \in Nat /\ d = a + u
  BY <1>1, <1>2, <1>3 DEF SentOK
<1>5. UpTo(a + u, n) = SubSeq(UpTo(a, n), u + 1, n - a)
  <2> HIDE DEF n, a, u
  <2> QED
    BY <1>1, <1>2, <1>4, UpToRest
<1> QED
  BY <1>1, <1>4, <1>5

LEMMA RingUnread ==
    ASSUME LogAssumption, Inv, ContentInv, NEW l \in Ring, NEW t \in Targets, cpu = None, ~ lapped[l][t]
    PROVE  UpTo(sent[l][t], accepted[l]) =
              [i \in 1 .. LOG_DAT[l].f_unread[t] |->
                 LOG_DAT[l].dat[0][(LOG_DAT[l].unread[t] + i - 1) % LOG_SECORNUM[l]]]
<1> DEFINE n == accepted[l]
           s == LOG_SECORNUM[l]
           g == LOG_DAT[l].dat[0]
           w == LOG_DAT[l].wtp
           u == LOG_DAT[l].unread[t]
           f == LOG_DAT[l].f_unread[t]
           v == LOG_DAT[l].void_read[t]
           b == lapped[l][t]
           d == sent[l][t]
<1>0. l \in Logs
  BY DEF Ring
<1>1. RingRests(s, g, n, w) /\ RingSentOK(s, u, f, v, n, b, d, n, w)
  BY <1>0, ReaderFinds
<1>2. /\ u \in 0 .. s - 1 /\ f \in 0 .. s /\ f <= n /\ d = n - f /\ n \in Nat /\ s \in Nat \ {0}
  BY <1>1 DEF RingRests, RingSentOK
<1>3. ASSUME NEW i \in 1 .. f PROVE g[(u + i - 1) % s] = d + i
  <2> DEFINE k == i - 1
  <2>1. k \in 0 .. f - 1 /\ u + i - 1 = u + k /\ u + k \in 0 .. 2 * s - 1 /\ d + k + 1 = d + i
    <3> HIDE DEF u, f, s, n, d
    <3> QED
      BY <1>2, <1>3
  <2> HIDE DEF g, w, u, f, v, d, k, s, n, b
  <2>2. (u + k) % s = Turned(s, u + k)
    BY <1>2, <2>1, RingTurns
  <2>3. ~ b => g[Turned(s, u + k)] = d + k + 1
    BY <1>1, <2>1, RingAt
  <2> QED
    BY <2>1, <2>2, <2>3 DEF b
<1> HIDE DEF g, w, u, f, v, d, s, n, b
<1>4. UpTo(d, n) = [i \in 1 .. f |-> d + i]
  <2>1. n - d = f
    BY <1>2
  <2> QED
    BY <2>1 DEF UpTo
<1>5. UpTo(d, n) = [i \in 1 .. f |-> g[(u + i - 1) % s]]
  BY <1>3, <1>4
<1>6. UpTo(d, n) = [i \in 1 .. f |-> LOG_DAT[l].dat[0][(LOG_DAT[l].unread[t] + i - 1) % LOG_SECORNUM[l]]]
  BY <1>5, Zenon DEF g, u, s
<1> QED
  BY <1>6, Zenon DEF d, n, f

LEMMA UnreadHolds == ASSUME LogAssumption, Inv, ContentInv PROVE UnreadRight
<1>1. ASSUME NEW l \in Logs, NEW t \in Targets, Ready(l), ~ lapped[l][t]
      PROVE  LET n == accepted[l] - InHand(l)
                 u == LOG_DAT[l].unread[t] IN
             UpTo(sent[l][t], n) =
               IF l \in Flashed THEN SubSeq(Indexed(l), u + 1, Len(Indexed(l)))
               ELSE [i \in 1 .. LOG_DAT[l].f_unread[t] |->
                       LOG_DAT[l].dat[0][(u + i - 1) % LOG_SECORNUM[l]]]
  <2>1. cpu = None
    BY <1>1 DEF Ready
  <2>2. InHand(l) = 0 /\ accepted[l] \in Nat
    BY <1>1, <2>1, ReaderRests, ReaderFinds
  <2>3. accepted[l] - InHand(l) = accepted[l]
    BY <2>2
  <2>4. CASE l \in Flashed
    <3>1. UpTo(sent[l][t], accepted[l]) = SubSeq(Indexed(l), LOG_DAT[l].unread[t] + 1, Len(Indexed(l)))
      BY <1>1, <2>4, FlashedUnread
    <3> QED
      BY <2>3, <2>4, <3>1
  <2>5. CASE l \notin Flashed
    <3>1. UpTo(sent[l][t], accepted[l]) =
              [i \in 1 .. LOG_DAT[l].f_unread[t] |->
                 LOG_DAT[l].dat[0][(LOG_DAT[l].unread[t] + i - 1) % LOG_SECORNUM[l]]]
      <4>1. l \in Ring
        BY <1>1, <2>5 DEF Ring
      <4> QED
        BY <1>1, <2>1, <4>1, RingUnread
    <3> QED
      BY <2>3, <2>5, <3>1
  <2> QED
    BY <2>4, <2>5
<1> QED
  BY <1>1 DEF UnreadRight

LEMMA HandedHolds == ASSUME LogAssumption, Inv, ContentInv PROVE HandedInOrder
<1>1. ASSUME NEW l \in Logs, NEW t \in Targets
      PROVE  HandedOK(handed[l][t], LOG_DAT[l].void_read[t], lapped[l][t], sent[l][t])
  <2>1. CASE l \in Flashed
    BY <1>1, <2>1 DEF ContentInv, LogOK, FlashedOK, Sents
  <2>2. CASE l \notin Flashed
    BY <1>1, <2>2 DEF ContentInv, LogOK, RamOK, RingSents
  <2> QED
    BY <2>1, <2>2
<1> QED
  BY <1>1 DEF HandedInOrder, HandedOK

\* Log_Write, the flash task and the readers (logctrl2.c, flatask.c, logctrl.c)
\* keep the contents of every log, whatever the number and sizes of the logs
\* and the interleaving of the tasks: ContentInv is inductive.
THEOREM ContentsKept == ASSUME NoCuts PROVE Spec => [](Inv /\ ContentInv)
<1> USE LogAssumption
<1>1. Init => Inv /\ ContentInv
  BY InitHolds, ContentInit
<1>2. Inv /\ ContentInv /\ [Next]_vars => Inv' /\ ContentInv'
  BY NextKeeps, ContentNext
<1> QED
  BY <1>1, <1>2, PTL DEF Spec

\* The counts, pointers and indexes of a log stay in their ranges: no bank is
\* written behind its end, and no reader's index goes past the last record.
THEOREM LogTypes == ASSUME NoCuts PROVE Spec => []TypeOK
<1> USE LogAssumption
<1>1. Spec => [](Inv /\ ContentInv)
  BY ContentsKept
<1>2. Inv /\ ContentInv => TypeOK
  BY TypesHold
<1> QED
  BY <1>1, <1>2, PTL

\* A log that can be read holds the newest records, each once and in order, as
\* many as its sectors and banks (or its ring) have room for; and Log_Write
\* never finds its bank full, however long the flash task takes.
THEOREM LogsHold == ASSUME NoCuts PROVE Spec => []StoreHolds
<1> USE LogAssumption
<1>1. Spec => [](Inv /\ ContentInv)
  BY ContentsKept
<1>2. Inv /\ ContentInv => StoreHolds
  BY HoldsHold
<1> QED
  BY <1>1, <1>2, PTL

\* A reader whose unsent records were not overwritten finds exactly those, in
\* order, at the index the log keeps for it, while the flash task recycles
\* sectors and the ring turns.
THEOREM ReadersFindUnread == ASSUME NoCuts PROVE Spec => []UnreadRight
<1> USE LogAssumption
<1>1. Spec => [](Inv /\ ContentInv)
  BY ContentsKept
<1>2. Inv /\ ContentInv => UnreadRight
  BY UnreadHolds
<1> QED
  BY <1>1, <1>2, PTL

\* What Ope_Log_TargetDataVoidRead handed to a transmission follows what the
\* reader has sent, with nothing left out, so that confirming it confirms just
\* those records.
THEOREM HandedFollowsSent == ASSUME NoCuts PROVE Spec => []HandedInOrder
<1> USE LogAssumption
<1>1. Spec => [](Inv /\ ContentInv)
  BY ContentsKept
<1>2. Inv /\ ContentInv => HandedInOrder
  BY HandedHolds
<1> QED
  BY <1>1, <1>2, PTL

=============================================================================
