---------------------------- MODULE LogBankProofs ----------------------------
(***************************************************************************)
(* What one log keeps while records are written to it, read and moved to   *)
(* flash, for every number and size of logs, as long as no power cut comes *)
(* between (NoCuts).                                                       *)
(*                                                                         *)
(* LogOK says what a log holds at each place of the task that writes to it *)
(* and of the flash task: which records lie in its two banks, in its       *)
(* sectors and in the sector being written, which of them the sending has  *)
(* reached, and that Store is these put together.  The lemmas of this      *)
(* module take one log and the steps of Log_Write, of the flash task and   *)
(* of the readers; LogContentProofs makes the invariant of the state from  *)
(* them.                                                                   *)
(***************************************************************************)
EXTENDS LogStoreProofs

-----------------------------------------------------------------------------
\* How far Log_Write has come with a log, and the flash task.
Phase(l)    == IF task[TaskOf[l]].Lno = l THEN task[TaskOf[l]].pc ELSE "idle"
FltPhase(l) == IF flt.log = l THEN flt.pc ELSE "idle"

\* Where the record is counted in accepted and not yet in its bank; where the
\* oldest sector is being replaced, the new one is written, is known to the
\* readers, and its bank is empty.
Before   == {"accept", "wait10", "copy", "unread", "f2", "count"}
Copied   == {"verify", "fcount", "f3", "info", "f40", "f41", "secttop", "sectnum"}
Replaced == {"write"} \cup Copied
Absorbed == {"unread", "count", "f0", "unlock"}
Counted  == {"f0", "unlock"}

-----------------------------------------------------------------------------
(* A log with flash sectors: r is its log_record, p the place of its task,  *)
(* n the records accepted, q whether a write is asked for and of which bank *)
(* k, j the place of the flash task.                                        *)

Fill(r, p) == r.count[r.kind] + IF p \in Before THEN 1 ELSE 0

\* How many records come before the bank asked for, and before the bank in use
\* or, while they are not in flash, before the one asked for.
AskedFrom(l, r, p, n, k) == n - LOG_SECORNUM[l] - IF k = r.kind THEN 0 ELSE Fill(r, p)
Stored(l, r, p, n, q, k, j) ==
    IF q THEN AskedFrom(l, r, p, n, k) + IF j \in Absorbed THEN LOG_SECORNUM[l] ELSE 0
    ELSE n - Fill(r, p)

Back(l, i) == i * LOG_SECORNUM[l]
Block(l, from) == [i \in 0 .. LOG_SECORNUM[l] - 1 |-> from + i + 1]
Sec(l, m, i) == (m.secttop + i) % sectmax[l]

\* count and wtp of the bank in use at every place of Log_Write.
PhaseOK(l, r, p, q, k, j) ==
    LET s == LOG_SECORNUM[l]
        c == r.count[r.kind] IN
    /\ c \in 0 .. s /\ r.wtp \in 0 .. s
    /\ p \in {"idle", "accept", "wait10", "copy", "f2", "count", "f3", "wtp", "f4", "f30", "wait30",
              "request", "f31", "toggle", "f321", "clear", "f323", "wait31", "clear31", "f311", "end"}
    /\ p \in {"idle", "accept", "wait10", "copy", "f2", "count", "f4", "end"} => c < s /\ r.wtp = c
    /\ p = "f3" => c > 0 /\ r.wtp = c - 1
    /\ p = "wtp" => c > 0 /\ c < s /\ r.wtp = c - 1
    /\ p \in {"f30", "wait30", "request", "f31", "toggle"} => c = s /\ r.wtp = s - 1
    /\ p \in {"f321", "clear", "clear31"} => c = 0 /\ r.wtp = s - 1
    /\ p = "wait31" => c = (IF q /\ j \notin Counted THEN s ELSE 0) /\ r.wtp = s - 1
    /\ p \in {"f323", "f311"} => c = 0 /\ r.wtp = 0
    /\ l \in OneBank => p \notin {"wtp", "f4", "toggle", "f321", "clear", "f323"}
    /\ l \notin OneBank => p \notin {"wait10", "wait31", "clear31", "f311"}
    /\ p = "request" => ~ q
    /\ p \in {"f31", "toggle"} => q /\ k = r.kind /\ j = "idle"
    /\ q /\ k = r.kind => p \in {"f31", IF l \in OneBank THEN "wait31" ELSE "toggle"}
    /\ q /\ l \in OneBank => k = r.kind
    /\ j # "idle" => q

\* The bank in use holds the newest records; the other one is empty or asked for.
DatOK(l, r, p, n) ==
    \A i \in 0 .. LOG_SECORNUM[l] - 1 :
        i < r.count[r.kind] \/ (i = r.count[r.kind] /\ p \in {"f2", "count"}) =>
            r.dat[r.kind][i] = n - Fill(r, p) + i + 1
OtherOK(r, q, k, j) == r.count[1 - r.kind] = 0 \/ (q /\ k # r.kind /\ j \notin Counted)

BankOK(l, r, p, n, q, k, j) ==
    /\ IsLog(r)
    /\ r.count \in [{0, 1} -> 0 .. LOG_SECORNUM[l]]
    /\ r.dat \in [{0, 1} -> Bank(l)]
    /\ n \in 0 .. MaxRecords[l]
    /\ PhaseOK(l, r, p, q, k, j)
    /\ DatOK(l, r, p, n)
    /\ OtherOK(r, q, k, j)

\* The bank asked for.
AskedOK(l, r, par, q, from) ==
    q => par.record_num = LOG_SECORNUM[l] /\ r.dat[par.sramlog_kind] = Block(l, from)

\* The sectors, counted from the newest: full blocks of the records up to `to';
\* the oldest of all is not looked at while it is replaced.
SectorsOK(l, m, f, j, to) ==
    /\ m = [secttop |-> m.secttop, sectnum |-> m.sectnum, record_num |-> m.record_num]
    /\ m.record_num = [s \in Sectors(l) |-> m.record_num[s]] /\ f = [s \in Sectors(l) |-> f[s]]
    /\ m.secttop \in Sectors(l) /\ m.sectnum \in 0 .. sectmax[l]
    /\ to >= Back(l, m.sectnum) /\ (m.sectnum < sectmax[l] => to = Back(l, m.sectnum))
    /\ \A i \in 1 .. m.sectnum :
         i < sectmax[l] \/ j \notin Replaced =>
            /\ f[Sec(l, m, m.sectnum - i)] = Block(l, to - Back(l, i))
            /\ m.record_num[Sec(l, m, m.sectnum - i)] = LOG_SECORNUM[l]

\* The sector being written.
JobOK(l, m, f, par, j, from) ==
    /\ j \in {"idle", "sector", "erase"} \cup Replaced \cup Absorbed
    /\ j \in {"erase"} \cup Replaced => par.get_sector = Sec(l, m, m.sectnum)
    /\ j \in Copied => f[par.get_sector] = Block(l, from)
    /\ j \in {"f40", "f41", "secttop", "sectnum"} => m.record_num[par.get_sector] = LOG_SECORNUM[l]
    /\ j \in {"f40", "secttop", "unread"} => m.sectnum = sectmax[l]
    /\ j \in {"f41", "sectnum"} => m.sectnum < sectmax[l]

\* What a target has read, of a log whose first record in flash follows first.
SentOK(s, u, v, n, lost, done, first, j) ==
    /\ u \in Nat /\ v \in Nat /\ u + v <= n
    /\ ~ lost => done = first + u - IF j = "unread" THEN s ELSE 0

-----------------------------------------------------------------------------
(* A ring. *)

\* Records placed in the ring, and where the next one goes; records counted
\* for the readers, and where the next of those goes.
RingMid == {"unread", "f2", "count", "f3", "wtp", "cap", "f40", "step"}
Placed(p, n)   == IF p \in {"accept", "copy"} THEN n - 1 ELSE n
Place(p, wtp)  == IF p \in RingMid THEN wtp + 1 ELSE wtp
Shown(p, n)    == IF p \in {"accept", "copy", "unread"} THEN n - 1 ELSE n
ShownTo(p, wtp) == IF p \in RingMid \ {"unread"} THEN wtp + 1 ELSE wtp
Least(m, n)    == IF m < n THEN m ELSE n

\* A ring that has taken q records and takes the next one at place x.
RingHolds(s, d, q, x) ==
    \A i \in 0 .. s - 1 :
        /\ i < x => d[i] = q - x + i + 1
        /\ i >= x /\ q >= s => d[i] = q - s - x + i + 1

RingPhaseOK(s, p, c, wtp, n) ==
    /\ c \in 0 .. s + 1 /\ wtp \in 0 .. s
    /\ p \in {"idle", "accept", "copy", "end", "f4", "f41", "f42", "rewind", "f43", "f44", "oldest"} \cup RingMid
    /\ p \in {"accept", "copy", "unread", "f2", "count"} => c = Least(n - 1, s)
    /\ p = "f3" => c = Least(n - 1, s) + 1
    /\ p \in {"wtp", "f4"} => c = n /\ n < s
    /\ p \in {"cap", "f40", "step", "f41", "f42", "rewind", "f43", "f44", "oldest"} => n >= s
    /\ p \in {"f40", "step", "f41", "f42", "rewind", "f43", "f44", "oldest"} => c = s
    /\ p \in {"idle", "end"} => c = Least(n, s)
    /\ p \in {"accept", "copy"} \cup RingMid => n > 0 /\ wtp < s /\ (n - 1 < s => wtp = n - 1)
    /\ p \in {"idle", "end", "f4"} => wtp < s /\ (n < s => wtp = n)
    /\ p \in {"f42", "rewind"} => wtp = s
    /\ p \in {"f44", "oldest"} => wtp < s
    /\ p = "f43" => wtp = 0

RingOK(l, r, p, n) ==
    /\ IsLog(r) /\ r.kind = 0
    /\ r.count = [k \in {0, 1} |-> r.count[k]] /\ r.count[1] = 0
    /\ r.dat \in [{0, 1} -> Bank(l)]
    /\ n \in 0 .. MaxRecords[l]
    /\ RingPhaseOK(LOG_SECORNUM[l], p, r.count[0], r.wtp, n)
    /\ RingHolds(LOG_SECORNUM[l], r.dat[0], Placed(p, n), Place(p, r.wtp))

\* What a target has read of a ring: f unread records from place u on.
RingSentOK(s, u, f, v, n, lost, done, shown, to) ==
    /\ u \in 0 .. s - 1 /\ f \in 0 .. s /\ f <= shown /\ v \in 0 .. f
    /\ lost => n > s
    /\ ~ lost => /\ done = shown - f
                 /\ u + f = to \/ (u + f = to + s /\ shown >= s)

HandedOK(h, v, lost, done) == ~ lost => h = UpTo(done, done + v)

-----------------------------------------------------------------------------
(* The invariant. *)

\* A log with flash sectors, and its readers.
Store(l, r, p, n, q, par, j, m, f) ==
    LET from == AskedFrom(l, r, p, n, par.sramlog_kind)
        to   == Stored(l, r, p, n, q, par.sramlog_kind, j) IN
    /\ BankOK(l, r, p, n, q, par.sramlog_kind, j)
    /\ AskedOK(l, r, par, q, from)
    /\ SectorsOK(l, m, f, j, to)
    /\ JobOK(l, m, f, par, j, from)
    /\ r.Fcount \in 0 .. sectmax[l]

First(l, r, p, n, q, par, j, m) == Stored(l, r, p, n, q, par.sramlog_kind, j) - Back(l, m.sectnum)
Sents(l, r, n, first, j, hand, done, lost) ==
    \A t \in Targets :
        /\ HandedOK(hand[t], r.void_read[t], lost[t], done[t])
        /\ SentOK(LOG_SECORNUM[l], r.unread[t], r.void_read[t], n, lost[t], done[t], first, j)

RingSents(l, r, p, n, hand, done, lost) ==
    \A t \in Targets :
        /\ HandedOK(hand[t], r.void_read[t], lost[t], done[t])
        /\ RingSentOK(LOG_SECORNUM[l], r.unread[t], r.f_unread[t], r.void_read[t], n, lost[t], done[t],
                      Shown(p, n), ShownTo(p, r.wtp))

ByTarget(f) == f = [t \in Targets |-> f[t]]
ReadersShape(r, hand, done, lost) ==
    /\ ByTarget(r.unread) /\ ByTarget(r.f_unread) /\ ByTarget(r.void_read)
    /\ ByTarget(hand) /\ ByTarget(done) /\ ByTarget(lost)

FlashedOK(l, r, p, n, q, par, j, m, f, hand, done, lost) ==
    /\ Store(l, r, p, n, q, par, j, m, f)
    /\ Sents(l, r, n, First(l, r, p, n, q, par, j, m), j, hand, done, lost)
    /\ ReadersShape(r, hand, done, lost)

RamOK(l, r, p, n, hand, done, lost) ==
    /\ RingOK(l, r, p, n)
    /\ RingSents(l, r, p, n, hand, done, lost)
    /\ ReadersShape(r, hand, done, lost)

LogOK(l) ==
    IF l \in Flashed
    THEN FlashedOK(l, LOG_DAT[l], Phase(l), accepted[l], req[l], params[l], FltPhase(l), log_mgr[l],
                   flash[l], handed[l], sent[l], lapped[l])
    ELSE RamOK(l, LOG_DAT[l], Phase(l), accepted[l], handed[l], sent[l], lapped[l])

\* Who may run: a task stays in Log_Write only to wait for the flash task, and
\* the flash task yields only while it waits for the chip.
Codes == {0, 1, 2, 3, 4, 10, 20, 30, 31, 311, 321, 323, 40, 41, 42, 43, 44}
TurnOK ==
    /\ cuts = 0 /\ task[Boot] = Idle /\ flt.by = FLT
    /\ cpu \in Tasks \cup {FLT, None}
    /\ cpu \in Tasks => task[cpu].pc # "idle"
    /\ \A w \in Tasks : w # cpu => \/ task[w].pc = "idle" \/ task[w].pc = "wait31"
                                   \/ task[w].pc = "wait30" /\ Lno(w) \notin OneBank
    /\ \A w \in Tasks : task[w].pc # "idle" => /\ task[w].dat = accepted[Lno(w)]
                                               /\ Lno(w) \notin Flashed => Kind(w) = 0
    /\ cpu = FLT => flt.pc # "idle"
    /\ cpu # FLT => flt.pc \in {"idle", "write", "verify"}
    /\ flt.pc # "idle" => flt.log \in Flashed /\ req[flt.log]
    /\ log_bakup.f_recover \in Codes

HistoryShape ==
    /\ accepted = [l \in Logs |-> accepted[l]] /\ handed = [l \in Logs |-> handed[l]]
    /\ sent = [l \in Logs |-> sent[l]] /\ lapped = [l \in Logs |-> lapped[l]]
    /\ log_mgr = [l \in Flashed |-> log_mgr[l]] /\ flash = [l \in Flashed |-> flash[l]]

ContentInv == TurnOK /\ HistoryShape /\ \A l \in Logs : LogOK(l)

-----------------------------------------------------------------------------
(* What the steps of Log_Write do to the bank in use. *)

Same(x, y) == x = y

LEMMA FillIs ==
    ASSUME LogAssumption, NEW l \in Flashed, NEW r, NEW p, NEW n, NEW q, NEW k, NEW j, BankOK(l, r, p, n, q, k, j)
    PROVE  /\ Fill(r, p) \in Int /\ r.kind \in {0, 1} /\ n \in Nat /\ LOG_SECORNUM[l] \in Nat \ {0}
           /\ r.count[r.kind] \in Nat /\ 1 - r.kind \in {0, 1} /\ 1 - r.kind # r.kind
           /\ Fill(r, p) = IF p \in Before THEN r.count[r.kind] + 1 ELSE r.count[r.kind]
<1>1. l \in Logs /\ LOG_SECORNUM[l] \in Nat \ {0} /\ MaxRecords[l] \in Nat
  BY DEF LogAssumption
<1>2. r.kind \in {0, 1} /\ n \in Nat /\ r.count[r.kind] \in Nat
  BY <1>1 DEF BankOK, IsLog
<1>3. 1 - r.kind \in {0, 1} /\ 1 - r.kind # r.kind
  BY <1>2
<1> QED
  BY <1>1, <1>2, <1>3 DEF Fill

\* A step that leaves the record as it is.
LEMMA BankGoes ==
    ASSUME LogAssumption, NEW l \in Flashed, NEW r, NEW p, NEW p2, NEW n, NEW q, NEW k, NEW j,
           BankOK(l, r, p, n, q, k, j),
           PhaseOK(l, r, p2, q, k, j),
           p2 \in Before <=> p \in Before,
           p2 \in {"f2", "count"} => p \in {"f2", "count"}
    PROVE  /\ BankOK(l, r, p2, n, q, k, j)
           /\ Fill(r, p2) = Fill(r, p)
<1>1. Fill(r, p2) = Fill(r, p)
  BY DEF Fill
<1>2. DatOK(l, r, p2, n)
  BY <1>1 DEF BankOK, DatOK
<1> QED
  BY <1>1, <1>2 DEF BankOK

\* The marks, and the first and the last step.
MarkTo(l, r, p, p2) ==
    \/ p = "accept" /\ p2 = IF l \in OneBank THEN "wait10" ELSE "copy"
    \/ p = "f2" /\ p2 = "count"
    \/ p = "f3" /\ p2 = IF r.count[r.kind] >= LOG_SECORNUM[l] THEN "f30" ELSE "wtp"
    \/ p \in {"f4", "f311", "f323"} /\ p2 = "end"
    \/ p = "f30" /\ p2 = "wait30"
    \/ p = "f31" /\ p2 = IF l \in OneBank THEN "wait31" ELSE "toggle"
    \/ p = "f321" /\ p2 = "clear"
    \/ p = "end" /\ p2 = "idle"

LEMMA BankMark ==
    ASSUME LogAssumption, NEW l \in Flashed, NEW r, NEW p, NEW n, NEW q, NEW k, NEW j, NEW p2,
           BankOK(l, r, p, n, q, k, j),
           MarkTo(l, r, p, p2)
    PROVE  BankOK(l, r, p2, n, q, k, j) /\ Same(Fill(r, p2), Fill(r, p))
<1>1. PhaseOK(l, r, p, q, k, j)
  BY DEF BankOK
<1>2. LOG_SECORNUM[l] \in Nat \ {0} /\ (l \in OneBank => LOG_SECORNUM[l] = 1) /\ r.count[r.kind] \in Nat
  BY FillIs DEF LogAssumption
<1>3. PhaseOK(l, r, p2, q, k, j)
  <2>1. CASE p = "f2" /\ p2 = "count"
    BY <1>1, <1>2, <2>1 DEF PhaseOK
  <2>2. CASE p = "f3" /\ p2 = IF r.count[r.kind] >= LOG_SECORNUM[l] THEN "f30" ELSE "wtp"
    BY <1>1, <1>2, <2>2 DEF PhaseOK
  <2>3. CASE p \in {"f4", "f311", "f323"} /\ p2 = "end"
    BY <1>1, <1>2, <2>3 DEF PhaseOK
  <2>4. CASE p = "f30" /\ p2 = "wait30"
    BY <1>1, <1>2, <2>4 DEF PhaseOK
  <2>5. CASE p = "f31" /\ p2 = IF l \in OneBank THEN "wait31" ELSE "toggle"
    BY <1>1, <1>2, <2>5 DEF PhaseOK, Counted
  <2>6. CASE p = "f321" /\ p2 = "clear"
    BY <1>1, <1>2, <2>6 DEF PhaseOK
  <2>7. CASE p = "end" /\ p2 = "idle"
    BY <1>1, <1>2, <2>7 DEF PhaseOK
  <2>8. CASE p = "accept" /\ p2 = IF l \in OneBank THEN "wait10" ELSE "copy"
    BY <1>1, <1>2, <2>8 DEF PhaseOK
  <2> QED
    BY <2>1, <2>2, <2>3, <2>4, <2>5, <2>6, <2>7, <2>8 DEF MarkTo
<1>4. (p2 \in Before <=> p \in Before) /\ (p2 \in {"f2", "count"} => p \in {"f2", "count"})
  BY DEF Before, MarkTo
<1> QED
  BY <1>3, <1>4, BankGoes DEF Same

Waited(p, p2, q) ==
    /\ ~ q
    /\ \/ p = "wait10" /\ p2 = "copy"
       \/ p = "wait30" /\ p2 = "request"
       \/ p = "wait31" /\ p2 = "clear31"

LEMMA BankWaited ==
    ASSUME LogAssumption, NEW l \in Flashed, NEW r, NEW p, NEW n, NEW q, NEW k, NEW j, NEW p2,
           BankOK(l, r, p, n, q, k, j),
           Waited(p, p2, q)
    PROVE  BankOK(l, r, p2, n, q, k, j) /\ Same(Fill(r, p2), Fill(r, p))
<1>1. PhaseOK(l, r, p, q, k, j)
  BY DEF BankOK
<1>2. LOG_SECORNUM[l] \in Nat \ {0} /\ r.count[r.kind] \in Nat
  BY FillIs
<1>3. PhaseOK(l, r, p2, q, k, j)
  BY <1>1, <1>2 DEF PhaseOK, Waited
<1>4. (p2 \in Before <=> p \in Before) /\ (p2 \in {"f2", "count"} => p \in {"f2", "count"})
  BY DEF Before, Waited
<1> QED
  BY <1>3, <1>4, BankGoes DEF Same

CopyOf(r, n, x) ==
    /\ IsLog(x) /\ x.kind = r.kind /\ x.count = r.count /\ x.wtp = r.wtp /\ x.Fcount = r.Fcount
    /\ x.dat = [r.dat EXCEPT ![r.kind] = [@ EXCEPT ![r.wtp] = n]]

LEMMA BankCopy ==
    ASSUME LogAssumption, NEW l \in Flashed, NEW r, NEW n, NEW q, NEW k, NEW j, BankOK(l, r, "copy", n, q, k, j),
           NEW x, CopyOf(r, n, x)
    PROVE  /\ BankOK(l, x, "f2", n, q, k, j) /\ Same(Fill(x, "f2"), Fill(r, "copy"))
           /\ Same(x.dat[1 - r.kind], r.dat[1 - r.kind])
<1> USE DEF CopyOf, Same
<1>1. PhaseOK(l, r, "copy", q, k, j) /\ DatOK(l, r, "copy", n) /\ OtherOK(r, q, k, j)
      /\ r.count \in [{0, 1} -> 0 .. LOG_SECORNUM[l]] /\ r.dat \in [{0, 1} -> Bank(l)] /\ n \in 0 .. MaxRecords[l]
  BY DEF BankOK
<1> DEFINE c == r.count[r.kind]
<1>2. /\ LOG_SECORNUM[l] \in Nat \ {0} /\ c \in Nat /\ r.kind \in {0, 1}
      /\ n \in Nat /\ 1 - r.kind \in {0, 1} /\ 1 - r.kind # r.kind
  BY FillIs
<1>3. Fill(r, "copy") = c + 1 /\ Fill(x, "f2") = c + 1
  BY DEF Fill, Before
<1>4. r.wtp = r.count[r.kind] /\ r.wtp \in 0 .. LOG_SECORNUM[l] - 1
  BY <1>1, <1>2 DEF PhaseOK
<1>5. /\ r.dat[r.kind] \in Bank(l) /\ r.dat[1 - r.kind] \in Bank(l)
      /\ x.dat[r.kind] = [r.dat[r.kind] EXCEPT ![r.wtp] = n]
      /\ x.dat[1 - r.kind] = r.dat[1 - r.kind] /\ x.dat = [i \in {0, 1} |-> x.dat[i]]
  <2>1. r.dat[r.kind] \in Bank(l) /\ r.dat[1 - r.kind] \in Bank(l)
    BY <1>1, <1>2
  <2>2. \A i \in {0, 1} : x.dat[i] = IF i = r.kind THEN [r.dat[r.kind] EXCEPT ![r.wtp] = n] ELSE r.dat[i]
    BY <1>1
  <2>3. x.dat = [i \in {0, 1} |-> x.dat[i]]
    BY DEF IsLog
  <2> QED
    BY <1>2, <2>1, <2>2, <2>3
<1>6. x.dat[r.kind] \in Bank(l) /\ \A i \in 0 .. LOG_SECORNUM[l] - 1 : x.dat[r.kind][i] = IF i = r.wtp THEN n ELSE r.dat[r.kind][i]
  <2> DEFINE d == r.dat[r.kind]
             e == x.dat[r.kind]
  <2>1. d \in Bank(l) /\ e = [d EXCEPT ![r.wtp] = n]
    BY <1>5
  <2> HIDE DEF d, e
  <2>2. e \in Bank(l) /\ \A i \in 0 .. LOG_SECORNUM[l] - 1 : e[i] = IF i = r.wtp THEN n ELSE d[i]
    BY <2>1, <1>1, <1>4 DEF Bank
  <2> QED
    BY <2>2 DEF d, e
<1>7. x.dat \in [{0, 1} -> Bank(l)]
  <2>1. x.dat[0] \in Bank(l) /\ x.dat[1] \in Bank(l)
    BY <1>2, <1>5, <1>6
  <2> QED
    BY <2>1, <1>5
<1>8. DatOK(l, x, "f2", n)
  <2> DEFINE d == r.dat[r.kind]
             e == x.dat[r.kind]
  <2>1. \A i \in 0 .. LOG_SECORNUM[l] - 1 : e[i] = IF i = c THEN n ELSE d[i]
    BY <1>4, <1>6
  <2>2. \A i \in 0 .. LOG_SECORNUM[l] - 1 : i < c => d[i] = n - (c + 1) + i + 1
    BY <1>1, <1>3 DEF DatOK
  <2> HIDE DEF c, d, e
  <2>3. \A i \in 0 .. LOG_SECORNUM[l] - 1 : i < c \/ i = c => e[i] = n - (c + 1) + i + 1
    <3> SUFFICES ASSUME NEW i \in 0 .. LOG_SECORNUM[l] - 1, i < c \/ i = c
                 PROVE  e[i] = n - (c + 1) + i + 1
      OBVIOUS
    <3>2. n - (c + 1) + c + 1 = n
      BY <1>2
    <3> QED
      BY <2>1, <2>2, <3>2, <1>2
  <2> QED
    BY <2>3, <1>3 DEF DatOK, c, d, e
<1>9. PhaseOK(l, x, "f2", q, k, j)
  BY <1>1, <1>2, <1>4 DEF PhaseOK
<1>10. OtherOK(x, q, k, j)
  BY <1>1 DEF OtherOK
<1> QED
  BY <1>1, <1>3, <1>5, <1>7, <1>8, <1>9, <1>10 DEF BankOK

CountOf(r, x) ==
    /\ IsLog(x) /\ x.kind = r.kind /\ x.wtp = r.wtp /\ x.dat = r.dat /\ x.Fcount = r.Fcount
    /\ x.count = [r.count EXCEPT ![r.kind] = @ + 1]

LEMMA BankCount ==
    ASSUME LogAssumption, NEW l \in Flashed, NEW r, NEW n, NEW q, NEW k, NEW j, BankOK(l, r, "count", n, q, k, j),
           NEW x, CountOf(r, x)
    PROVE  BankOK(l, x, "f3", n, q, k, j) /\ Same(Fill(x, "f3"), Fill(r, "count"))
<1> USE DEF CountOf, Same
<1>1. PhaseOK(l, r, "count", q, k, j) /\ DatOK(l, r, "count", n) /\ OtherOK(r, q, k, j)
      /\ r.count \in [{0, 1} -> 0 .. LOG_SECORNUM[l]] /\ r.dat \in [{0, 1} -> Bank(l)] /\ n \in 0 .. MaxRecords[l]
  BY DEF BankOK
<1>2. /\ LOG_SECORNUM[l] \in Nat \ {0} /\ r.count[r.kind] \in Nat /\ r.kind \in {0, 1}
      /\ n \in Nat /\ Fill(r, "count") = r.count[r.kind] + 1
  BY FillIs DEF Before
<1>3. r.wtp = r.count[r.kind] /\ r.count[r.kind] < LOG_SECORNUM[l] /\ 1 - r.kind \in {0, 1} /\ 1 - r.kind # r.kind
  BY <1>1, FillIs DEF PhaseOK
<1>4. /\ x.count[r.kind] = r.count[r.kind] + 1 /\ x.count[1 - r.kind] = r.count[1 - r.kind]
      /\ x.count \in [{0, 1} -> 0 .. LOG_SECORNUM[l]]
  <2>1. r.count[r.kind] + 1 \in 0 .. LOG_SECORNUM[l]
    BY <1>2, <1>3
  <2> HIDE DEF Fill
  <2> QED
    BY <2>1, <1>1, <1>2, <1>3
<1>5. Fill(x, "f3") = r.count[r.kind] + 1
  BY <1>4, <1>2 DEF Fill, Before
<1>6. DatOK(l, x, "f3", n)
  <2> SUFFICES ASSUME NEW i \in 0 .. LOG_SECORNUM[l] - 1, i < x.count[x.kind]
               PROVE  x.dat[x.kind][i] = n - Fill(x, "f3") + i + 1
    BY DEF DatOK
  <2> DEFINE c == r.count[r.kind]
  <2>1. x.kind = r.kind /\ x.dat = r.dat /\ x.count[x.kind] = c + 1
    BY <1>4
  <2>2. Fill(x, "f3") = Fill(r, "count")
    BY <1>2, <1>5, Zenon
  <2>3. c \in Nat /\ i \in Int /\ i < c + 1
    BY <1>2, <2>1
  <2> HIDE DEF c
  <2>4. i < c \/ i = c
    BY <2>3
  <2>5. r.dat[r.kind][i] = n - Fill(r, "count") + i + 1
    <3> HIDE DEF Fill
    <3> QED
      BY <1>1, <2>4 DEF DatOK, c
  <2> QED
    BY <2>1, <2>2, <2>5, Zenon
<1>7. PhaseOK(l, x, "f3", q, k, j)
  <2> DEFINE c == r.count[r.kind]
  <2>0. x.wtp = c /\ x.count[x.kind] = c + 1 /\ c \in Nat /\ c < LOG_SECORNUM[l]
    BY <1>2, <1>3, <1>4
  <2> HIDE DEF c
  <2>00. c + 1 \in 0 .. LOG_SECORNUM[l] /\ c + 1 > 0 /\ c = (c + 1) - 1
    BY <2>0, <1>2
  <2>1. x.count[x.kind] \in 0 .. LOG_SECORNUM[l] /\ x.count[x.kind] > 0 /\ x.wtp = x.count[x.kind] - 1
    BY <2>0, <2>00, Zenon
  <2>2. x.wtp \in 0 .. LOG_SECORNUM[l]
    BY <1>2, <1>3
  <2> QED
    BY <1>1, <2>1, <2>2 DEF PhaseOK
<1>8. OtherOK(x, q, k, j)
  BY <1>1, <1>4 DEF OtherOK
<1> QED
  BY <1>1, <1>2, <1>4, <1>5, <1>6, <1>7, <1>8 DEF BankOK

AdvanceOf(r, x) ==
    /\ IsLog(x) /\ x.kind = r.kind /\ x.count = r.count /\ x.dat = r.dat /\ x.Fcount = r.Fcount
    /\ x.wtp = r.wtp + 1

LEMMA BankAdvance ==
    ASSUME LogAssumption, NEW l \in Flashed, NEW r, NEW n, NEW q, NEW k, NEW j, BankOK(l, r, "wtp", n, q, k, j),
           NEW x, AdvanceOf(r, x)
    PROVE  BankOK(l, x, "f4", n, q, k, j) /\ Same(Fill(x, "f4"), Fill(r, "wtp"))
<1> USE DEF AdvanceOf, Same
<1>1. PhaseOK(l, r, "wtp", q, k, j) /\ DatOK(l, r, "wtp", n) /\ OtherOK(r, q, k, j)
      /\ r.count \in [{0, 1} -> 0 .. LOG_SECORNUM[l]] /\ r.dat \in [{0, 1} -> Bank(l)] /\ n \in 0 .. MaxRecords[l]
  BY DEF BankOK
<1>2. LOG_SECORNUM[l] \in Nat \ {0} /\ r.count[r.kind] \in Nat
  BY FillIs
<1>3. Fill(x, "f4") = Fill(r, "wtp")
  BY DEF Fill, Before
<1>4. DatOK(l, x, "f4", n)
  BY <1>1, <1>3 DEF DatOK
<1>5. PhaseOK(l, x, "f4", q, k, j)
  <2>1. x.count[x.kind] = r.count[r.kind] /\ x.wtp = r.count[r.kind] /\ r.count[r.kind] < LOG_SECORNUM[l]
    BY <1>1, <1>2 DEF PhaseOK
  <2> QED
    BY <1>1, <1>2, <2>1 DEF PhaseOK
<1>6. OtherOK(x, q, k, j)
  BY <1>1 DEF OtherOK
<1> QED
  BY <1>1, <1>3, <1>4, <1>5, <1>6 DEF BankOK

ClearOf(r, x) ==
    /\ IsLog(x) /\ x.kind = r.kind /\ x.dat = r.dat /\ x.Fcount = r.Fcount
    /\ x.count = [r.count EXCEPT ![r.kind] = 0] /\ x.wtp = 0
ClearTo(p, p2) == (p = "clear" /\ p2 = "f323") \/ (p = "clear31" /\ p2 = "f311")

LEMMA BankClear ==
    ASSUME LogAssumption, NEW l \in Flashed, NEW r, NEW p, NEW n, NEW q, NEW k, NEW j, NEW p2, BankOK(l, r, p, n, q, k, j),
           ClearTo(p, p2), NEW x, ClearOf(r, x)
    PROVE  BankOK(l, x, p2, n, q, k, j) /\ Same(Fill(x, p2), Fill(r, p))
<1> USE DEF ClearOf, ClearTo, Same
<1>1. PhaseOK(l, r, p, q, k, j) /\ DatOK(l, r, p, n) /\ OtherOK(r, q, k, j)
      /\ r.count \in [{0, 1} -> 0 .. LOG_SECORNUM[l]] /\ r.dat \in [{0, 1} -> Bank(l)] /\ n \in 0 .. MaxRecords[l]
  BY DEF BankOK
<1>2. LOG_SECORNUM[l] \in Nat \ {0} /\ r.count[r.kind] \in Nat /\ r.kind \in {0, 1}
  BY FillIs
<1>3. r.count[r.kind] = 0
  BY <1>1 DEF PhaseOK
<1>4. x.count = r.count
  <2> DEFINE c == r.count
             i == r.kind
  <2>1. c \in [{0, 1} -> 0 .. LOG_SECORNUM[l]] /\ i \in {0, 1} /\ c[i] = 0
    BY <1>1, <1>2, <1>3
  <2> HIDE DEF c, i
  <2>2. [c EXCEPT ![i] = 0] = c
    BY <2>1
  <2> QED
    BY <2>2 DEF c, i
<1>5. Fill(x, p2) = Fill(r, p)
  BY <1>4 DEF Fill, Before
<1>6. DatOK(l, x, p2, n)
  BY <1>1, <1>3, <1>4 DEF DatOK
<1>7. PhaseOK(l, x, p2, q, k, j)
  BY <1>1, <1>2, <1>3, <1>4 DEF PhaseOK
<1>8. OtherOK(x, q, k, j)
  BY <1>1, <1>4 DEF OtherOK
<1> QED
  BY <1>1, <1>4, <1>5, <1>6, <1>7, <1>8 DEF BankOK

ToggleOf(r, x) ==
    /\ IsLog(x) /\ x.kind = 1 - r.kind /\ x.dat = r.dat /\ x.count = r.count /\ x.wtp = r.wtp /\ x.Fcount = r.Fcount

\* The full bank is left to the flash task and the empty one taken.
LEMMA BankToggle ==
    ASSUME LogAssumption, NEW l \in Flashed, NEW r, NEW n, NEW q, NEW k, NEW j, BankOK(l, r, "toggle", n, q, k, j),
           NEW x, ToggleOf(r, x)
    PROVE  /\ BankOK(l, x, "f321", n, q, k, j)
           /\ Same(AskedFrom(l, x, "f321", n, k), AskedFrom(l, r, "toggle", n, k))
           /\ Same(Stored(l, x, "f321", n, q, k, j), Stored(l, r, "toggle", n, q, k, j))
<1> USE DEF ToggleOf, Same
<1>1. PhaseOK(l, r, "toggle", q, k, j) /\ OtherOK(r, q, k, j)
      /\ r.count \in [{0, 1} -> 0 .. LOG_SECORNUM[l]] /\ r.dat \in [{0, 1} -> Bank(l)] /\ n \in 0 .. MaxRecords[l]
  BY DEF BankOK
<1>2. LOG_SECORNUM[l] \in Nat \ {0} /\ r.count[r.kind] \in Nat /\ r.kind \in {0, 1} /\ n \in Nat
  BY FillIs
<1>3. /\ q /\ k = r.kind /\ j = "idle" /\ r.count[r.kind] = LOG_SECORNUM[l] /\ r.wtp = LOG_SECORNUM[l] - 1
      /\ l \notin OneBank
  BY <1>1 DEF PhaseOK
<1>4. x.count[x.kind] = 0
  BY <1>1, <1>3 DEF OtherOK
<1>5. PhaseOK(l, x, "f321", q, k, j)
  BY <1>2, <1>3, <1>4 DEF PhaseOK
<1>6. DatOK(l, x, "f321", n)
  BY <1>2, <1>4 DEF DatOK
<1>7. OtherOK(x, q, k, j)
  BY <1>2, <1>3 DEF OtherOK, Counted
<1>8. Fill(x, "f321") = 0 /\ x.kind # k
  BY <1>2, <1>3, <1>4 DEF Fill, Before
<1>9. AskedFrom(l, x, "f321", n, k) = AskedFrom(l, r, "toggle", n, k)
  BY <1>2, <1>3, <1>8 DEF AskedFrom
<1> QED
  BY <1>1, <1>3, <1>5, <1>6, <1>7, <1>9 DEF BankOK, Stored

IsTrue(z) == z = TRUE

\* The full bank is asked for.
LEMMA BankRequest ==
    ASSUME LogAssumption, NEW l \in Flashed, NEW r, NEW n, NEW q, NEW k, NEW j, BankOK(l, r, "request", n, q, k, j),
           NEW z, IsTrue(z)
    PROVE  /\ BankOK(l, r, "f31", n, z, r.kind, j)
           /\ Same(r.count[r.kind], LOG_SECORNUM[l])
           /\ Same(r.dat[r.kind], Block(l, AskedFrom(l, r, "f31", n, r.kind)))
           /\ Same(Stored(l, r, "f31", n, z, r.kind, j), Stored(l, r, "request", n, q, k, j))
<1>1. PhaseOK(l, r, "request", q, k, j) /\ OtherOK(r, q, k, j) /\ DatOK(l, r, "request", n)
      /\ r.count \in [{0, 1} -> 0 .. LOG_SECORNUM[l]] /\ r.dat \in [{0, 1} -> Bank(l)] /\ n \in 0 .. MaxRecords[l]
      /\ IsLog(r)
  BY DEF BankOK
<1>2. LOG_SECORNUM[l] \in Nat \ {0} /\ r.count[r.kind] \in Nat /\ r.kind \in {0, 1} /\ n \in Nat
  BY FillIs
<1>3. ~ q /\ j = "idle" /\ r.count[r.kind] = LOG_SECORNUM[l] /\ r.wtp = LOG_SECORNUM[l] - 1
  BY <1>1 DEF PhaseOK
<1>4. Fill(r, "request") = LOG_SECORNUM[l] /\ Fill(r, "f31") = LOG_SECORNUM[l]
  BY <1>2, <1>3 DEF Fill, Before
<1>5. PhaseOK(l, r, "f31", TRUE, r.kind, j)
  BY <1>1, <1>2, <1>3 DEF PhaseOK
<1>6. DatOK(l, r, "f31", n)
  BY <1>1, <1>2, <1>3, <1>4 DEF DatOK
<1>7. OtherOK(r, TRUE, r.kind, j)
  BY <1>1, <1>3 DEF OtherOK
<1>8. AskedFrom(l, r, "f31", n, r.kind) = n - LOG_SECORNUM[l]
  BY <1>2 DEF AskedFrom
<1>9. r.dat[r.kind] = Block(l, n - LOG_SECORNUM[l])
  <2>1. r.dat[r.kind] \in Bank(l)
    BY <1>1, <1>2
  <2>2. \A i \in 0 .. LOG_SECORNUM[l] - 1 : r.dat[r.kind][i] = n - LOG_SECORNUM[l] + i + 1
    BY <1>1, <1>2, <1>3, <1>4 DEF DatOK
  <2> QED
    BY <2>1, <2>2 DEF Bank, Block
<1>10. Stored(l, r, "f31", n, TRUE, r.kind, j) = Stored(l, r, "request", n, q, k, j)
  BY <1>2, <1>3, <1>4, <1>8 DEF Stored, Absorbed
<1>11. BankOK(l, r, "f31", n, TRUE, r.kind, j)
  BY <1>1, <1>5, <1>6, <1>7 DEF BankOK
<1> QED
  BY <1>3, <1>8, <1>9, <1>10, <1>11 DEF Same, IsTrue

\* A record is accepted.
LEMMA BankBegins ==
    ASSUME LogAssumption, NEW l \in Flashed, NEW r, NEW n, NEW q, NEW k, NEW j, BankOK(l, r, "idle", n, q, k, j),
           n < MaxRecords[l]
    PROVE  /\ BankOK(l, r, "accept", n + 1, q, k, j)
           /\ q => AskedFrom(l, r, "accept", n + 1, k) = AskedFrom(l, r, "idle", n, k)
           /\ Stored(l, r, "accept", n + 1, q, k, j) = Stored(l, r, "idle", n, q, k, j)
<1>1. PhaseOK(l, r, "idle", q, k, j) /\ OtherOK(r, q, k, j) /\ DatOK(l, r, "idle", n)
      /\ r.count \in [{0, 1} -> 0 .. LOG_SECORNUM[l]] /\ r.dat \in [{0, 1} -> Bank(l)] /\ n \in 0 .. MaxRecords[l]
      /\ IsLog(r)
  BY DEF BankOK
<1>2. LOG_SECORNUM[l] \in Nat \ {0} /\ r.count[r.kind] \in Nat /\ n \in Nat /\ MaxRecords[l] \in Nat
  BY FillIs DEF LogAssumption
<1> DEFINE c == r.count[r.kind]
<1>3. Fill(r, "idle") = c /\ Fill(r, "accept") = c + 1
  BY <1>2 DEF Fill, Before
<1>4. PhaseOK(l, r, "accept", q, k, j)
  BY <1>1, <1>2 DEF PhaseOK
<1>5. q => k # r.kind
  BY <1>1 DEF PhaseOK
<1>6. \A i \in 0 .. LOG_SECORNUM[l] - 1 : i < c => r.dat[r.kind][i] = n - c + i + 1
  BY <1>1, <1>3 DEF DatOK
<1>7. (n + 1) - (c + 1) = n - c /\ (n + 1) - LOG_SECORNUM[l] - (c + 1) = n - LOG_SECORNUM[l] - c
  <2> DEFINE s == LOG_SECORNUM[l]
  <2>1. n \in Int /\ c \in Int /\ s \in Int
    BY <1>2
  <2> HIDE DEF c, s
  <2>2. (n + 1) - (c + 1) = n - c /\ (n + 1) - s - (c + 1) = n - s - c
    BY <2>1
  <2> QED
    BY <2>2 DEF s
<1> DEFINE m == n + 1
           d == r.dat[r.kind]
<1>8. m \in 0 .. MaxRecords[l]
  BY <1>2
<1>9. /\ m - (c + 1) = n - c /\ m - LOG_SECORNUM[l] - (c + 1) = n - LOG_SECORNUM[l] - c
      /\ \A i \in 0 .. LOG_SECORNUM[l] - 1 : i < c => d[i] = n - c + i + 1
  BY <1>6, <1>7
<1> HIDE DEF m
<1>10. DatOK(l, r, "accept", m)
  BY <1>3, <1>9, Zenon DEF DatOK
<1>11. q => AskedFrom(l, r, "accept", m, k) = AskedFrom(l, r, "idle", n, k)
  BY <1>3, <1>5, <1>9, Zenon DEF AskedFrom
<1>12. Stored(l, r, "accept", m, q, k, j) = Stored(l, r, "idle", n, q, k, j)
  BY <1>3, <1>9, <1>11, Zenon DEF Stored
<1>13. BankOK(l, r, "accept", m, q, k, j)
  BY <1>1, <1>4, <1>8, <1>10 DEF BankOK
<1> QED
  BY <1>11, <1>12, <1>13 DEF m

-----------------------------------------------------------------------------
(* What the steps of the flash task do to a log. *)

\* Where the task of a log is when it does not run.
Resting == {"idle", "wait30", "wait31"}
RestsAt(l, p) == p \in Resting /\ (l \in OneBank => p # "wait30")

LEMMA BankFlash ==
    ASSUME LogAssumption, NEW l \in Flashed, NEW r, NEW p, NEW n, NEW q, NEW k, NEW j, NEW j2,
           BankOK(l, r, p, n, q, k, j), RestsAt(l, p), q, j2 \in Counted <=> j \in Counted
    PROVE  BankOK(l, r, p, n, q, k, j2)
<1>1. PhaseOK(l, r, p, q, k, j2)
  BY DEF BankOK, PhaseOK, RestsAt, Resting
<1>2. OtherOK(r, q, k, j2)
  BY DEF BankOK, OtherOK
<1> QED
  BY <1>1, <1>2 DEF BankOK

\* The bank in flash is emptied.
Emptied(r, k, x) ==
    k \in {0, 1} /\ IsLog(x) /\ x.kind = r.kind /\ x.wtp = r.wtp /\ x.dat = r.dat /\ x.count = [r.count EXCEPT ![k] = 0]

LEMMA BankCounted ==
    ASSUME LogAssumption, NEW l \in Flashed, NEW r, NEW p, NEW n, NEW q, NEW k,
           BankOK(l, r, p, n, q, k, "count"), RestsAt(l, p),
           NEW x, Emptied(r, k, x)
    PROVE  /\ BankOK(l, x, p, n, q, k, "f0")
           /\ Same(AskedFrom(l, x, p, n, k), AskedFrom(l, r, p, n, k))
           /\ Same(Stored(l, x, p, n, q, k, "f0"), Stored(l, r, p, n, q, k, "count"))
<1>0. k \in {0, 1} /\ IsLog(x) /\ x.kind = r.kind /\ x.wtp = r.wtp /\ x.dat = r.dat /\ x.count = [r.count EXCEPT ![k] = 0]
  BY DEF Emptied
<1>1. PhaseOK(l, r, p, q, k, "count") /\ OtherOK(r, q, k, "count") /\ DatOK(l, r, p, n)
      /\ r.count \in [{0, 1} -> 0 .. LOG_SECORNUM[l]] /\ r.dat \in [{0, 1} -> Bank(l)] /\ n \in 0 .. MaxRecords[l]
  BY DEF BankOK
<1>2. /\ LOG_SECORNUM[l] \in Nat \ {0} /\ r.count[r.kind] \in Nat /\ r.kind \in {0, 1} /\ n \in Nat
      /\ 1 - r.kind \in {0, 1} /\ 1 - r.kind # r.kind
  BY FillIs
<1>3. q
  BY <1>0, <1>1 DEF PhaseOK
<1>4. x.count \in [{0, 1} -> 0 .. LOG_SECORNUM[l]]
  BY <1>0, <1>1, <1>2
<1>5. CASE k = r.kind
  <2>1. p = "wait31" /\ x.count[x.kind] = 0
    BY <1>0, <1>1, <1>3, <1>5 DEF PhaseOK, RestsAt, Resting
  <2>2. PhaseOK(l, x, p, q, k, "f0")
    BY <1>0, <2>1, <1>1, <1>2, <1>3, <1>5 DEF PhaseOK, Counted
  <2>3. DatOK(l, x, p, n)
    BY <1>0, <2>1, <1>2 DEF DatOK
  <2>4. x.count[1 - x.kind] = 0
    BY <1>0, <1>1, <1>2, <1>5 DEF OtherOK
  <2>5. AskedFrom(l, x, p, n, k) = AskedFrom(l, r, p, n, k)
    BY <1>0, <1>5 DEF AskedFrom
  <2> QED
    BY <1>0, <1>1, <1>3, <1>4, <2>2, <2>3, <2>4, <2>5 DEF BankOK, OtherOK, Stored, Absorbed, Same
<1>6. CASE k # r.kind
  <2>1. x.count[x.kind] = r.count[r.kind] /\ x.count[1 - x.kind] = 0
    <3>1. k = 1 - r.kind
      BY <1>0, <1>2, <1>6
    <3> QED
      BY <1>0, <1>1, <1>2, <3>1
  <2>2. p # "wait31"
    BY <1>0, <1>1, <1>3, <1>6 DEF PhaseOK
  <2>3. PhaseOK(l, x, p, q, k, "f0")
    BY <1>0, <2>1, <2>2, <1>1, <1>2, <1>3 DEF PhaseOK, RestsAt, Resting
  <2>4. Fill(x, p) = Fill(r, p)
    BY <1>0, <2>1 DEF Fill
  <2>5. DatOK(l, x, p, n)
    BY <1>0, <2>1, <2>4, <1>1 DEF DatOK
  <2>6. AskedFrom(l, x, p, n, k) = AskedFrom(l, r, p, n, k)
    BY <1>0, <2>4 DEF AskedFrom
  <2> QED
    BY <1>0, <1>1, <1>3, <1>4, <2>1, <2>3, <2>5, <2>6 DEF BankOK, OtherOK, Stored, Absorbed, Same
<1> QED
  BY <1>5, <1>6

\* The request is done with.
LEMMA BankUnlocked ==
    ASSUME LogAssumption, NEW l \in Flashed, NEW r, NEW p, NEW n, NEW q, NEW k,
           BankOK(l, r, p, n, q, k, "unlock"), RestsAt(l, p), NEW z, z = FALSE
    PROVE  /\ BankOK(l, r, p, n, z, k, "idle")
           /\ Stored(l, r, p, n, z, k, "idle") = Stored(l, r, p, n, q, k, "unlock")
<1>1. PhaseOK(l, r, p, q, k, "unlock") /\ OtherOK(r, q, k, "unlock")
  BY DEF BankOK
<1>2. LOG_SECORNUM[l] \in Nat \ {0} /\ r.count[r.kind] \in Nat /\ n \in Nat /\ Fill(r, p) \in Int
  BY FillIs
<1>3. q
  BY <1>1 DEF PhaseOK
<1>4. k = r.kind => p = "wait31" /\ r.count[r.kind] = 0
  BY <1>1, <1>3 DEF PhaseOK, RestsAt, Resting, Counted
<1>5. PhaseOK(l, r, p, FALSE, k, "idle")
  BY <1>1, <1>2, <1>3, <1>4 DEF PhaseOK, RestsAt, Resting, Counted
<1>6. OtherOK(r, FALSE, k, "idle")
  BY <1>1 DEF OtherOK, Counted
<1>7. BankOK(l, r, p, n, FALSE, k, "idle")
  BY <1>5, <1>6 DEF BankOK
<1>8. k = r.kind => Fill(r, p) = 0
  BY <1>4 DEF Fill, Before
<1>9. AskedFrom(l, r, p, n, k) + LOG_SECORNUM[l] = n - Fill(r, p)
  <2> DEFINE s == LOG_SECORNUM[l]
             f == Fill(r, p)
  <2>1. AskedFrom(l, r, p, n, k) = n - s - IF k = r.kind THEN 0 ELSE f
    BY DEF AskedFrom
  <2> HIDE DEF s, f
  <2>2. n \in Int /\ s \in Int /\ f \in Int /\ (k = r.kind => f = 0)
    BY <1>2, <1>8 DEF s, f
  <2>3. AskedFrom(l, r, p, n, k) = n - s - f
    BY <2>1, <2>2
  <2> QED
    BY <2>2, <2>3 DEF s, f
<1>10. Stored(l, r, p, n, FALSE, k, "idle") = Stored(l, r, p, n, q, k, "unlock")
  BY <1>3, <1>9 DEF Stored, Absorbed
<1> QED
  BY <1>7, <1>10

-----------------------------------------------------------------------------
(* The sectors. *)

LEMMA BackIs ==
    ASSUME LogAssumption, NEW l \in Flashed
    PROVE  \A i \in Nat : /\ Back(l, i) \in Nat /\ Back(l, i + 1) = Back(l, i) + LOG_SECORNUM[l]
                          /\ \A k \in 0 .. i : Back(l, i) - Back(l, i - k) = Back(l, k)
<1>1. LOG_SECORNUM[l] \in Nat
  BY DEF LogAssumption
<1> QED
  BY <1>1 DEF Back

LEMMA ModIs ==
    ASSUME NEW m \in Nat \ {0}, NEW x \in 0 .. m - 1
    PROVE  x % m = x /\ (x + m) % m = x
OBVIOUS

LEMMA SecIs ==
    ASSUME LogAssumption, NEW l \in Flashed, NEW m, m.secttop \in Sectors(l), NEW i \in 0 .. sectmax[l]
    PROVE  /\ sectmax[l] \in Nat \ {0} /\ m.secttop \in Nat /\ m.secttop < sectmax[l]
           /\ Sec(l, m, i) \in Sectors(l)
           /\ Sec(l, m, i) = IF m.secttop + i < sectmax[l] THEN m.secttop + i ELSE m.secttop + i - sectmax[l]
<1> DEFINE M == sectmax[l]
           t == m.secttop
<1>1. M \in Nat \ {0} /\ t \in 0 .. M - 1
  BY DEF LogAssumption, Sectors
<1> HIDE DEF M, t
<1>2. \A x \in 0 .. M - 1 : x % M = x /\ (x + M) % M = x
  BY <1>1, ModIs
<1>3. i \in 0 .. M
  BY DEF M
<1>4. (t + i) % M = IF t + i < M THEN t + i ELSE t + i - M
  <2>1. CASE t + i < M
    <3>1. t + i \in 0 .. M - 1
      BY <1>1, <1>3, <2>1
    <3> QED
      BY <1>2, <2>1, <3>1
  <2>2. CASE t + i >= M
    <3>1. t + i - M \in 0 .. M - 1 /\ (t + i - M) + M = t + i
      BY <1>1, <1>3, <2>2
    <3>2. (t + i) % M = t + i - M
      BY <1>2, <3>1
    <3> QED
      BY <1>1, <1>3, <2>2, <3>2
  <2> QED
    BY <1>1, <1>3, <2>1, <2>2
<1>5. (t + i) % M \in 0 .. M - 1
  BY <1>1, <1>3, <1>4
<1> QED
  BY <1>1, <1>4, <1>5 DEF M, t, Sec, Sectors

LEMMA SecOther ==
    ASSUME LogAssumption, NEW l \in Flashed, NEW m, m.secttop \in Sectors(l),
           NEW i \in 0 .. sectmax[l], NEW k \in 0 .. sectmax[l], i < k, k - i < sectmax[l]
    PROVE  Sec(l, m, i) # Sec(l, m, k)
<1>1. /\ sectmax[l] \in Nat \ {0} /\ m.secttop \in Nat /\ m.secttop < sectmax[l]
      /\ Sec(l, m, i) = IF m.secttop + i < sectmax[l] THEN m.secttop + i ELSE m.secttop + i - sectmax[l]
      /\ Sec(l, m, k) = IF m.secttop + k < sectmax[l] THEN m.secttop + k ELSE m.secttop + k - sectmax[l]
  BY SecIs
<1> QED
  BY <1>1

LEMMA SecAway ==
    ASSUME LogAssumption, NEW l \in Flashed, NEW m, m.secttop \in Sectors(l), m.sectnum \in 0 .. sectmax[l],
           NEW i \in 1 .. m.sectnum, i < sectmax[l]
    PROVE  Sec(l, m, m.sectnum - i) # Sec(l, m, m.sectnum) /\ Sec(l, m, m.sectnum - i) \in Sectors(l)
<1> DEFINE k == m.sectnum
           h == k - i
<1>1. sectmax[l] \in Nat /\ k \in 0 .. sectmax[l]
  BY DEF LogAssumption
<1>2. i \in 1 .. k
  OBVIOUS
<1> HIDE DEF k
<1>3. h \in 0 .. sectmax[l] /\ h < k /\ k - h < sectmax[l]
  BY <1>1, <1>2
<1> HIDE DEF h
<1>4. Sec(l, m, h) # Sec(l, m, k)
  BY <1>1, <1>3, SecOther
<1>5. Sec(l, m, h) \in Sectors(l)
  BY <1>1, <1>3, SecIs
<1> QED
  BY <1>4, <1>5 DEF h, k

IsPut(f, i, x, f2) == f2 = [f EXCEPT ![i] = x]
Has(f, i, x) == f[i] = x
MgrIs(m, t, k, g) == m = [secttop |-> t, sectnum |-> k, record_num |-> g]

\* The sector erased and written is not one of those looked at.
LEMMA SectorsWritten ==
    ASSUME LogAssumption, NEW l \in Flashed, NEW m, NEW f, NEW j, NEW j2, NEW to, NEW x, NEW f2,
           SectorsOK(l, m, f, j, to), j2 \in Replaced,
           IsPut(f, Sec(l, m, m.sectnum), x, f2)
    PROVE  SectorsOK(l, m, f2, j2, to) /\ Has(f2, Sec(l, m, m.sectnum), x)
<1>1. /\ m.secttop \in Sectors(l) /\ m.sectnum \in 0 .. sectmax[l] /\ sectmax[l] \in Nat
      /\ f = [s \in Sectors(l) |-> f[s]]
  BY DEF SectorsOK, LogAssumption
<1>2. Sec(l, m, m.sectnum) \in Sectors(l)
  BY <1>1, SecIs
<1>3. f2 = [s \in Sectors(l) |-> f2[s]] /\ f2[Sec(l, m, m.sectnum)] = x
      /\ \A s \in Sectors(l) : s # Sec(l, m, m.sectnum) => f2[s] = f[s]
  BY <1>1, <1>2 DEF IsPut
<1>4. ASSUME NEW i \in 1 .. m.sectnum, i < sectmax[l]
      PROVE  /\ f2[Sec(l, m, m.sectnum - i)] = Block(l, to - Back(l, i))
             /\ m.record_num[Sec(l, m, m.sectnum - i)] = LOG_SECORNUM[l]
  <2>2. Sec(l, m, m.sectnum - i) # Sec(l, m, m.sectnum) /\ Sec(l, m, m.sectnum - i) \in Sectors(l)
    BY <1>1, <1>4, SecAway
  <2> QED
    BY <1>3, <1>4, <2>2 DEF SectorsOK
<1> QED
  BY <1>3, <1>4 DEF SectorsOK, Has

\* So is the number of its records.
LEMMA SectorsInfo ==
    ASSUME LogAssumption, NEW l \in Flashed, NEW m, NEW f, NEW j, NEW j2, NEW to, NEW x, NEW m2,
           SectorsOK(l, m, f, j, to), j2 \in Replaced,
           NEW g, IsPut(m.record_num, Sec(l, m, m.sectnum), x, g), MgrIs(m2, m.secttop, m.sectnum, g)
    PROVE  /\ SectorsOK(l, m2, f, j2, to) /\ Has(m2.record_num, Sec(l, m, m.sectnum), x)
           /\ m2.secttop = m.secttop /\ m2.sectnum = m.sectnum
<1>1. /\ m.secttop \in Sectors(l) /\ m.sectnum \in 0 .. sectmax[l] /\ sectmax[l] \in Nat
      /\ m = [secttop |-> m.secttop, sectnum |-> m.sectnum, record_num |-> m.record_num]
      /\ m.record_num = [s \in Sectors(l) |-> m.record_num[s]]
  BY DEF SectorsOK, LogAssumption
<1>2. Sec(l, m, m.sectnum) \in Sectors(l)
  BY <1>1, SecIs
<1>3. g = [s \in Sectors(l) |-> g[s]] /\ g[Sec(l, m, m.sectnum)] = x
      /\ \A s \in Sectors(l) : s # Sec(l, m, m.sectnum) => g[s] = m.record_num[s]
  BY <1>1, <1>2 DEF IsPut
<1>5. /\ m2 = [secttop |-> m.secttop, sectnum |-> m.sectnum, record_num |-> g]
      /\ m2.secttop = m.secttop /\ m2.sectnum = m.sectnum /\ m2.record_num = g
  BY DEF MgrIs
<1>6. \A i : Sec(l, m2, i) = Sec(l, m, i)
  BY <1>5 DEF Sec
<1>7. ASSUME NEW i \in 1 .. m.sectnum, i < sectmax[l]
      PROVE  /\ f[Sec(l, m, m.sectnum - i)] = Block(l, to - Back(l, i))
             /\ g[Sec(l, m, m.sectnum - i)] = LOG_SECORNUM[l]
  <2>2. Sec(l, m, m.sectnum - i) # Sec(l, m, m.sectnum) /\ Sec(l, m, m.sectnum - i) \in Sectors(l)
    BY <1>1, <1>7, SecAway
  <2>3. f[Sec(l, m, m.sectnum - i)] = Block(l, to - Back(l, i)) /\ m.record_num[Sec(l, m, m.sectnum - i)] = LOG_SECORNUM[l]
    BY <1>7 DEF SectorsOK
  <2>4. g[Sec(l, m, m.sectnum - i)] = m.record_num[Sec(l, m, m.sectnum - i)]
    BY <1>3, <2>2
  <2> QED
    BY <2>3, <2>4
<1>8. /\ to >= Back(l, m.sectnum) /\ (m.sectnum < sectmax[l] => to = Back(l, m.sectnum))
      /\ f = [s \in Sectors(l) |-> f[s]]
  BY DEF SectorsOK
<1>9. ASSUME NEW i \in 1 .. m2.sectnum, i < sectmax[l] \/ j2 \notin Replaced
      PROVE  /\ f[Sec(l, m2, m2.sectnum - i)] = Block(l, to - Back(l, i))
             /\ m2.record_num[Sec(l, m2, m2.sectnum - i)] = LOG_SECORNUM[l]
  <2>1. i \in 1 .. m.sectnum /\ i < sectmax[l]
    BY <1>5, <1>9
  <2>2. Sec(l, m2, m2.sectnum - i) = Sec(l, m, m.sectnum - i)
    BY <1>5, <1>6
  <2>3. /\ f[Sec(l, m, m.sectnum - i)] = Block(l, to - Back(l, i))
        /\ g[Sec(l, m, m.sectnum - i)] = LOG_SECORNUM[l]
    BY <1>7, <2>1
  <2> QED
    BY <1>5, <2>2, <2>3
<1> QED
  BY <1>1, <1>3, <1>5, <1>8, <1>9 DEF SectorsOK, Has

\* Where nothing is being replaced.
LEMMA SectorsGo ==
    ASSUME NEW l, NEW m, NEW f, NEW j, NEW j2, NEW to, SectorsOK(l, m, f, j, to), j2 \notin Replaced => j \notin Replaced
    PROVE  SectorsOK(l, m, f, j2, to)
BY DEF SectorsOK

LEMMA SecNext ==
    ASSUME LogAssumption, NEW l \in Flashed, NEW m, m.secttop \in Sectors(l),
           NEW m2, m2.secttop = Next1(l, m.secttop), NEW i \in 0 .. sectmax[l] - 1
    PROVE  m2.secttop \in Sectors(l) /\ Sec(l, m2, i) = Sec(l, m, i + 1)
<1> DEFINE M == sectmax[l]
           t == m.secttop
           u == m2.secttop
<1>1. M \in Nat \ {0} /\ t \in 0 .. M - 1 /\ u = (t + 1) % M
  BY DEF LogAssumption, Sectors, Next1
<1>2. i \in 0 .. M - 1
  OBVIOUS
<1> HIDE DEF M, t, u
<1>3. u = IF t + 1 < M THEN t + 1 ELSE 0
  <2>1. CASE t + 1 < M
    <3>1. t + 1 \in 0 .. M - 1
      BY <1>1, <2>1
    <3>2. (t + 1) % M = t + 1
      BY <1>1, <3>1, ModIs
    <3> QED
      BY <1>1, <2>1, <3>2
  <2>2. CASE t + 1 >= M
    <3>1. t + 1 = 0 + M /\ 0 \in 0 .. M - 1
      BY <1>1, <2>2
    <3>2. (0 + M) % M = 0
      BY <1>1, <3>1, ModIs
    <3> QED
      BY <1>1, <2>2, <3>1, <3>2
  <2> QED
    BY <1>1, <2>1, <2>2
<1>4. u \in 0 .. M - 1
  BY <1>1, <1>3
<1>5. i + 1 \in 0 .. M /\ i \in 0 .. M
  BY <1>1, <1>2
<1>6. m2.secttop \in Sectors(l)
  BY <1>4 DEF Sectors, u, M
<1>7. Sec(l, m, i + 1) = IF t + (i + 1) < M THEN t + (i + 1) ELSE t + (i + 1) - M
  <2> DEFINE h == i + 1
  <2>1. h \in 0 .. sectmax[l]
    BY <1>5 DEF M
  <2> HIDE DEF h
  <2>2. Sec(l, m, h) = IF m.secttop + h < sectmax[l] THEN m.secttop + h ELSE m.secttop + h - sectmax[l]
    BY <2>1, SecIs
  <2> QED
    BY <2>2 DEF h, t, M
<1>8. Sec(l, m2, i) = IF u + i < M THEN u + i ELSE u + i - M
  BY <1>5, <1>6, SecIs DEF u, M
<1> QED
  BY <1>1, <1>2, <1>3, <1>6, <1>7, <1>8

\* The number of sectors grows.
LEMMA SectorsGrown ==
    ASSUME LogAssumption, NEW l \in Flashed, NEW m, NEW f, NEW to \in Int, SectorsOK(l, m, f, "sectnum", to),
           m.sectnum < sectmax[l],
           f[Sec(l, m, m.sectnum)] = Block(l, to), m.record_num[Sec(l, m, m.sectnum)] = LOG_SECORNUM[l],
           NEW m2, MgrIs(m2, m.secttop, m.sectnum + 1, m.record_num)
    PROVE  /\ SectorsOK(l, m2, f, "count", to + LOG_SECORNUM[l])
           /\ Back(l, m2.sectnum) = Back(l, m.sectnum) + LOG_SECORNUM[l]
<1> DEFINE k == m.sectnum
           s == LOG_SECORNUM[l]
           M == sectmax[l]
<1>1. /\ m.secttop \in Sectors(l) /\ k \in Nat /\ k < M /\ M \in Nat /\ s \in Nat
      /\ m = [secttop |-> m.secttop, sectnum |-> k, record_num |-> m.record_num]
      /\ m.record_num = [i \in Sectors(l) |-> m.record_num[i]] /\ f = [i \in Sectors(l) |-> f[i]]
      /\ to = Back(l, k)
  BY DEF SectorsOK, LogAssumption
<1>2. m2 = [secttop |-> m.secttop, sectnum |-> k + 1, record_num |-> m.record_num]
  BY DEF MgrIs
<1>3. m2.secttop = m.secttop /\ m2.sectnum = k + 1 /\ m2.record_num = m.record_num
      /\ m2 = [secttop |-> m2.secttop, sectnum |-> m2.sectnum, record_num |-> m2.record_num]
  BY <1>2
<1>4. \A i : Sec(l, m2, i) = Sec(l, m, i)
  BY <1>3 DEF Sec
<1>5. \A i \in 1 .. k : f[Sec(l, m, k - i)] = Block(l, to - Back(l, i)) /\ m.record_num[Sec(l, m, k - i)] = s
  <2>1. \A i \in 1 .. k : i < sectmax[l] =>
          f[Sec(l, m, k - i)] = Block(l, to - Back(l, i)) /\ m.record_num[Sec(l, m, k - i)] = s
    BY DEF SectorsOK
  <2>2. k \in Nat /\ k < sectmax[l] /\ sectmax[l] \in Nat
    BY <1>1
  <2> HIDE DEF k, s, M
  <2>3. \A i \in 1 .. k : i < sectmax[l]
    BY <2>2
  <2> QED
    BY <2>1, <2>3
<1>6. f[Sec(l, m, k)] = Block(l, to) /\ m.record_num[Sec(l, m, k)] = s
  OBVIOUS
<1>7. \A i \in Nat : Back(l, i) \in Nat /\ Back(l, i + 1) = Back(l, i) + s
  BY BackIs
<1>0. k \in Nat /\ s \in Nat /\ to \in Int
  BY <1>1
<1> HIDE DEF k, s, M
<1>8. Back(l, 1) = s
  <2>1. Back(l, 0) = 0
    BY <1>1 DEF Back, s
  <2>2. Back(l, 0 + 1) = Back(l, 0) + s
    BY <1>7
  <2> QED
    BY <1>1, <2>1, <2>2
<1>9. ASSUME NEW i \in 1 .. k + 1
      PROVE  /\ f[Sec(l, m, k + 1 - i)] = Block(l, (to + s) - Back(l, i))
             /\ m.record_num[Sec(l, m, k + 1 - i)] = s
  <2>1. CASE i = 1
    <3>1. k + 1 - i = k /\ (to + s) - Back(l, i) = to
      BY <1>1, <1>8, <2>1
    <3> QED
      BY <1>6, <3>1
  <2>2. CASE i # 1
    <3> DEFINE h == i - 1
    <3>1. h \in 1 .. k /\ h \in Nat /\ i = h + 1
      BY <1>0, <2>2
    <3> HIDE DEF h
    <3>2. Back(l, i) = Back(l, h) + s /\ Back(l, h) \in Int
      <4>1. Back(l, h + 1) = Back(l, h) + s /\ Back(l, h) \in Nat
        BY <1>7, <3>1
      <4> QED
        BY <3>1, <4>1
    <3>3. k + 1 - i = k - h
      BY <1>0, <3>1
    <3>4. (to + s) - Back(l, i) = to - Back(l, h)
      BY <1>0, <3>2
    <3> QED
      BY <1>5, <3>1, <3>3, <3>4
  <2> QED
    BY <2>1, <2>2
<1>10. Back(l, k + 1) = Back(l, k) + s /\ k + 1 \in 0 .. M
  BY <1>1, <1>7
<1>11. ASSUME NEW i \in 1 .. m2.sectnum
       PROVE  /\ f[Sec(l, m2, m2.sectnum - i)] = Block(l, (to + s) - Back(l, i))
              /\ m2.record_num[Sec(l, m2, m2.sectnum - i)] = s
  <2>1. i \in 1 .. k + 1
    BY <1>3
  <2>2. m2.sectnum - i = k + 1 - i
    <3>1. m2.sectnum = k + 1
      BY <1>3
    <3> QED
      BY <1>0, <2>1, <3>1
  <2>3. Sec(l, m2, k + 1 - i) = Sec(l, m, k + 1 - i)
    BY <1>4
  <2>4. /\ f[Sec(l, m, k + 1 - i)] = Block(l, (to + s) - Back(l, i))
        /\ m.record_num[Sec(l, m, k + 1 - i)] = s
    BY <1>9, <2>1
  <2> QED
    BY <1>3, <2>2, <2>3, <2>4
<1>12. Back(l, m2.sectnum) = Back(l, k) + s /\ to + s = Back(l, m2.sectnum) /\ m2.sectnum \in 0 .. M /\ to + s >= Back(l, m2.sectnum)
  BY <1>1, <1>3, <1>10
<1>13. m2.record_num = [i \in Sectors(l) |-> m2.record_num[i]] /\ m2.secttop \in Sectors(l)
  BY <1>1, <1>3
<1> QED
  <2>1. SectorsOK(l, m2, f, "count", to + s)
    <3> HIDE DEF s
    <3>1. f = [i \in Sectors(l) |-> f[i]] /\ s = LOG_SECORNUM[l] /\ M = sectmax[l]
      BY <1>1 DEF s, M
    <3> DEFINE x == to + s
    <3>2. /\ x >= Back(l, m2.sectnum) /\ x = Back(l, m2.sectnum) /\ m2.sectnum \in 0 .. sectmax[l]
          /\ \A i \in 1 .. m2.sectnum :
               /\ f[Sec(l, m2, m2.sectnum - i)] = Block(l, x - Back(l, i))
               /\ m2.record_num[Sec(l, m2, m2.sectnum - i)] = LOG_SECORNUM[l]
      <4>1. \A i \in 1 .. m2.sectnum :
               /\ f[Sec(l, m2, m2.sectnum - i)] = Block(l, x - Back(l, i))
               /\ m2.record_num[Sec(l, m2, m2.sectnum - i)] = LOG_SECORNUM[l]
        <5> SUFFICES ASSUME NEW i \in 1 .. m2.sectnum
                     PROVE  /\ f[Sec(l, m2, m2.sectnum - i)] = Block(l, x - Back(l, i))
                            /\ m2.record_num[Sec(l, m2, m2.sectnum - i)] = LOG_SECORNUM[l]
          OBVIOUS
        <5>1. /\ f[Sec(l, m2, m2.sectnum - i)] = Block(l, (to + s) - Back(l, i))
              /\ m2.record_num[Sec(l, m2, m2.sectnum - i)] = s
          BY <1>11
        <5> QED
          BY <5>1, <3>1
      <4>2. x >= Back(l, m2.sectnum) /\ x = Back(l, m2.sectnum) /\ m2.sectnum \in 0 .. sectmax[l]
        BY <1>12, <3>1, Zenon
      <4> QED
        BY <4>1, <4>2, Zenon
    <3> HIDE DEF x
    <3> QED
      BY <1>3, <1>13, <3>1, <3>2 DEF SectorsOK, x
  <2> QED
    BY <1>12, <2>1 DEF s, k

\* The oldest sector becomes the newest.
LEMMA SectorsTurned ==
    ASSUME LogAssumption, NEW l \in Flashed, NEW m, NEW f, NEW to \in Int, SectorsOK(l, m, f, "secttop", to),
           m.sectnum >= sectmax[l],
           f[Sec(l, m, m.sectnum)] = Block(l, to), m.record_num[Sec(l, m, m.sectnum)] = LOG_SECORNUM[l],
           NEW m2, MgrIs(m2, Next1(l, m.secttop), m.sectnum, m.record_num)
    PROVE  /\ SectorsOK(l, m2, f, "unread", to + LOG_SECORNUM[l])
           /\ m2.sectnum = m.sectnum
<1> DEFINE k == m.sectnum
           s == LOG_SECORNUM[l]
<1>1. /\ m.secttop \in Sectors(l) /\ k \in Nat \ {0} /\ k = sectmax[l] /\ s \in Nat
      /\ m = [secttop |-> m.secttop, sectnum |-> k, record_num |-> m.record_num]
      /\ m.record_num = [i \in Sectors(l) |-> m.record_num[i]] /\ f = [i \in Sectors(l) |-> f[i]]
      /\ to >= Back(l, k)
  BY DEF SectorsOK, LogAssumption
<1>2. m2 = [secttop |-> Next1(l, m.secttop), sectnum |-> k, record_num |-> m.record_num]
  BY DEF MgrIs
<1>3. m2.secttop = Next1(l, m.secttop) /\ m2.sectnum = k /\ m2.record_num = m.record_num
      /\ m2 = [secttop |-> m2.secttop, sectnum |-> m2.sectnum, record_num |-> m2.record_num]
  BY <1>2
<1>4. m2.secttop \in Sectors(l) /\ \A i \in 0 .. k - 1 : Sec(l, m2, i) = Sec(l, m, i + 1)
  <2>1. 0 \in 0 .. sectmax[l] - 1
    BY <1>1
  <2>2. m2.secttop \in Sectors(l)
    BY <1>1, <1>3, <2>1, SecNext
  <2>3. ASSUME NEW i \in 0 .. sectmax[l] - 1
        PROVE  Sec(l, m2, i) = Sec(l, m, i + 1)
    <3>1. m.secttop \in Sectors(l) /\ m2.secttop = Next1(l, m.secttop)
      BY <1>1, <1>3
    <3>2. i \in 0 .. sectmax[l] - 1
      OBVIOUS
    <3> QED
      BY <3>1, <3>2, SecNext
  <2> QED
    BY <1>1, <2>2, <2>3
<1>5. \A i \in 1 .. k : i < k => f[Sec(l, m, k - i)] = Block(l, to - Back(l, i)) /\ m.record_num[Sec(l, m, k - i)] = s
  BY <1>1 DEF SectorsOK
<1>6. f[Sec(l, m, k)] = Block(l, to) /\ m.record_num[Sec(l, m, k)] = s
  OBVIOUS
<1>7. \A i \in Nat : Back(l, i) \in Nat /\ Back(l, i + 1) = Back(l, i) + s
  BY BackIs
<1>0. k \in Nat /\ s \in Nat /\ to \in Int
  BY <1>1
<1> HIDE DEF k, s
<1>8. Back(l, 1) = s
  <2>1. Back(l, 0) = 0
    BY <1>1 DEF Back, s
  <2>2. Back(l, 0 + 1) = Back(l, 0) + s
    BY <1>7
  <2> QED
    BY <1>1, <2>1, <2>2
<1>9. ASSUME NEW i \in 1 .. k
      PROVE  /\ f[Sec(l, m2, k - i)] = Block(l, (to + s) - Back(l, i))
             /\ m.record_num[Sec(l, m2, k - i)] = s
  <2>0. Sec(l, m2, k - i) = Sec(l, m, k - i + 1)
    <3>1. k - i \in 0 .. k - 1
      BY <1>1
    <3> QED
      BY <1>4, <3>1
  <2>1. CASE i = 1
    <3>1. k - i + 1 = k /\ (to + s) - Back(l, i) = to
      BY <1>1, <1>8, <2>1
    <3> QED
      BY <1>6, <2>0, <3>1
  <2>2. CASE i # 1
    <3> DEFINE h == i - 1
    <3>1. h \in 1 .. k /\ h < k /\ h \in Nat /\ i = h + 1
      BY <1>1, <2>2
    <3> HIDE DEF h
    <3>2. Back(l, i) = Back(l, h) + s /\ Back(l, h) \in Int
      <4>1. Back(l, h + 1) = Back(l, h) + s /\ Back(l, h) \in Nat
        BY <1>7, <3>1
      <4> QED
        BY <3>1, <4>1
    <3>3. k - i + 1 = k - h
      BY <1>0, <3>1
    <3>4. (to + s) - Back(l, i) = to - Back(l, h)
      BY <1>0, <3>2
    <3> QED
      BY <1>5, <2>0, <3>1, <3>3, <3>4
  <2> QED
    BY <2>1, <2>2
<1>10. to + s >= Back(l, k)
  BY <1>1, <1>7
<1>11. m2.record_num = [i \in Sectors(l) |-> m2.record_num[i]] /\ m2.sectnum \in 0 .. sectmax[l]
  BY <1>1, <1>3
<1> DEFINE x == to + s
<1>12. /\ x >= Back(l, m2.sectnum) /\ m2.sectnum \in 0 .. sectmax[l]
       /\ \A i \in 1 .. m2.sectnum :
            /\ f[Sec(l, m2, m2.sectnum - i)] = Block(l, x - Back(l, i))
            /\ m2.record_num[Sec(l, m2, m2.sectnum - i)] = LOG_SECORNUM[l]
  <2>1. ASSUME NEW i \in 1 .. m2.sectnum
        PROVE  /\ f[Sec(l, m2, m2.sectnum - i)] = Block(l, x - Back(l, i))
               /\ m2.record_num[Sec(l, m2, m2.sectnum - i)] = s
    <3>1. i \in 1 .. k /\ m2.sectnum - i = k - i
      BY <1>3, Zenon
    <3>2. /\ f[Sec(l, m2, k - i)] = Block(l, x - Back(l, i))
          /\ m.record_num[Sec(l, m2, k - i)] = s
      <4>1. /\ f[Sec(l, m2, k - i)] = Block(l, (to + s) - Back(l, i))
            /\ m.record_num[Sec(l, m2, k - i)] = s
        BY <1>9, <3>1
      <4> QED
        BY <4>1
    <3>3. m2.record_num = m.record_num
      BY <1>3
    <3> HIDE DEF x
    <3> QED
      BY <3>1, <3>2, <3>3
  <2>2. x >= Back(l, m2.sectnum)
    BY <1>3, <1>10, Zenon
  <2> QED
    BY <1>11, <2>1, <2>2, Zenon DEF s
<1>13. ~ (m2.sectnum < sectmax[l])
  BY <1>1, <1>3
<1> HIDE DEF x
<1>14. SectorsOK(l, m2, f, "unread", x)
  BY <1>1, <1>3, <1>4, <1>11, <1>12, <1>13 DEF SectorsOK
<1> QED
  BY <1>3, <1>14 DEF x, s, k

-----------------------------------------------------------------------------
(* A log with flash sectors as a whole. *)

LEMMA StoreIs ==
    ASSUME LogAssumption, NEW l \in Flashed, NEW r, NEW p, NEW n, NEW q, NEW par, NEW j, NEW m, NEW f,
           Store(l, r, p, n, q, par, j, m, f)
    PROVE  /\ n \in Int /\ LOG_SECORNUM[l] \in Nat \ {0} /\ Fill(r, p) \in Int
           /\ AskedFrom(l, r, p, n, par.sramlog_kind) \in Int
           /\ Stored(l, r, p, n, q, par.sramlog_kind, j) \in Int
           /\ j # "idle" => q
<1> DEFINE k == par.sramlog_kind
           s == LOG_SECORNUM[l]
           g == Fill(r, p)
<1>1. BankOK(l, r, p, n, q, k, j)
  BY DEF Store
<1> HIDE DEF k
<1>2. n \in Int /\ s \in Nat \ {0} /\ g \in Int
  BY <1>1, FillIs
<1>3. j # "idle" => q
  BY <1>1 DEF BankOK, PhaseOK
<1>4. AskedFrom(l, r, p, n, k) = n - s - IF k = r.kind THEN 0 ELSE g
  BY DEF AskedFrom
<1>5. Stored(l, r, p, n, q, k, j) = IF q THEN AskedFrom(l, r, p, n, k) + IF j \in Absorbed THEN s ELSE 0 ELSE n - g
  BY DEF Stored
<1> HIDE DEF s, g
<1>6. AskedFrom(l, r, p, n, k) \in Int
  BY <1>2, <1>4
<1>7. Stored(l, r, p, n, q, k, j) \in Int
  BY <1>2, <1>5, <1>6
<1> QED
  BY <1>2, <1>3, <1>6, <1>7 DEF k, s, g

Holds(q) == q

LEMMA FromIs ==
    ASSUME LogAssumption, NEW l \in Flashed, NEW r, NEW p, NEW n, NEW q, NEW par, NEW j, NEW m, NEW f,
           Store(l, r, p, n, q, par, j, m, f)
    PROVE  AskedFrom(l, r, p, n, par.sramlog_kind) \in Int
BY StoreIs

LEMMA JobAsked ==
    ASSUME LogAssumption, NEW l \in Flashed, NEW r, NEW p, NEW n, NEW q, NEW par, NEW j, NEW m, NEW f,
           Store(l, r, p, n, q, par, j, m, f)
    PROVE  j = "idle" \/ Holds(q)
<1>1. PhaseOK(l, r, p, q, par.sramlog_kind, j)
  BY DEF Store, BankOK
<1> QED
  BY <1>1 DEF PhaseOK, Holds

\* A step of Log_Write that leaves the bank asked for and what is in flash.
StepOf(l, r, p, n, q, k, j, r2, p2, n2) ==
    /\ BankOK(l, r2, p2, n2, q, k, j)
    /\ q => /\ AskedFrom(l, r2, p2, n2, k) = AskedFrom(l, r, p, n, k)
            /\ r2.dat[k] = r.dat[k]
    /\ Stored(l, r2, p2, n2, q, k, j) = Stored(l, r, p, n, q, k, j)
    /\ r2.Fcount = r.Fcount

LEMMA StoreStep ==
    ASSUME LogAssumption, NEW l \in Flashed, NEW r, NEW p, NEW n, NEW q, NEW par, NEW j, NEW m, NEW f,
           Store(l, r, p, n, q, par, j, m, f),
           NEW r2, NEW p2, NEW n2, StepOf(l, r, p, n, q, par.sramlog_kind, j, r2, p2, n2)
    PROVE  /\ Store(l, r2, p2, n2, q, par, j, m, f)
           /\ Same(First(l, r2, p2, n2, q, par, j, m), First(l, r, p, n, q, par, j, m))
<1> DEFINE k    == par.sramlog_kind
           from == AskedFrom(l, r, p, n, k)
           to   == Stored(l, r, p, n, q, k, j)
<1>0. /\ BankOK(l, r2, p2, n2, q, k, j)
      /\ q => AskedFrom(l, r2, p2, n2, k) = from /\ r2.dat[k] = r.dat[k]
      /\ Stored(l, r2, p2, n2, q, k, j) = to
      /\ r2.Fcount = r.Fcount
  BY DEF StepOf
<1>1. /\ AskedOK(l, r, par, q, from) /\ SectorsOK(l, m, f, j, to) /\ JobOK(l, m, f, par, j, from)
      /\ r.Fcount \in 0 .. sectmax[l]
  BY DEF Store
<1>2. j # "idle" => q
  BY JobAsked DEF Holds
<1>3. AskedOK(l, r2, par, q, AskedFrom(l, r2, p2, n2, k))
  BY <1>0, <1>1 DEF AskedOK
<1>4. JobOK(l, m, f, par, j, AskedFrom(l, r2, p2, n2, k))
  <2>1. CASE q
    BY <1>0, <1>1, <2>1
  <2>2. CASE ~ q
    <3>1. j \notin Copied
      BY <1>2, <2>2 DEF Copied
    <3> QED
      BY <1>1, <3>1 DEF JobOK
  <2> QED
    BY <2>1, <2>2
<1>5. SectorsOK(l, m, f, j, Stored(l, r2, p2, n2, q, k, j))
  BY <1>0, <1>1
<1>6. First(l, r2, p2, n2, q, par, j, m) = First(l, r, p, n, q, par, j, m)
  BY <1>0 DEF First
<1>7. r2.Fcount \in 0 .. sectmax[l]
  BY <1>0, <1>1
<1> QED
  BY <1>0, <1>3, <1>4, <1>5, <1>6, <1>7 DEF Store, Same

\* A step of the flash task in the parameters of the request.
SamePar(par, par2) == par2.record_num = par.record_num /\ par2.sramlog_kind = par.sramlog_kind
Alike(j, j2) ==
    /\ j2 \in Counted <=> j \in Counted
    /\ j2 \in Absorbed <=> j \in Absorbed
    /\ j2 \in Replaced <=> j \in Replaced

GoesOn(l, r, p, n, q, par, j, m, f, par2, j2) ==
    /\ Store(l, r, p, n, q, par, j, m, f) /\ RestsAt(l, p) /\ q
    /\ SamePar(par, par2) /\ Alike(j, j2)
    /\ JobOK(l, m, f, par2, j2, AskedFrom(l, r, p, n, par.sramlog_kind))

LEMMA JobGoes ==
    ASSUME LogAssumption, NEW l \in Flashed, NEW r, NEW p, NEW n, NEW q, NEW par, NEW j, NEW m, NEW f,
           NEW par2, NEW j2, GoesOn(l, r, p, n, q, par, j, m, f, par2, j2)
    PROVE  /\ Store(l, r, p, n, q, par2, j2, m, f)
           /\ Same(First(l, r, p, n, q, par2, j2, m), First(l, r, p, n, q, par, j, m))
<1> DEFINE k    == par.sramlog_kind
           from == AskedFrom(l, r, p, n, k)
           to   == Stored(l, r, p, n, q, k, j)
<1>0. /\ Store(l, r, p, n, q, par, j, m, f) /\ RestsAt(l, p) /\ q /\ SamePar(par, par2) /\ Alike(j, j2)
      /\ JobOK(l, m, f, par2, j2, from)
  BY DEF GoesOn
<1>1. /\ BankOK(l, r, p, n, q, k, j)
      /\ AskedOK(l, r, par, q, from) /\ SectorsOK(l, m, f, j, to) /\ r.Fcount \in 0 .. sectmax[l]
  BY <1>0 DEF Store
<1>2. BankOK(l, r, p, n, q, k, j2)
  <2>1. j2 \in Counted <=> j \in Counted
    BY <1>0 DEF Alike
  <2> QED
    BY <1>0, <1>1, <2>1, BankFlash
<1>3. Stored(l, r, p, n, q, k, j2) = to
  BY <1>0 DEF Stored, Alike
<1>4. SectorsOK(l, m, f, j2, to)
  BY <1>0, <1>1 DEF SectorsOK, Alike
<1>5. AskedOK(l, r, par2, q, from)
  BY <1>0, <1>1 DEF AskedOK, SamePar
<1> HIDE DEF from, to
<1>6. BankOK(l, r, p, n, q, par2.sramlog_kind, j2)
  BY <1>0, <1>2 DEF SamePar
<1>7. AskedFrom(l, r, p, n, par2.sramlog_kind) = from /\ Stored(l, r, p, n, q, par2.sramlog_kind, j2) = to
  BY <1>0, <1>3 DEF from, to, SamePar
<1>8. First(l, r, p, n, q, par2, j2, m) = First(l, r, p, n, q, par, j, m)
  BY <1>7 DEF First, to
<1>9. JobOK(l, m, f, par2, j2, from)
  BY <1>0 DEF from
<1> QED
  BY <1>1, <1>4, <1>5, <1>6, <1>7, <1>8, <1>9 DEF Store, Same

\* The steps of flt_WriteLog.
LEMMA StoreStart ==
    ASSUME LogAssumption, NEW l \in Flashed, NEW r, NEW p, NEW n, NEW q, NEW par, NEW m, NEW f,
           Store(l, r, p, n, q, par, "idle", m, f), RestsAt(l, p), Holds(q), NEW par2, SamePar(par, par2)
    PROVE  /\ Store(l, r, p, n, q, par2, "sector", m, f)
           /\ Same(First(l, r, p, n, q, par2, "sector", m), First(l, r, p, n, q, par, "idle", m))
<1>1. JobOK(l, m, f, par2, "sector", AskedFrom(l, r, p, n, par.sramlog_kind))
  BY DEF JobOK, Replaced, Copied
<1>2. Alike("idle", "sector")
  BY DEF Alike, Counted, Absorbed, Replaced, Copied
<1>9. GoesOn(l, r, p, n, q, par, "idle", m, f, par2, "sector")
  BY <1>1, <1>2 DEF GoesOn, Holds
<1>10. Store(l, r, p, n, q, par2, "sector", m, f)
  BY <1>9, JobGoes
<1>11. Same(First(l, r, p, n, q, par2, "sector", m), First(l, r, p, n, q, par, "idle", m))
  BY <1>9, JobGoes
<1> QED
  BY <1>10, <1>11 DEF Same

LEMMA StoreSector ==
    ASSUME LogAssumption, NEW l \in Flashed, NEW r, NEW p, NEW n, NEW q, NEW par, NEW m, NEW f,
           Store(l, r, p, n, q, par, "sector", m, f), RestsAt(l, p), Holds(q), NEW par2, SamePar(par, par2),
           par2.get_sector = Sec(l, m, m.sectnum)
    PROVE  /\ Store(l, r, p, n, q, par2, "erase", m, f)
           /\ Same(First(l, r, p, n, q, par2, "erase", m), First(l, r, p, n, q, par, "sector", m))
<1>1. JobOK(l, m, f, par2, "erase", AskedFrom(l, r, p, n, par.sramlog_kind))
  BY DEF JobOK, Replaced, Copied
<1>2. Alike("sector", "erase")
  BY DEF Alike, Counted, Absorbed, Replaced, Copied
<1>9. GoesOn(l, r, p, n, q, par, "sector", m, f, par2, "erase")
  BY <1>1, <1>2 DEF GoesOn, Holds
<1>10. Store(l, r, p, n, q, par2, "erase", m, f)
  BY <1>9, JobGoes
<1>11. Same(First(l, r, p, n, q, par2, "erase", m), First(l, r, p, n, q, par, "sector", m))
  BY <1>9, JobGoes
<1> QED
  BY <1>10, <1>11 DEF Same

LEMMA StoreVerified ==
    ASSUME LogAssumption, NEW l \in Flashed, NEW r, NEW p, NEW n, NEW q, NEW par, NEW m, NEW f,
           Store(l, r, p, n, q, par, "verify", m, f), RestsAt(l, p), Holds(q), NEW par2, SamePar(par, par2),
           par2.get_sector = par.get_sector
    PROVE  /\ Store(l, r, p, n, q, par2, "fcount", m, f)
           /\ Same(First(l, r, p, n, q, par2, "fcount", m), First(l, r, p, n, q, par, "verify", m))
<1>1. JobOK(l, m, f, par, "verify", AskedFrom(l, r, p, n, par.sramlog_kind))
  BY DEF Store
<1>2. JobOK(l, m, f, par2, "fcount", AskedFrom(l, r, p, n, par.sramlog_kind))
  BY <1>1 DEF JobOK, Replaced, Copied
<1>3. Alike("verify", "fcount")
  BY DEF Alike, Counted, Absorbed, Replaced, Copied
<1>9. GoesOn(l, r, p, n, q, par, "verify", m, f, par2, "fcount")
  BY <1>2, <1>3 DEF GoesOn, Holds
<1>10. Store(l, r, p, n, q, par2, "fcount", m, f)
  BY <1>9, JobGoes
<1>11. Same(First(l, r, p, n, q, par2, "fcount", m), First(l, r, p, n, q, par, "verify", m))
  BY <1>9, JobGoes
<1> QED
  BY <1>10, <1>11 DEF Same

MarkNext(j, j2) ==
    \/ (j = "f3" /\ j2 = "info") \/ (j = "f40" /\ j2 = "secttop")
    \/ (j = "f41" /\ j2 = "sectnum") \/ (j = "f0" /\ j2 = "unlock")

LEMMA StoreMark ==
    ASSUME LogAssumption, NEW l \in Flashed, NEW r, NEW p, NEW n, NEW q, NEW par, NEW j, NEW m, NEW f,
           Store(l, r, p, n, q, par, j, m, f), RestsAt(l, p), Holds(q), NEW par2, SamePar(par, par2),
           par2.get_sector = par.get_sector, NEW j2, MarkNext(j, j2)
    PROVE  /\ Store(l, r, p, n, q, par2, j2, m, f)
           /\ Same(First(l, r, p, n, q, par2, j2, m), First(l, r, p, n, q, par, j, m))
<1>1. JobOK(l, m, f, par, j, AskedFrom(l, r, p, n, par.sramlog_kind))
  BY DEF Store
<1>2. JobOK(l, m, f, par2, j2, AskedFrom(l, r, p, n, par.sramlog_kind))
  BY <1>1 DEF JobOK, Replaced, Copied, Absorbed, MarkNext
<1>3. Alike(j, j2)
  BY DEF Alike, Counted, Absorbed, Replaced, Copied, MarkNext
<1>9. GoesOn(l, r, p, n, q, par, j, m, f, par2, j2)
  BY <1>2, <1>3 DEF GoesOn, Holds
<1>10. Store(l, r, p, n, q, par2, j2, m, f)
  BY <1>9, JobGoes
<1>11. Same(First(l, r, p, n, q, par2, j2, m), First(l, r, p, n, q, par, j, m))
  BY <1>9, JobGoes
<1> QED
  BY <1>10, <1>11 DEF Same

LEMMA StoreErase ==
    ASSUME LogAssumption, NEW l \in Flashed, NEW r, NEW p, NEW n, NEW q, NEW par, NEW m, NEW f,
           Store(l, r, p, n, q, par, "erase", m, f), RestsAt(l, p), Holds(q),
           NEW x, NEW f2, IsPut(f, par.get_sector, x, f2)
    PROVE  /\ Store(l, r, p, n, q, par, "write", m, f2)
           /\ Same(First(l, r, p, n, q, par, "write", m), First(l, r, p, n, q, par, "erase", m))
<1> DEFINE k    == par.sramlog_kind
           from == AskedFrom(l, r, p, n, k)
           to   == Stored(l, r, p, n, q, k, "erase")
<1>1. /\ BankOK(l, r, p, n, q, k, "erase") /\ AskedOK(l, r, par, q, from)
      /\ SectorsOK(l, m, f, "erase", to) /\ JobOK(l, m, f, par, "erase", from) /\ r.Fcount \in 0 .. sectmax[l]
  BY DEF Store
<1>2. BankOK(l, r, p, n, q, k, "write")
  <2>1. "write" \in Counted <=> "erase" \in Counted
    BY DEF Counted
  <2>2. q
    BY DEF Holds
  <2> QED
    BY <1>1, <2>1, <2>2, BankFlash
<1>3. Stored(l, r, p, n, q, k, "write") = to
  BY DEF Stored, Absorbed
<1>4. par.get_sector = Sec(l, m, m.sectnum)
  BY <1>1 DEF JobOK
<1>5. "write" \in Replaced
  BY DEF Replaced
<1> HIDE DEF from, to
<1>6. IsPut(f, Sec(l, m, m.sectnum), x, f2)
  BY <1>4
<1>7. SectorsOK(l, m, f2, "write", to)
  BY <1>1, <1>5, <1>6, SectorsWritten
<1>8. JobOK(l, m, f2, par, "write", from)
  BY <1>4 DEF JobOK, Replaced, Copied
<1>9. First(l, r, p, n, q, par, "write", m) = First(l, r, p, n, q, par, "erase", m)
  BY <1>3 DEF First, to
<1> QED
  BY <1>1, <1>2, <1>3, <1>7, <1>8, <1>9 DEF Store, from, Same

LEMMA StoreWritten ==
    ASSUME LogAssumption, NEW l \in Flashed, NEW r, NEW p, NEW n, NEW q, NEW par, NEW m, NEW f,
           Store(l, r, p, n, q, par, "write", m, f), RestsAt(l, p), Holds(q),
           NEW f2, IsPut(f, par.get_sector, r.dat[par.sramlog_kind], f2)
    PROVE  /\ Store(l, r, p, n, q, par, "verify", m, f2)
           /\ Same(First(l, r, p, n, q, par, "verify", m), First(l, r, p, n, q, par, "write", m))
<1> DEFINE k    == par.sramlog_kind
           from == AskedFrom(l, r, p, n, k)
           to   == Stored(l, r, p, n, q, k, "write")
           x    == r.dat[k]
<1>1. /\ BankOK(l, r, p, n, q, k, "write") /\ AskedOK(l, r, par, q, from)
      /\ SectorsOK(l, m, f, "write", to) /\ JobOK(l, m, f, par, "write", from) /\ r.Fcount \in 0 .. sectmax[l]
  BY DEF Store
<1>2. BankOK(l, r, p, n, q, k, "verify")
  <2>1. "verify" \in Counted <=> "write" \in Counted
    BY DEF Counted
  <2>2. q
    BY DEF Holds
  <2> QED
    BY <1>1, <2>1, <2>2, BankFlash
<1>3. Stored(l, r, p, n, q, k, "verify") = to
  BY DEF Stored, Absorbed
<1>4. par.get_sector = Sec(l, m, m.sectnum)
  BY <1>1 DEF JobOK, Replaced
<1>5. "verify" \in Replaced
  BY DEF Replaced, Copied
<1>0. x = Block(l, from)
  BY <1>1 DEF AskedOK, Holds
<1> HIDE DEF from, to
<1>6. IsPut(f, Sec(l, m, m.sectnum), x, f2)
  BY <1>4
<1> HIDE DEF x
<1>7. SectorsOK(l, m, f2, "verify", to) /\ f2[Sec(l, m, m.sectnum)] = x
  <2>1. SectorsOK(l, m, f, "write", to)
    BY <1>1
  <2>2. SectorsOK(l, m, f2, "verify", to)
    BY <2>1, <1>5, <1>6, SectorsWritten
  <2>3. Has(f2, Sec(l, m, m.sectnum), x)
    BY <2>1, <1>5, <1>6, SectorsWritten
  <2> QED
    BY <2>2, <2>3 DEF Has
<1>8. JobOK(l, m, f2, par, "verify", from)
  BY <1>0, <1>4, <1>7 DEF JobOK, Replaced, Copied
<1>9. First(l, r, p, n, q, par, "verify", m) = First(l, r, p, n, q, par, "write", m)
  BY <1>3 DEF First, to
<1> QED
  BY <1>1, <1>2, <1>3, <1>7, <1>8, <1>9 DEF Store, from, Same

\* A step that leaves the banks alone.
LikeBank(r, r2) ==
    IsLog(r2) /\ r2.kind = r.kind /\ r2.count = r.count /\ r2.wtp = r.wtp /\ r2.dat = r.dat

LEMMA StoreLike ==
    ASSUME LogAssumption, NEW l \in Flashed, NEW r, NEW p, NEW n, NEW q, NEW par, NEW j, NEW m, NEW f,
           Store(l, r, p, n, q, par, j, m, f), NEW r2, LikeBank(r, r2), r2.Fcount \in 0 .. sectmax[l]
    PROVE  /\ Store(l, r2, p, n, q, par, j, m, f)
           /\ Same(First(l, r2, p, n, q, par, j, m), First(l, r, p, n, q, par, j, m))
<1> DEFINE k    == par.sramlog_kind
           from == AskedFrom(l, r, p, n, k)
           to   == Stored(l, r, p, n, q, k, j)
<1>1. /\ BankOK(l, r, p, n, q, k, j) /\ AskedOK(l, r, par, q, from)
      /\ SectorsOK(l, m, f, j, to) /\ JobOK(l, m, f, par, j, from)
  BY DEF Store
<1>2. r2.kind = r.kind /\ r2.count = r.count /\ r2.wtp = r.wtp /\ r2.dat = r.dat /\ IsLog(r2)
  BY DEF LikeBank
<1>3. Fill(r2, p) = Fill(r, p)
  BY <1>2 DEF Fill
<1>4. AskedFrom(l, r2, p, n, k) = from
  BY <1>2, <1>3 DEF AskedFrom
<1>5. Stored(l, r2, p, n, q, k, j) = to
  BY <1>3, <1>4 DEF Stored
<1>6. PhaseOK(l, r2, p, q, k, j)
  BY <1>1, <1>2 DEF BankOK, PhaseOK
<1>7. DatOK(l, r2, p, n)
  BY <1>1, <1>2, <1>3 DEF BankOK, DatOK
<1>8. OtherOK(r2, q, k, j)
  BY <1>1, <1>2 DEF BankOK, OtherOK
<1> HIDE DEF k, from, to
<1>9. BankOK(l, r2, p, n, q, k, j)
  BY <1>1, <1>2, <1>6, <1>7, <1>8 DEF BankOK
<1>10. AskedOK(l, r2, par, q, from)
  BY <1>1, <1>2 DEF AskedOK
<1>11. First(l, r2, p, n, q, par, j, m) = First(l, r, p, n, q, par, j, m)
  BY <1>5 DEF First, to, k
<1> QED
  BY <1>1, <1>4, <1>5, <1>9, <1>10, <1>11 DEF Store, k, Same

LEMMA StoreFcount ==
    ASSUME LogAssumption, NEW l \in Flashed, NEW r, NEW p, NEW n, NEW q, NEW par, NEW m, NEW f,
           Store(l, r, p, n, q, par, "fcount", m, f), RestsAt(l, p), Holds(q),
           NEW r2, LikeBank(r, r2), r2.Fcount \in 0 .. sectmax[l], NEW j2 \in {"f3", "info"}
    PROVE  /\ Store(l, r2, p, n, q, par, j2, m, f)
           /\ Same(First(l, r2, p, n, q, par, j2, m), First(l, r, p, n, q, par, "fcount", m))
<1>1. Store(l, r2, p, n, q, par, "fcount", m, f)
  BY StoreLike
<1>8. Same(First(l, r2, p, n, q, par, "fcount", m), First(l, r, p, n, q, par, "fcount", m))
  BY StoreLike
<1>2. JobOK(l, m, f, par, "fcount", AskedFrom(l, r2, p, n, par.sramlog_kind))
  BY <1>1 DEF Store
<1>3. JobOK(l, m, f, par, j2, AskedFrom(l, r2, p, n, par.sramlog_kind))
  BY <1>2 DEF JobOK, Replaced, Copied
<1>4. Alike("fcount", j2)
  BY DEF Alike, Counted, Absorbed, Replaced, Copied
<1>5. GoesOn(l, r2, p, n, q, par, "fcount", m, f, par, j2)
  BY <1>1, <1>3, <1>4 DEF GoesOn, SamePar, Holds
<1>6. Store(l, r2, p, n, q, par, j2, m, f)
  BY <1>5, JobGoes
<1>7. Same(First(l, r2, p, n, q, par, j2, m), First(l, r2, p, n, q, par, "fcount", m))
  BY <1>5, JobGoes
<1> QED
  BY <1>6, <1>7, <1>8 DEF Same, Same

LEMMA StoreLowered ==
    ASSUME LogAssumption, NEW l \in Flashed, NEW r, NEW p, NEW n, NEW q, NEW par, NEW m, NEW f,
           Store(l, r, p, n, q, par, "unread", m, f), RestsAt(l, p), Holds(q),
           NEW r2, LikeBank(r, r2), r2.Fcount \in 0 .. sectmax[l]
    PROVE  /\ Store(l, r2, p, n, q, par, "count", m, f)
           /\ Same(First(l, r2, p, n, q, par, "count", m), First(l, r, p, n, q, par, "unread", m))
<1>1. Store(l, r2, p, n, q, par, "unread", m, f)
  BY StoreLike
<1>8. Same(First(l, r2, p, n, q, par, "unread", m), First(l, r, p, n, q, par, "unread", m))
  BY StoreLike
<1>3. JobOK(l, m, f, par, "count", AskedFrom(l, r2, p, n, par.sramlog_kind))
  BY DEF JobOK, Replaced, Copied, Absorbed
<1>4. Alike("unread", "count")
  BY DEF Alike, Counted, Absorbed, Replaced, Copied
<1>5. GoesOn(l, r2, p, n, q, par, "unread", m, f, par, "count")
  BY <1>1, <1>3, <1>4 DEF GoesOn, SamePar, Holds
<1>6. Store(l, r2, p, n, q, par, "count", m, f)
  BY <1>5, JobGoes
<1>7. Same(First(l, r2, p, n, q, par, "count", m), First(l, r2, p, n, q, par, "unread", m))
  BY <1>5, JobGoes
<1> QED
  BY <1>6, <1>7, <1>8 DEF Same, Same

LEMMA StoreInfo ==
    ASSUME LogAssumption, NEW l \in Flashed, NEW r, NEW p, NEW n, NEW q, NEW par, NEW m, NEW f,
           Store(l, r, p, n, q, par, "info", m, f), RestsAt(l, p), Holds(q),
           NEW g, IsPut(m.record_num, par.get_sector, par.record_num, g),
           NEW m2, MgrIs(m2, m.secttop, m.sectnum, g)
    PROVE  LET j2 == IF m.sectnum + 1 > sectmax[l] THEN "f40" ELSE "f41" IN
           /\ Store(l, r, p, n, q, par, j2, m2, f)
           /\ Same(First(l, r, p, n, q, par, j2, m2), First(l, r, p, n, q, par, "info", m))
<1> DEFINE k    == par.sramlog_kind
           from == AskedFrom(l, r, p, n, k)
           to   == Stored(l, r, p, n, q, k, "info")
           j2   == IF m.sectnum + 1 > sectmax[l] THEN "f40" ELSE "f41"
           x    == par.record_num
<1>1. /\ BankOK(l, r, p, n, q, k, "info") /\ AskedOK(l, r, par, q, from)
      /\ SectorsOK(l, m, f, "info", to) /\ JobOK(l, m, f, par, "info", from) /\ r.Fcount \in 0 .. sectmax[l]
  BY DEF Store
<1>2. j2 \in {"f40", "f41"}
  OBVIOUS
<1>3. j2 \in Replaced /\ j2 \notin Absorbed /\ j2 \notin Counted
  BY <1>2 DEF Replaced, Copied, Absorbed, Counted
<1>4. m.sectnum \in Nat /\ sectmax[l] \in Nat /\ m.sectnum <= sectmax[l]
  BY <1>1 DEF SectorsOK, LogAssumption
<1>5. par.get_sector = Sec(l, m, m.sectnum) /\ f[par.get_sector] = Block(l, from)
  BY <1>1 DEF JobOK, Replaced, Copied
<1>6. x = LOG_SECORNUM[l]
  BY <1>1 DEF AskedOK, Holds
<1>7. (j2 = "f40" => m.sectnum = sectmax[l]) /\ (j2 = "f41" => m.sectnum < sectmax[l])
  BY <1>4
<1> HIDE DEF from, to, j2, x
<1>8. IsPut(m.record_num, Sec(l, m, m.sectnum), x, g)
  BY <1>5 DEF x
<1>9. SectorsOK(l, m2, f, j2, to)
  BY <1>1, <1>3, <1>8, SectorsInfo
<1>10. m2.secttop = m.secttop /\ m2.sectnum = m.sectnum /\ m2.record_num = g
  BY DEF MgrIs
<1>11. Has(m2.record_num, Sec(l, m, m.sectnum), x)
  BY <1>1, <1>3, <1>8, SectorsInfo
<1>12. Sec(l, m2, m2.sectnum) = Sec(l, m, m.sectnum)
  BY <1>10 DEF Sec
<1>13. m2.record_num[par.get_sector] = LOG_SECORNUM[l]
  BY <1>5, <1>6, <1>11 DEF Has
<1>14. JobOK(l, m2, f, par, j2, from)
  BY <1>2, <1>5, <1>7, <1>10, <1>12, <1>13 DEF JobOK, Replaced, Copied
<1>15. BankOK(l, r, p, n, q, k, j2)
  <2>1. j2 \in Counted <=> "info" \in Counted
    BY <1>3 DEF Counted
  <2>2. q
    BY DEF Holds
  <2> QED
    BY <1>1, <2>1, <2>2, BankFlash
<1>16. Stored(l, r, p, n, q, k, j2) = to
  BY <1>3 DEF Stored, Absorbed, to
<1>17. First(l, r, p, n, q, par, j2, m2) = First(l, r, p, n, q, par, "info", m)
  BY <1>10, <1>16 DEF First, to
<1> QED
  BY <1>1, <1>9, <1>14, <1>15, <1>16, <1>17 DEF Store, from, j2, Same

LEMMA StoreTurned ==
    ASSUME LogAssumption, NEW l \in Flashed, NEW r, NEW p, NEW n, NEW q, NEW par, NEW m, NEW f,
           Store(l, r, p, n, q, par, "secttop", m, f), RestsAt(l, p), Holds(q),
           NEW m2, MgrIs(m2, Next1(l, m.secttop), m.sectnum, m.record_num)
    PROVE  /\ Store(l, r, p, n, q, par, "unread", m2, f)
           /\ Same(First(l, r, p, n, q, par, "unread", m2),
                   First(l, r, p, n, q, par, "secttop", m) + LOG_SECORNUM[l])
<1> DEFINE k    == par.sramlog_kind
           from == AskedFrom(l, r, p, n, k)
           s    == LOG_SECORNUM[l]
<1>1. /\ BankOK(l, r, p, n, q, k, "secttop") /\ AskedOK(l, r, par, q, from)
      /\ SectorsOK(l, m, f, "secttop", Stored(l, r, p, n, q, k, "secttop"))
      /\ JobOK(l, m, f, par, "secttop", from) /\ r.Fcount \in 0 .. sectmax[l]
  BY DEF Store
<1>2. Stored(l, r, p, n, q, k, "secttop") = from /\ Stored(l, r, p, n, q, k, "unread") = from + s
  <2>1. from \in Int
    BY FromIs
  <2>2. q /\ "secttop" \notin Absorbed /\ "unread" \in Absorbed
    BY DEF Holds, Absorbed
  <2>3. Stored(l, r, p, n, q, k, "secttop") = from + 0 /\ Stored(l, r, p, n, q, k, "unread") = from + s
    BY <2>2 DEF Stored
  <2> HIDE DEF from, s
  <2> QED
    BY <2>1, <2>3
<1>3. BankOK(l, r, p, n, q, k, "unread")
  <2>1. "unread" \in Counted <=> "secttop" \in Counted
    BY DEF Counted
  <2>2. q
    BY DEF Holds
  <2> QED
    BY <1>1, <2>1, <2>2, BankFlash
<1>4. from \in Int /\ s \in Int
  <2>1. from \in Int
    BY FromIs
  <2>2. s \in Nat
    BY DEF LogAssumption
  <2> QED
    BY <2>1, <2>2
<1>5. /\ par.get_sector = Sec(l, m, m.sectnum) /\ f[par.get_sector] = Block(l, from)
      /\ m.record_num[par.get_sector] = s /\ m.sectnum = sectmax[l]
  BY <1>1 DEF JobOK, Replaced, Copied
<1>6. m.sectnum \in Nat /\ sectmax[l] \in Nat
  BY <1>1 DEF SectorsOK, LogAssumption
<1>7. m.sectnum >= sectmax[l] /\ f[Sec(l, m, m.sectnum)] = Block(l, from) /\ m.record_num[Sec(l, m, m.sectnum)] = LOG_SECORNUM[l]
  BY <1>5, <1>6
<1> HIDE DEF from
<1>8. SectorsOK(l, m, f, "secttop", from)
  BY <1>1, <1>2
<1>9. SectorsOK(l, m2, f, "unread", from + s) /\ m2.sectnum = m.sectnum
  BY <1>4, <1>7, <1>8, SectorsTurned
<1>10. JobOK(l, m2, f, par, "unread", from)
  BY <1>5, <1>9 DEF JobOK, Replaced, Copied, Absorbed
<1>11. Back(l, m.sectnum) \in Int
  <2>1. Back(l, m.sectnum) \in Nat
    BY <1>6, BackIs
  <2> QED
    BY <2>1
<1>12. Same(First(l, r, p, n, q, par, "unread", m2), First(l, r, p, n, q, par, "secttop", m) + s)
  <2> DEFINE b == Back(l, m.sectnum)
  <2>1. First(l, r, p, n, q, par, "unread", m2) = (from + s) - b /\ First(l, r, p, n, q, par, "secttop", m) = from - b
    BY <1>2, <1>9 DEF First
  <2>2. b \in Int
    BY <1>11
  <2> HIDE DEF b, s
  <2> QED
    BY <1>4, <2>1, <2>2 DEF Same
<1>13. SectorsOK(l, m2, f, "unread", Stored(l, r, p, n, q, k, "unread"))
  BY <1>2, <1>9
<1> QED
  BY <1>1, <1>3, <1>10, <1>12, <1>13 DEF Store, from

LEMMA StoreGrown ==
    ASSUME LogAssumption, NEW l \in Flashed, NEW r, NEW p, NEW n, NEW q, NEW par, NEW m, NEW f,
           Store(l, r, p, n, q, par, "sectnum", m, f), RestsAt(l, p), Holds(q),
           NEW m2, MgrIs(m2, m.secttop, m.sectnum + 1, m.record_num)
    PROVE  /\ Store(l, r, p, n, q, par, "count", m2, f)
           /\ Same(First(l, r, p, n, q, par, "count", m2), First(l, r, p, n, q, par, "sectnum", m))
<1> DEFINE k    == par.sramlog_kind
           from == AskedFrom(l, r, p, n, k)
           s    == LOG_SECORNUM[l]
<1>1. /\ BankOK(l, r, p, n, q, k, "sectnum") /\ AskedOK(l, r, par, q, from)
      /\ SectorsOK(l, m, f, "sectnum", Stored(l, r, p, n, q, k, "sectnum"))
      /\ JobOK(l, m, f, par, "sectnum", from) /\ r.Fcount \in 0 .. sectmax[l]
  BY DEF Store
<1>2. Stored(l, r, p, n, q, k, "sectnum") = from /\ Stored(l, r, p, n, q, k, "count") = from + s
  <2>1. from \in Int
    BY FromIs
  <2>2. q /\ "sectnum" \notin Absorbed /\ "count" \in Absorbed
    BY DEF Holds, Absorbed
  <2>3. Stored(l, r, p, n, q, k, "sectnum") = from + 0 /\ Stored(l, r, p, n, q, k, "count") = from + s
    BY <2>2 DEF Stored
  <2> HIDE DEF from, s
  <2> QED
    BY <2>1, <2>3
<1>3. BankOK(l, r, p, n, q, k, "count")
  <2>1. "count" \in Counted <=> "sectnum" \in Counted
    BY DEF Counted
  <2>2. q
    BY DEF Holds
  <2> QED
    BY <1>1, <2>1, <2>2, BankFlash
<1>4. from \in Int /\ s \in Int
  <2>1. from \in Int
    BY FromIs
  <2>2. s \in Nat
    BY DEF LogAssumption
  <2> QED
    BY <2>1, <2>2
<1>5. /\ f[Sec(l, m, m.sectnum)] = Block(l, from) /\ m.record_num[Sec(l, m, m.sectnum)] = LOG_SECORNUM[l]
      /\ m.sectnum < sectmax[l]
  BY <1>1 DEF JobOK, Replaced, Copied
<1>6. m.sectnum \in Nat
  BY <1>1 DEF SectorsOK, LogAssumption
<1> HIDE DEF from
<1>8. SectorsOK(l, m, f, "sectnum", from)
  BY <1>1, <1>2
<1>9. SectorsOK(l, m2, f, "count", from + s)
  BY <1>4, <1>5, <1>8, SectorsGrown
<1>10. Back(l, m2.sectnum) = Back(l, m.sectnum) + s
  <2>1. m2.sectnum = m.sectnum + 1
    BY DEF MgrIs
  <2> QED
    BY <1>6, <2>1, BackIs
<1>11. JobOK(l, m2, f, par, "count", from)
  BY DEF JobOK, Replaced, Copied, Absorbed
<1>12. Same(First(l, r, p, n, q, par, "count", m2), First(l, r, p, n, q, par, "sectnum", m))
  <2> DEFINE b == Back(l, m.sectnum)
  <2>1. First(l, r, p, n, q, par, "count", m2) = (from + s) - (b + s) /\ First(l, r, p, n, q, par, "sectnum", m) = from - b
    BY <1>2, <1>10 DEF First
  <2>2. b \in Int
    <3>1. Back(l, m.sectnum) \in Nat
      BY <1>6, BackIs
    <3> QED
      BY <3>1
  <2> HIDE DEF b, s
  <2> QED
    BY <1>4, <2>1, <2>2 DEF Same
<1>13. SectorsOK(l, m2, f, "count", Stored(l, r, p, n, q, k, "count"))
  BY <1>2, <1>9
<1> QED
  BY <1>1, <1>3, <1>11, <1>12, <1>13 DEF Store, from

\* The bank is emptied and the request ends.
LEMMA StoreCounted ==
    ASSUME LogAssumption, NEW l \in Flashed, NEW r, NEW p, NEW n, NEW q, NEW par, NEW m, NEW f,
           Store(l, r, p, n, q, par, "count", m, f), RestsAt(l, p), Holds(q),
           NEW x, Emptied(r, par.sramlog_kind, x), x.Fcount \in 0 .. sectmax[l]
    PROVE  /\ Store(l, x, p, n, q, par, "f0", m, f)
           /\ Same(First(l, x, p, n, q, par, "f0", m), First(l, r, p, n, q, par, "count", m))
<1> DEFINE k    == par.sramlog_kind
           from == AskedFrom(l, r, p, n, k)
           to   == Stored(l, r, p, n, q, k, "count")
<1>1. /\ BankOK(l, r, p, n, q, k, "count") /\ AskedOK(l, r, par, q, from)
      /\ SectorsOK(l, m, f, "count", to) /\ JobOK(l, m, f, par, "count", from)
  BY DEF Store
<1> HIDE DEF k
<1>3. IsLog(x) /\ x.kind = r.kind /\ x.wtp = r.wtp /\ x.dat = r.dat /\ x.count = [r.count EXCEPT ![k] = 0]
  BY DEF Emptied, k
<1>4. /\ BankOK(l, x, p, n, q, k, "f0")
      /\ AskedFrom(l, x, p, n, k) = AskedFrom(l, r, p, n, k)
      /\ Stored(l, x, p, n, q, k, "f0") = Stored(l, r, p, n, q, k, "count")
  <2>1. Emptied(r, k, x)
    BY DEF k
  <2>0. BankOK(l, r, p, n, q, k, "count")
    BY <1>1
  <2>2. BankOK(l, x, p, n, q, k, "f0")
    BY <2>0, <2>1, BankCounted
  <2>3. Same(AskedFrom(l, x, p, n, k), AskedFrom(l, r, p, n, k))
    BY <2>0, <2>1, BankCounted
  <2>4. Same(Stored(l, x, p, n, q, k, "f0"), Stored(l, r, p, n, q, k, "count"))
    BY <2>0, <2>1, BankCounted
  <2> QED
    BY <2>2, <2>3, <2>4 DEF Same
<1> HIDE DEF from, to
<1>5. AskedOK(l, x, par, q, from)
  BY <1>1, <1>3 DEF AskedOK
<1>6. SectorsOK(l, m, f, "f0", to)
  BY <1>1 DEF SectorsOK, Replaced, Copied
<1>7. JobOK(l, m, f, par, "f0", from)
  BY DEF JobOK, Replaced, Copied, Absorbed
<1>8. Same(First(l, x, p, n, q, par, "f0", m), First(l, r, p, n, q, par, "count", m))
  BY <1>4 DEF First, Same, k
<1> QED
  BY <1>4, <1>5, <1>6, <1>7, <1>8 DEF Store, from, to, k

LEMMA StoreUnlocked ==
    ASSUME LogAssumption, NEW l \in Flashed, NEW r, NEW p, NEW n, NEW q, NEW par, NEW m, NEW f,
           Store(l, r, p, n, q, par, "unlock", m, f), RestsAt(l, p), NEW z, z = FALSE
    PROVE  /\ Store(l, r, p, n, z, par, "idle", m, f)
           /\ Same(First(l, r, p, n, z, par, "idle", m), First(l, r, p, n, q, par, "unlock", m))
<1> DEFINE k    == par.sramlog_kind
           from == AskedFrom(l, r, p, n, k)
           to   == Stored(l, r, p, n, q, k, "unlock")
<1>1. /\ BankOK(l, r, p, n, q, k, "unlock") /\ SectorsOK(l, m, f, "unlock", to) /\ r.Fcount \in 0 .. sectmax[l]
  BY DEF Store
<1> HIDE DEF k
<1>2. BankOK(l, r, p, n, z, k, "idle")
  BY <1>1, BankUnlocked
<1>3. Stored(l, r, p, n, z, k, "idle") = Stored(l, r, p, n, q, k, "unlock")
  BY <1>1, BankUnlocked
<1> HIDE DEF from, to
<1>5. AskedOK(l, r, par, z, from)
  BY DEF AskedOK
<1>6. SectorsOK(l, m, f, "idle", to)
  BY <1>1 DEF SectorsOK, Replaced, Copied
<1>7. JobOK(l, m, f, par, "idle", from)
  BY DEF JobOK, Replaced, Copied, Absorbed
<1>8. Same(First(l, r, p, n, z, par, "idle", m), First(l, r, p, n, q, par, "unlock", m))
  BY <1>3 DEF First, Same, k
<1>9. SectorsOK(l, m, f, "idle", Stored(l, r, p, n, z, k, "idle"))
  BY <1>3, <1>6 DEF to
<1> QED
  BY <1>1, <1>2, <1>5, <1>7, <1>8, <1>9 DEF Store, from, k

-----------------------------------------------------------------------------
(* The steps of Log_Write with such a log. *)

Bit(k) == k \in {0, 1}
Filled(r, p, n, q, k, r2, p2, n2) ==
    /\ r2.kind = r.kind /\ n2 - Fill(r2, p2) = n - Fill(r, p) /\ r2.Fcount = r.Fcount
    /\ q => r2.dat[k] = r.dat[k]
    /\ q /\ k = r.kind => n2 = n

\* While the bank in use is asked for, nothing is added to it.
LEMMA StepIs ==
    ASSUME LogAssumption, NEW l \in Flashed, NEW r, NEW p, NEW n, NEW q, NEW k, NEW j, BankOK(l, r, p, n, q, k, j),
           NEW r2, NEW p2, NEW n2, BankOK(l, r2, p2, n2, q, k, j), Filled(r, p, n, q, k, r2, p2, n2)
    PROVE  StepOf(l, r, p, n, q, k, j, r2, p2, n2)
<1>1. n \in Int /\ n2 \in Int /\ Fill(r, p) \in Int /\ Fill(r2, p2) \in Int /\ LOG_SECORNUM[l] \in Int
  <2>1. n \in Nat /\ Fill(r, p) \in Int /\ LOG_SECORNUM[l] \in Nat
    BY FillIs
  <2>2. n2 \in Nat /\ Fill(r2, p2) \in Int
    BY FillIs
  <2> QED
    BY <2>1, <2>2
<1>2. /\ r2.kind = r.kind /\ n2 - Fill(r2, p2) = n - Fill(r, p) /\ r2.Fcount = r.Fcount
      /\ q => r2.dat[k] = r.dat[k]
      /\ q /\ k = r.kind => n2 = n
  BY DEF Filled
<1>3. /\ Stored(l, r2, p2, n2, q, k, j) = Stored(l, r, p, n, q, k, j)
      /\ q => AskedFrom(l, r2, p2, n2, k) = AskedFrom(l, r, p, n, k)
  <2> DEFINE a == Fill(r, p)
             b == Fill(r2, p2)
             s == LOG_SECORNUM[l]
  <2>1. n \in Int /\ n2 \in Int /\ a \in Int /\ b \in Int /\ s \in Int /\ n2 - b = n - a
    BY <1>1, <1>2
  <2> HIDE DEF a, b, s
  <2>2. n2 - s - b = n - s - a
    BY <2>1
  <2>3. q /\ k = r.kind => n2 - s - 0 = n - s - 0
    BY <1>2
  <2>4. AskedFrom(l, r2, p2, n2, k) = n2 - s - (IF k = r.kind THEN 0 ELSE b)
    BY <1>2 DEF AskedFrom, s, b
  <2>5. AskedFrom(l, r, p, n, k) = n - s - (IF k = r.kind THEN 0 ELSE a)
    BY DEF AskedFrom, s, a
  <2>6. q => AskedFrom(l, r2, p2, n2, k) = AskedFrom(l, r, p, n, k)
    BY <2>2, <2>3, <2>4, <2>5
  <2>7. Stored(l, r2, p2, n2, q, k, j) = Stored(l, r, p, n, q, k, j)
    BY <2>1, <2>6 DEF Stored, a, b
  <2> QED
    BY <2>6, <2>7
<1> QED
  BY <1>2, <1>3 DEF StepOf

LEMMA StoreMarked ==
    ASSUME LogAssumption, NEW l \in Flashed, NEW r, NEW p, NEW n, NEW q, NEW par, NEW j, NEW m, NEW f,
           Store(l, r, p, n, q, par, j, m, f), NEW p2, MarkTo(l, r, p, p2)
    PROVE  /\ Store(l, r, p2, n, q, par, j, m, f)
           /\ Same(First(l, r, p2, n, q, par, j, m), First(l, r, p, n, q, par, j, m))
<1> DEFINE k == par.sramlog_kind
<1>1. BankOK(l, r, p, n, q, k, j)
  BY DEF Store
<1> HIDE DEF k
<1>2. BankOK(l, r, p2, n, q, k, j)
  BY <1>1, BankMark
<1>3. Same(Fill(r, p2), Fill(r, p))
  BY <1>1, BankMark
<1>5. Filled(r, p, n, q, k, r, p2, n)
  BY <1>3 DEF Filled, Same
<1>6. StepOf(l, r, p, n, q, k, j, r, p2, n)
  BY <1>1, <1>2, <1>5, StepIs
<1>7. Store(l, r, p2, n, q, par, j, m, f)
  BY <1>6, StoreStep DEF k
<1>8. Same(First(l, r, p2, n, q, par, j, m), First(l, r, p, n, q, par, j, m))
  BY <1>6, StoreStep DEF k
<1> QED
  BY <1>7, <1>8

LEMMA StoreWaited ==
    ASSUME LogAssumption, NEW l \in Flashed, NEW r, NEW p, NEW n, NEW q, NEW par, NEW j, NEW m, NEW f,
           Store(l, r, p, n, q, par, j, m, f), NEW p2, Waited(p, p2, q)
    PROVE  /\ Store(l, r, p2, n, q, par, j, m, f)
           /\ Same(First(l, r, p2, n, q, par, j, m), First(l, r, p, n, q, par, j, m))
<1> DEFINE k == par.sramlog_kind
<1>1. BankOK(l, r, p, n, q, k, j)
  BY DEF Store
<1> HIDE DEF k
<1>2. BankOK(l, r, p2, n, q, k, j)
  BY <1>1, BankWaited
<1>3. Same(Fill(r, p2), Fill(r, p))
  BY <1>1, BankWaited
<1>5. Filled(r, p, n, q, k, r, p2, n)
  BY <1>3 DEF Filled, Same
<1>6. StepOf(l, r, p, n, q, k, j, r, p2, n)
  BY <1>1, <1>2, <1>5, StepIs
<1>7. Store(l, r, p2, n, q, par, j, m, f)
  BY <1>6, StoreStep DEF k
<1>8. Same(First(l, r, p2, n, q, par, j, m), First(l, r, p, n, q, par, j, m))
  BY <1>6, StoreStep DEF k
<1> QED
  BY <1>7, <1>8

LEMMA StoreCount ==
    ASSUME LogAssumption, NEW l \in Flashed, NEW r, NEW n, NEW q, NEW par, NEW j, NEW m, NEW f,
           Store(l, r, "count", n, q, par, j, m, f), NEW x, CountOf(r, x)
    PROVE  /\ Store(l, x, "f3", n, q, par, j, m, f)
           /\ Same(First(l, x, "f3", n, q, par, j, m), First(l, r, "count", n, q, par, j, m))
<1> DEFINE k == par.sramlog_kind
<1>1. BankOK(l, r, "count", n, q, k, j)
  BY DEF Store
<1> HIDE DEF k
<1>2. BankOK(l, x, "f3", n, q, k, j)
  BY <1>1, BankCount
<1>3. Same(Fill(x, "f3"), Fill(r, "count"))
  BY <1>1, BankCount
<1>5. Filled(r, "count", n, q, k, x, "f3", n)
  BY <1>3 DEF Filled, Same, CountOf
<1>6. StepOf(l, r, "count", n, q, k, j, x, "f3", n)
  BY <1>1, <1>2, <1>5, StepIs
<1>7. Store(l, x, "f3", n, q, par, j, m, f)
  BY <1>6, StoreStep DEF k
<1>8. Same(First(l, x, "f3", n, q, par, j, m), First(l, r, "count", n, q, par, j, m))
  BY <1>6, StoreStep DEF k
<1> QED
  BY <1>7, <1>8

LEMMA StoreAdvance ==
    ASSUME LogAssumption, NEW l \in Flashed, NEW r, NEW n, NEW q, NEW par, NEW j, NEW m, NEW f,
           Store(l, r, "wtp", n, q, par, j, m, f), NEW x, AdvanceOf(r, x)
    PROVE  /\ Store(l, x, "f4", n, q, par, j, m, f)
           /\ Same(First(l, x, "f4", n, q, par, j, m), First(l, r, "wtp", n, q, par, j, m))
<1> DEFINE k == par.sramlog_kind
<1>1. BankOK(l, r, "wtp", n, q, k, j)
  BY DEF Store
<1> HIDE DEF k
<1>2. BankOK(l, x, "f4", n, q, k, j)
  BY <1>1, BankAdvance
<1>3. Same(Fill(x, "f4"), Fill(r, "wtp"))
  BY <1>1, BankAdvance
<1>5. Filled(r, "wtp", n, q, k, x, "f4", n)
  BY <1>3 DEF Filled, Same, AdvanceOf
<1>6. StepOf(l, r, "wtp", n, q, k, j, x, "f4", n)
  BY <1>1, <1>2, <1>5, StepIs
<1>7. Store(l, x, "f4", n, q, par, j, m, f)
  BY <1>6, StoreStep DEF k
<1>8. Same(First(l, x, "f4", n, q, par, j, m), First(l, r, "wtp", n, q, par, j, m))
  BY <1>6, StoreStep DEF k
<1> QED
  BY <1>7, <1>8

LEMMA StoreClear ==
    ASSUME LogAssumption, NEW l \in Flashed, NEW r, NEW p, NEW n, NEW q, NEW par, NEW j, NEW m, NEW f,
           Store(l, r, p, n, q, par, j, m, f), NEW p2, ClearTo(p, p2), NEW x, ClearOf(r, x)
    PROVE  /\ Store(l, x, p2, n, q, par, j, m, f)
           /\ Same(First(l, x, p2, n, q, par, j, m), First(l, r, p, n, q, par, j, m))
<1> DEFINE k == par.sramlog_kind
<1>1. BankOK(l, r, p, n, q, k, j)
  BY DEF Store
<1> HIDE DEF k
<1>2. BankOK(l, x, p2, n, q, k, j)
  BY <1>1, BankClear
<1>3. Same(Fill(x, p2), Fill(r, p))
  BY <1>1, BankClear
<1>5. Filled(r, p, n, q, k, x, p2, n)
  BY <1>3 DEF Filled, Same, ClearOf
<1>6. StepOf(l, r, p, n, q, k, j, x, p2, n)
  BY <1>1, <1>2, <1>5, StepIs
<1>7. Store(l, x, p2, n, q, par, j, m, f)
  BY <1>6, StoreStep DEF k
<1>8. Same(First(l, x, p2, n, q, par, j, m), First(l, r, p, n, q, par, j, m))
  BY <1>6, StoreStep DEF k
<1> QED
  BY <1>7, <1>8

\* Not the bank asked for.
LEMMA StoreCopied ==
    ASSUME LogAssumption, NEW l \in Flashed, NEW r, NEW n, NEW q, NEW par, NEW j, NEW m, NEW f,
           Store(l, r, "copy", n, q, par, j, m, f), NEW x, CopyOf(r, n, x), Bit(par.sramlog_kind)
    PROVE  /\ Store(l, x, "f2", n, q, par, j, m, f)
           /\ Same(First(l, x, "f2", n, q, par, j, m), First(l, r, "copy", n, q, par, j, m))
<1> DEFINE k == par.sramlog_kind
<1>1. BankOK(l, r, "copy", n, q, k, j)
  BY DEF Store
<1> HIDE DEF k
<1>2. BankOK(l, x, "f2", n, q, k, j)
  BY <1>1, BankCopy
<1>3. Same(Fill(x, "f2"), Fill(r, "copy"))
  BY <1>1, BankCopy
<1>4. q => x.dat[k] = r.dat[k]
  <2>1. q => k # r.kind
    BY <1>1 DEF BankOK, PhaseOK
  <2>2. r.kind \in {0, 1} /\ k \in {0, 1}
    BY <1>1 DEF BankOK, IsLog, Bit, k
  <2>3. q => k = 1 - r.kind
    BY <2>1, <2>2
  <2>4. Same(x.dat[1 - r.kind], r.dat[1 - r.kind])
    BY <1>1, BankCopy
  <2> QED
    BY <2>3, <2>4 DEF Same
<1>5. Filled(r, "copy", n, q, k, x, "f2", n)
  BY <1>3, <1>4 DEF Filled, Same, CopyOf
<1>6. StepOf(l, r, "copy", n, q, k, j, x, "f2", n)
  BY <1>1, <1>2, <1>5, StepIs
<1>7. Store(l, x, "f2", n, q, par, j, m, f)
  BY <1>6, StoreStep DEF k
<1>8. Same(First(l, x, "f2", n, q, par, j, m), First(l, r, "copy", n, q, par, j, m))
  BY <1>6, StoreStep DEF k
<1> QED
  BY <1>7, <1>8

LEMMA StoreToggle ==
    ASSUME LogAssumption, NEW l \in Flashed, NEW r, NEW n, NEW q, NEW par, NEW j, NEW m, NEW f,
           Store(l, r, "toggle", n, q, par, j, m, f), NEW x, ToggleOf(r, x)
    PROVE  /\ Store(l, x, "f321", n, q, par, j, m, f)
           /\ Same(First(l, x, "f321", n, q, par, j, m), First(l, r, "toggle", n, q, par, j, m))
<1> DEFINE k == par.sramlog_kind
<1>1. BankOK(l, r, "toggle", n, q, k, j)
  BY DEF Store
<1> HIDE DEF k
<1>2. BankOK(l, x, "f321", n, q, k, j)
  BY <1>1, BankToggle
<1>3. Same(AskedFrom(l, x, "f321", n, k), AskedFrom(l, r, "toggle", n, k))
  BY <1>1, BankToggle
<1>4. Same(Stored(l, x, "f321", n, q, k, j), Stored(l, r, "toggle", n, q, k, j))
  BY <1>1, BankToggle
<1>6. StepOf(l, r, "toggle", n, q, k, j, x, "f321", n)
  BY <1>2, <1>3, <1>4 DEF StepOf, Same, ToggleOf
<1>7. Store(l, x, "f321", n, q, par, j, m, f)
  BY <1>6, StoreStep DEF k
<1>8. Same(First(l, x, "f321", n, q, par, j, m), First(l, r, "toggle", n, q, par, j, m))
  BY <1>6, StoreStep DEF k
<1> QED
  BY <1>7, <1>8

LEMMA StoreBegins ==
    ASSUME LogAssumption, NEW l \in Flashed, NEW r, NEW n, NEW q, NEW par, NEW j, NEW m, NEW f,
           Store(l, r, "idle", n, q, par, j, m, f), n < MaxRecords[l]
    PROVE  /\ Store(l, r, "accept", n + 1, q, par, j, m, f)
           /\ Same(First(l, r, "accept", n + 1, q, par, j, m), First(l, r, "idle", n, q, par, j, m))
<1> DEFINE k == par.sramlog_kind
           n2 == n + 1
<1>1. BankOK(l, r, "idle", n, q, k, j)
  BY DEF Store
<1> HIDE DEF k
<1>2. BankOK(l, r, "accept", n2, q, k, j)
  BY <1>1, BankBegins
<1>3. n \in Nat /\ r.count[r.kind] \in Nat
  BY <1>1, FillIs
<1>4. Fill(r, "idle") = r.count[r.kind] /\ Fill(r, "accept") = r.count[r.kind] + 1
  BY <1>3 DEF Fill, Before
<1>5. ~ (q /\ k = r.kind)
  BY <1>1 DEF BankOK, PhaseOK
<1>6. n2 - Fill(r, "accept") = n - Fill(r, "idle")
  <2> DEFINE c == r.count[r.kind]
  <2>1. c \in Nat /\ n \in Nat /\ Fill(r, "idle") = c /\ Fill(r, "accept") = c + 1
    BY <1>3, <1>4
  <2> HIDE DEF c
  <2>2. (n + 1) - (c + 1) = n - c
    BY <2>1
  <2> QED
    BY <2>1, <2>2
<1> HIDE DEF n2
<1>7. Filled(r, "idle", n, q, k, r, "accept", n2)
  BY <1>5, <1>6 DEF Filled
<1>8. StepOf(l, r, "idle", n, q, k, j, r, "accept", n2)
  BY <1>1, <1>2, <1>7, StepIs
<1>9. Store(l, r, "accept", n2, q, par, j, m, f)
  BY <1>8, StoreStep DEF k
<1>10. Same(First(l, r, "accept", n2, q, par, j, m), First(l, r, "idle", n, q, par, j, m))
  BY <1>8, StoreStep DEF k
<1> QED
  BY <1>9, <1>10 DEF n2

AskedIn(r, par) == par.record_num = r.count[r.kind] /\ par.sramlog_kind = r.kind

LEMMA StoreRequest ==
    ASSUME LogAssumption, NEW l \in Flashed, NEW r, NEW n, NEW q, NEW par, NEW j, NEW m, NEW f,
           Store(l, r, "request", n, q, par, j, m, f), NEW par2, AskedIn(r, par2), NEW z, IsTrue(z)
    PROVE  /\ Store(l, r, "f31", n, z, par2, j, m, f)
           /\ Same(First(l, r, "f31", n, z, par2, j, m), First(l, r, "request", n, q, par, j, m))
<1> DEFINE k  == par.sramlog_kind
           k2 == r.kind
<1>1. BankOK(l, r, "request", n, q, k, j) /\ SectorsOK(l, m, f, j, Stored(l, r, "request", n, q, k, j))
      /\ r.Fcount \in 0 .. sectmax[l]
  BY DEF Store
<1>2. /\ BankOK(l, r, "f31", n, z, k2, j)
      /\ r.count[k2] = LOG_SECORNUM[l]
      /\ r.dat[k2] = Block(l, AskedFrom(l, r, "f31", n, k2))
      /\ Stored(l, r, "f31", n, z, k2, j) = Stored(l, r, "request", n, q, k, j)
  <2>1. BankOK(l, r, "f31", n, z, k2, j)
    BY <1>1, BankRequest
  <2>2. Same(r.count[k2], LOG_SECORNUM[l])
    BY <1>1, BankRequest
  <2>3. Same(r.dat[k2], Block(l, AskedFrom(l, r, "f31", n, k2)))
    BY <1>1, BankRequest
  <2>4. Same(Stored(l, r, "f31", n, z, k2, j), Stored(l, r, "request", n, q, k, j))
    BY <1>1, BankRequest
  <2> QED
    BY <2>1, <2>2, <2>3, <2>4 DEF Same
<1>3. j = "idle"
  BY <1>1 DEF BankOK, PhaseOK
<1>4. par2.record_num = LOG_SECORNUM[l] /\ par2.sramlog_kind = k2
  BY <1>2 DEF AskedIn
<1> HIDE DEF k, k2
<1>5. AskedOK(l, r, par2, z, AskedFrom(l, r, "f31", n, k2))
  BY <1>2, <1>4 DEF AskedOK
<1>6. JobOK(l, m, f, par2, j, AskedFrom(l, r, "f31", n, k2))
  BY <1>3 DEF JobOK, Replaced, Copied, Absorbed
<1>7. SectorsOK(l, m, f, j, Stored(l, r, "f31", n, z, k2, j))
  BY <1>1, <1>2
<1>8. First(l, r, "f31", n, z, par2, j, m) = First(l, r, "request", n, q, par, j, m)
  BY <1>2, <1>4 DEF First, k
<1>9. Store(l, r, "f31", n, z, par2, j, m, f)
  BY <1>1, <1>2, <1>4, <1>5, <1>6, <1>7 DEF Store
<1> QED
  BY <1>8, <1>9 DEF Same

-----------------------------------------------------------------------------
(* What the readers find by index. *)

Flattens(seqs, n, f) == f = [i \in 1 .. n |-> IF i = 1 THEN seqs[i] ELSE f[i - 1] \o seqs[i]]

LEMMA FlattenIs ==
    ASSUME NEW q, Len(q) # 0, NEW g, Flattens(q, Len(q), g)
    PROVE  \E f : Flattens(q, Len(q), f) /\ FlattenSeq(q) = f[Len(q)]
<1> DEFINE f == CHOOSE f : f = [i \in 1 .. Len(q) |-> IF i = 1 THEN q[i] ELSE f[i - 1] \o q[i]]
<1>1. Flattens(q, Len(q), f)
  BY Zenon DEF Flattens
<1>2. FlattenSeq(q) = f[Len(q)]
  BY Zenon DEF FlattenSeq
<1> QED
  BY <1>1, <1>2, Zenon

LEMMA FlattenOne ==
    ASSUME NEW q, NEW n \in Nat, NEW f, NEW g, Flattens(q, n, f), Flattens(q, n, g)
    PROVE  \A i \in 1 .. n : f[i] = g[i]
<1> DEFINE T == {i \in 1 .. n : f[i] # g[i]}
<1> SUFFICES ASSUME T # {} PROVE FALSE
  OBVIOUS
<1>0. T \in SUBSET Nat
  OBVIOUS
<1>1. PICK i \in T : \A k \in T : i <= k
  <2> HIDE DEF T
  <2> QED
    BY <1>0, LeastNumber
<1>2. i \in 1 .. n /\ f[i] # g[i]
  OBVIOUS
<1>3. /\ f[i] = IF i = 1 THEN q[i] ELSE f[i - 1] \o q[i]
      /\ g[i] = IF i = 1 THEN q[i] ELSE g[i - 1] \o q[i]
  BY <1>2 DEF Flattens
<1>4. i # 1 => i - 1 \in 1 .. n /\ i - 1 < i
  BY <1>2
<1>5. i # 1 => f[i - 1] = g[i - 1]
  BY <1>1, <1>2, <1>4
<1> QED
  BY <1>2, <1>3, <1>5

LEMMA UpToJoin ==
    ASSUME NEW a \in Int, NEW b \in Int, NEW c \in Int, a <= b, b <= c
    PROVE  /\ UpTo(a, b) \o UpTo(b, c) = UpTo(a, c)
           /\ Len(UpTo(a, b)) = b - a
BY DEF UpTo

\* The k-th sector.
SectorAt(l, m, f, to, k) ==
    LET s == (m.secttop + k - 1) % sectmax[l]
        a == to - Back(l, m.sectnum) IN
    /\ f[s] # None
    /\ FirstRecords(f[s], m.record_num[s]) = UpTo(a + Back(l, k - 1), a + Back(l, k))

LEMMA SectorIs ==
    ASSUME LogAssumption, NEW l \in Flashed, NEW m, NEW f, NEW j, NEW to \in 0 .. MaxRecords[l],
           SectorsOK(l, m, f, j, to), j \notin Replaced, NEW k \in 1 .. m.sectnum
    PROVE  SectorAt(l, m, f, to, k)
<1> DEFINE s == (m.secttop + k - 1) % sectmax[l]
           a == to - Back(l, m.sectnum)
           z == LOG_SECORNUM[l]
           i == m.sectnum - (k - 1)
           b == to - Back(l, i)
<1>1. /\ m.secttop \in Nat /\ m.sectnum \in Nat /\ to \in Nat /\ z \in Nat \ {0} /\ MaxRecords[l] \in Nat
      /\ to >= Back(l, m.sectnum) /\ m.sectnum <= sectmax[l] /\ sectmax[l] \in Nat
  BY DEF SectorsOK, Sectors, LogAssumption
<1>2. i \in 1 .. m.sectnum /\ m.sectnum - i = k - 1 /\ m.secttop + (k - 1) = m.secttop + k - 1
      /\ i \in Nat /\ k - 1 \in Nat /\ k - 1 \in 0 .. m.sectnum /\ (k - 1) + 1 = k
  <2> HIDE DEF s, a, b, z
  <2> DEFINE n == m.sectnum
  <2>1. k \in Nat /\ k >= 1 /\ k <= n /\ n \in Nat
    BY <1>1
  <2> HIDE DEF n
  <2>2. /\ n - (k - 1) \in 1 .. n /\ n - (n - (k - 1)) = k - 1
        /\ n - (k - 1) \in Nat /\ k - 1 \in Nat /\ k - 1 \in 0 .. n /\ (k - 1) + 1 = k
    BY <2>1
  <2>3. m.secttop + (k - 1) = m.secttop + k - 1
    BY <1>1, <2>1
  <2> QED
    BY <2>2, <2>3 DEF n
<1>3. Sec(l, m, m.sectnum - i) = s
  BY <1>2 DEF Sec
<1>4. f[s] = Block(l, b) /\ m.record_num[s] = z
  BY <1>2, <1>3 DEF SectorsOK
<1>5. /\ Back(l, m.sectnum) - Back(l, i) = Back(l, k - 1)
      /\ Back(l, k) = Back(l, k - 1) + z /\ Back(l, k - 1) \in Nat
      /\ Back(l, m.sectnum) \in Nat /\ Back(l, i) \in Nat
  <2>1. Back(l, m.sectnum) - Back(l, m.sectnum - (k - 1)) = Back(l, k - 1)
    <3> DEFINE h == k - 1
               n == m.sectnum
    <3>1. h \in 0 .. n /\ n \in Nat
      BY <1>1, <1>2
    <3> HIDE DEF h, n
    <3>0. \A i1 \in Nat : \A k1 \in 0 .. i1 : Back(l, i1) - Back(l, i1 - k1) = Back(l, k1)
      BY BackIs
    <3>2. Back(l, n) - Back(l, n - h) = Back(l, h)
      BY <3>0, <3>1, Zenon
    <3> QED
      BY <3>2 DEF h, n
  <2>2. Back(l, (k - 1) + 1) = Back(l, k - 1) + z /\ Back(l, k - 1) \in Nat
    BY <1>2, BackIs
  <2>3. Back(l, m.sectnum) \in Nat /\ Back(l, i) \in Nat
    BY <1>1, <1>2, BackIs
  <2> QED
    BY <2>1, <2>2, <2>3, <1>2
<1>6. Back(l, i) >= z
  <2>1. i - 1 \in Nat /\ (i - 1) + 1 = i
    BY <1>2
  <2>2. Back(l, (i - 1) + 1) = Back(l, i - 1) + z /\ Back(l, i - 1) \in Nat
    BY <2>1, BackIs
  <2> HIDE DEF i, z
  <2> QED
    BY <2>1, <2>2, <1>1
<1>7. b = a + Back(l, k - 1) /\ b + z = a + Back(l, k) /\ b \in Nat /\ b + z <= to
  <2> DEFINE u == Back(l, m.sectnum)
             v == Back(l, i)
             w == Back(l, k - 1)
             x == Back(l, k)
  <2>1. u \in Nat /\ v \in Nat /\ w \in Nat /\ u - v = w /\ x = w + z /\ v >= z /\ to >= u /\ to \in Nat /\ z \in Nat
    BY <1>1, <1>5, <1>6
  <2> HIDE DEF u, v, w, x, z
  <2>2. to - v = (to - u) + w /\ (to - v) + z = (to - u) + x /\ to - v \in Nat /\ (to - v) + z <= to
    BY <2>1
  <2> QED
    BY <2>2 DEF u, v, w, x
<1> HIDE DEF a, b, i
<1>8. Block(l, b) # None
  <2>1. Block(l, b) \in [0 .. z - 1 -> 0 .. MaxRecords[l]]
    BY <1>1, <1>7 DEF Block
  <2> QED
    BY <2>1, NoneAssumption
<1>9. FirstRecords(Block(l, b), z) = UpTo(b, b + z)
  BY <1>1, <1>7 DEF FirstRecords, Block, UpTo
<1> QED
  BY <1>4, <1>7, <1>8, <1>9 DEF a, SectorAt

LEMMA InFlashIs ==
    ASSUME LogAssumption, NEW l \in Flashed, NEW j, NEW to \in 0 .. MaxRecords[l],
           SectorsOK(l, log_mgr[l], flash[l], j, to), j \notin Replaced
    PROVE  InFlash(l) = UpTo(to - Back(l, log_mgr[l].sectnum), to)
<1> DEFINE m == log_mgr[l]
           N == m.sectnum
           a == to - Back(l, N)
           q == [k \in 1 .. N |->
                   LET s == (m.secttop + k - 1) % sectmax[l] IN
                   IF flash[l][s] = None THEN <<>> ELSE FirstRecords(flash[l][s], m.record_num[s])]
           g == [k \in 1 .. N |-> UpTo(a, a + Back(l, k))]
<1>1. N \in Nat /\ to \in Nat
  BY DEF SectorsOK, LogAssumption
<1>2. InFlash(l) = FlattenSeq(q)
  BY DEF InFlash
<1>3. \A k \in 1 .. N : q[k] = UpTo(a + Back(l, k - 1), a + Back(l, k))
  <2> TAKE k \in 1 .. N
  <2> DEFINE s == (m.secttop + k - 1) % sectmax[l]
  <2>1. flash[l][s] # None /\ FirstRecords(flash[l][s], m.record_num[s]) = UpTo(a + Back(l, k - 1), a + Back(l, k))
    <3>1. SectorAt(l, m, flash[l], to, k)
      BY SectorIs
    <3> QED
      BY <3>1 DEF SectorAt
  <2>2. q[k] = IF flash[l][s] = None THEN <<>> ELSE FirstRecords(flash[l][s], m.record_num[s])
    BY Zenon
  <2> QED
    BY <2>1, <2>2, Zenon
<1>4. Len(q) = N
  <2> HIDE DEF N
  <2> QED
    BY <1>1
<1>5. a \in Int /\ \A k \in Nat : Back(l, k) \in Nat /\ Back(l, k + 1) >= Back(l, k)
  <2>1. \A k \in Nat : Back(l, k) \in Nat /\ Back(l, k + 1) = Back(l, k) + LOG_SECORNUM[l]
    BY BackIs
  <2>2. LOG_SECORNUM[l] \in Nat
    BY DEF LogAssumption
  <2>3. a \in Int
    <3> DEFINE u == Back(l, N)
    <3>1. u \in Nat /\ to \in Nat
      BY <1>1, <2>1
    <3> HIDE DEF u, N
    <3>2. to - u \in Int
      BY <3>1
    <3> QED
      BY <3>2 DEF u
  <2> HIDE DEF a
  <2>4. ASSUME NEW k \in Nat
        PROVE  Back(l, k) \in Nat /\ Back(l, k + 1) >= Back(l, k)
    <3> DEFINE x == Back(l, k)
               y == Back(l, k + 1)
               z == LOG_SECORNUM[l]
    <3>1. x \in Nat /\ y = x + z /\ z \in Nat
      BY <2>1, <2>2
    <3> HIDE DEF x, y, z
    <3>2. x \in Nat /\ y >= x
      BY <3>1
    <3> QED
      BY <3>2 DEF x, y
  <2> QED
    BY <2>3, <2>4
<1>6. Back(l, 0) = 0 /\ a + Back(l, N) = to
  <2>1. Back(l, 0) = 0
    BY DEF Back, LogAssumption
  <2>2. Back(l, N) \in Nat
    BY <1>1, <1>5
  <2> DEFINE u == Back(l, N)
  <2>4. u \in Nat /\ to \in Nat
    BY <1>1, <2>2
  <2> HIDE DEF N, u
  <2>3. (to - u) + u = to
    BY <2>4
  <2> QED
    BY <2>1, <2>3, Zenon DEF u
<1> HIDE DEF q, N, a
<1>7. Flattens(q, N, g)
  <2> SUFFICES ASSUME NEW k \in 1 .. N
               PROVE  UpTo(a, a + Back(l, k)) = IF k = 1 THEN q[k] ELSE g[k - 1] \o q[k]
    BY DEF Flattens
  <2>1. CASE k = 1
    <3>1. q[k] = UpTo(a + Back(l, 0), a + Back(l, k))
      BY <1>3, <2>1
    <3> QED
      BY <3>1, <1>5, <1>6, <2>1
  <2>2. CASE k # 1
    <3>1. k - 1 \in 1 .. N /\ k - 1 \in Nat /\ k \in Nat /\ (k - 1) + 1 = k
      BY <1>1, <2>2
    <3>2. g[k - 1] = UpTo(a, a + Back(l, k - 1)) /\ q[k] = UpTo(a + Back(l, k - 1), a + Back(l, k))
      BY <1>3, <3>1
    <3>3. Back(l, k - 1) \in Nat /\ Back(l, k) \in Nat /\ Back(l, k) >= Back(l, k - 1)
      BY <1>5, <3>1
    <3>4. UpTo(a, a + Back(l, k - 1)) \o UpTo(a + Back(l, k - 1), a + Back(l, k)) = UpTo(a, a + Back(l, k))
      <4> DEFINE b == a + Back(l, k - 1)
                 c == a + Back(l, k)
      <4>1. a \in Int /\ b \in Int /\ c \in Int /\ a <= b /\ b <= c
        <5> DEFINE x == Back(l, k - 1)
                   y == Back(l, k)
        <5>1. x \in Nat /\ y \in Nat /\ y >= x /\ a \in Int
          BY <1>5, <3>3
        <5> HIDE DEF x, y
        <5>2. a + x \in Int /\ a + y \in Int /\ a <= a + x /\ a + x <= a + y
          BY <5>1
        <5> QED
          BY <5>1, <5>2 DEF x, y
      <4> HIDE DEF b, c
      <4>2. UpTo(a, b) \o UpTo(b, c) = UpTo(a, c)
        BY <4>1, UpToJoin
      <4> QED
        BY <4>2 DEF b, c
    <3> QED
      BY <2>2, <3>2, <3>4
  <2> QED
    BY <2>1, <2>2
<1>8. CASE N = 0
  <2>1. FlattenSeq(q) = q
    BY <1>4, <1>8 DEF FlattenSeq
  <2>2. to - a = 0
    BY <1>1, <1>5, <1>6, <1>8
  <2>3. 1 .. N = {} /\ 1 .. to - a = {}
    BY <1>8, <2>2
  <2>4. q = UpTo(a, to)
    BY <2>3, Zenon DEF q, UpTo
  <2> QED
    BY <1>2, <2>1, <2>4 DEF a, N
<1>9. CASE N # 0
  <2>1. PICK f : Flattens(q, N, f) /\ FlattenSeq(q) = f[N]
    BY <1>4, <1>7, <1>9, FlattenIs
  <2>2. f[N] = g[N]
    <3>1. N \in 1 .. N
      BY <1>1, <1>9
    <3> QED
      BY <1>1, <1>7, <2>1, <3>1, FlattenOne
  <2>3. g[N] = UpTo(a, to)
    BY <1>1, <1>6, <1>9
  <2> QED
    BY <1>2, <2>1, <2>2, <2>3 DEF a, N
<1> QED
  BY <1>8, <1>9

\* A log at rest: the sectors, then the bank in use.
AtRest(l, r, p, n, q, par, j, m, f) == Store(l, r, p, n, q, par, j, m, f) /\ RestsAt(l, p) /\ ~ q

Found(l, r, n, j, m, f, first) ==
    LET c == r.count[r.kind] IN
    /\ SectorsOK(l, m, f, j, n - c) /\ j \notin Replaced
    /\ first = (n - c) - Back(l, m.sectnum)
    /\ c \in Nat /\ n \in Nat /\ n - c \in 0 .. MaxRecords[l] /\ n - c <= n
    /\ (n - c) - Back(l, m.sectnum) \in Nat /\ Back(l, m.sectnum) \in Nat
    /\ (n - c) - Back(l, m.sectnum) <= n - c
    /\ FirstRecords(r.dat[r.kind], c) = UpTo(n - c, n)
    /\ l \in OneBank => c = 0

LEMMA RestIs ==
    ASSUME LogAssumption, NEW l \in Flashed, NEW r, NEW p, NEW n, NEW q, NEW par, NEW j, NEW m, NEW f,
           AtRest(l, r, p, n, q, par, j, m, f)
    PROVE  Found(l, r, n, j, m, f, First(l, r, p, n, q, par, j, m))
<1> DEFINE c == r.count[r.kind]
           to == n - c
           s == LOG_SECORNUM[l]
<1>0. Store(l, r, p, n, q, par, j, m, f) /\ RestsAt(l, p) /\ ~ q
  BY DEF AtRest
<1>1. BankOK(l, r, p, n, q, par.sramlog_kind, j) /\ SectorsOK(l, m, f, j, Stored(l, r, p, n, q, par.sramlog_kind, j))
  BY <1>0 DEF Store
<1>2. j = "idle"
  BY <1>0, <1>1 DEF BankOK, PhaseOK
<1>3. c \in Nat /\ n \in Nat /\ s \in Nat \ {0}
  BY <1>1, FillIs
<1>4. c <= s /\ n <= MaxRecords[l] /\ MaxRecords[l] \in Nat /\ (l \in OneBank => s = 1)
  BY <1>1, <1>3 DEF BankOK, PhaseOK, LogAssumption
<1>5. l \in OneBank => c = 0
  BY <1>0, <1>1, <1>3, <1>4 DEF BankOK, PhaseOK, RestsAt, Resting
<1>6. Fill(r, p) = c
  BY <1>0, <1>3 DEF Fill, Before, RestsAt, Resting
<1>7. Stored(l, r, p, n, q, par.sramlog_kind, j) = to
  BY <1>0, <1>6 DEF Stored
<1>8. SectorsOK(l, m, f, j, to) /\ j \notin Replaced
  BY <1>1, <1>2, <1>7 DEF Replaced, Copied
<1>9. to >= Back(l, m.sectnum) /\ m.sectnum \in Nat
  BY <1>8 DEF SectorsOK
<1>10. Back(l, m.sectnum) \in Nat
  BY <1>9, BackIs
<1>11. \A i \in 0 .. s - 1 : i < c => r.dat[r.kind][i] = n - c + i + 1
  BY <1>1, <1>6 DEF BankOK, DatOK
<1>12. FirstRecords(r.dat[r.kind], c) = UpTo(to, n)
  <2> DEFINE d == r.dat[r.kind]
  <2>1. n - to = c
    BY <1>3
  <2>2. \A i \in 1 .. c : i - 1 \in 0 .. s - 1 /\ i - 1 < c /\ n - c + (i - 1) + 1 = to + i
    BY <1>3, <1>4
  <2>3. \A i \in 1 .. c : d[i - 1] = to + i
    BY <1>11, <2>2
  <2> HIDE DEF c, to, d
  <2> QED
    BY <2>1, <2>3, Zenon DEF FirstRecords, UpTo, d
<1>13. First(l, r, p, n, q, par, j, m) = to - Back(l, m.sectnum)
  BY <1>7 DEF First
<1>14. /\ to \in 0 .. MaxRecords[l] /\ to <= n
       /\ to - Back(l, m.sectnum) \in Nat /\ to - Back(l, m.sectnum) <= to
  <2> DEFINE u == Back(l, m.sectnum)
  <2>1. u \in Nat /\ to >= u /\ c \in Nat /\ n \in Nat /\ n <= MaxRecords[l]
    BY <1>3, <1>4, <1>9, <1>10
  <2> HIDE DEF u, c
  <2>2. /\ to \in 0 .. MaxRecords[l] /\ to <= n
        /\ to - u \in Nat /\ to - u <= to
    BY <2>1, <1>4
  <2> QED
    BY <2>2 DEF u
<1> QED
  BY <1>3, <1>5, <1>8, <1>10, <1>12, <1>13, <1>14 DEF Found

LEMMA IndexedIs ==
    ASSUME LogAssumption, NEW l \in Flashed, NEW p, NEW n, NEW q, NEW par, NEW j,
           AtRest(l, LOG_DAT[l], p, n, q, par, j, log_mgr[l], flash[l])
    PROVE  Same(Indexed(l), UpTo(First(l, LOG_DAT[l], p, n, q, par, j, log_mgr[l]), n))
<1> DEFINE r == LOG_DAT[l]
           c == r.count[r.kind]
           m == log_mgr[l]
           to == n - c
           b == Back(l, m.sectnum)
           a == to - b
<1>1. /\ SectorsOK(l, m, flash[l], j, to) /\ j \notin Replaced
      /\ First(l, r, p, n, q, par, j, m) = a
      /\ c \in Nat /\ n \in Nat /\ to \in 0 .. MaxRecords[l] /\ to <= n
      /\ a \in Nat /\ a <= to
      /\ FirstRecords(r.dat[r.kind], c) = UpTo(to, n)
      /\ l \in OneBank => c = 0
  <2>1. Found(l, r, n, j, m, flash[l], First(l, r, p, n, q, par, j, m))
    BY RestIs
  <2> QED
    BY <2>1 DEF Found
<1> HIDE DEF c, to, b, a
<1>2. InFlash(l) = UpTo(to - b, to)
  BY <1>1, InFlashIs DEF b
<1>3. InBank(l) = UpTo(to, n)
  BY <1>1 DEF InBank, c
<1>4. l \in OneBank => to = n
  BY <1>1 DEF to
<1>5. UpTo(a, to) \o UpTo(to, n) = UpTo(a, n)
  <2>1. a \in Int /\ to \in Int /\ n \in Int
    BY <1>1
  <2> QED
    BY <1>1, <2>1, UpToJoin
<1>6. InFlash(l) = UpTo(a, to)
  BY <1>2 DEF a
<1>7. Indexed(l) = UpTo(a, n)
  BY <1>1, <1>3, <1>4, <1>5, <1>6 DEF Indexed
<1> QED
  BY <1>1, <1>7 DEF Same

-----------------------------------------------------------------------------
(* What the readers have read of such a log. *)

SameReaders(r, r2) == r2.unread = r.unread /\ r2.f_unread = r.f_unread /\ r2.void_read = r.void_read
NoLess(n, n2) == n2 = n \/ n2 = n + 1
SameUnread(j, j2) == (j2 = "unread") <=> (j = "unread")

LEMMA FirstIn ==
    ASSUME LogAssumption, NEW l \in Flashed, NEW r, NEW p, NEW n, NEW q, NEW par, NEW j, NEW m, NEW f,
           Store(l, r, p, n, q, par, j, m, f)
    PROVE  First(l, r, p, n, q, par, j, m) \in Int
<1> DEFINE k == m.sectnum
           b == Back(l, k)
           to == Stored(l, r, p, n, q, par.sramlog_kind, j)
<1>1. to \in Int
  BY StoreIs
<1>2. k \in Nat
  BY DEF Store, SectorsOK
<1> HIDE DEF k, to
<1>3. b \in Nat
  BY <1>2, BackIs
<1> HIDE DEF b
<1>4. to - b \in Int
  BY <1>1, <1>3
<1> QED
  BY <1>4 DEF First, to, b, k

LEMMA FlashedGoes ==
    ASSUME LogAssumption, NEW l \in Flashed, NEW r, NEW p, NEW n, NEW q, NEW par, NEW j, NEW m, NEW f,
           NEW hand, NEW done, NEW lost, FlashedOK(l, r, p, n, q, par, j, m, f, hand, done, lost),
           NEW r2, NEW p2, NEW n2, NEW q2, NEW par2, NEW j2, NEW m2, NEW f2,
           Store(l, r2, p2, n2, q2, par2, j2, m2, f2),
           Same(First(l, r2, p2, n2, q2, par2, j2, m2), First(l, r, p, n, q, par, j, m)),
           SameReaders(r, r2), NoLess(n, n2), SameUnread(j, j2)
    PROVE  FlashedOK(l, r2, p2, n2, q2, par2, j2, m2, f2, hand, done, lost)
<1> DEFINE a  == First(l, r, p, n, q, par, j, m)
           a2 == First(l, r2, p2, n2, q2, par2, j2, m2)
           s  == LOG_SECORNUM[l]
<1>1. Store(l, r, p, n, q, par, j, m, f) /\ Sents(l, r, n, a, j, hand, done, lost) /\ ReadersShape(r, hand, done, lost)
  BY DEF FlashedOK
<1>2. n \in Int
  BY <1>1, StoreIs
<1>3. a2 = a
  BY DEF Same
<1> HIDE DEF a, a2, s
<1>4. ASSUME NEW t \in Targets
      PROVE  /\ HandedOK(hand[t], r2.void_read[t], lost[t], done[t])
             /\ SentOK(s, r2.unread[t], r2.void_read[t], n2, lost[t], done[t], a, j2)
  <2> DEFINE u == r.unread[t]
             v == r.void_read[t]
  <2>1. /\ HandedOK(hand[t], v, lost[t], done[t])
        /\ SentOK(s, u, v, n, lost[t], done[t], a, j)
    BY <1>1 DEF Sents, s
  <2>2. r2.unread[t] = u /\ r2.void_read[t] = v
    BY DEF SameReaders
  <2> HIDE DEF u, v
  <2>3. u \in Nat /\ v \in Nat /\ u + v <= n
    BY <2>1 DEF SentOK
  <2>4. u + v <= n2
    BY <1>2, <2>3 DEF NoLess
  <2>5. SentOK(s, u, v, n2, lost[t], done[t], a, j2)
    BY <2>1, <2>3, <2>4 DEF SentOK, SameUnread
  <2> QED
    BY <2>1, <2>2, <2>5
<1>5. Sents(l, r2, n2, a2, j2, hand, done, lost)
  BY <1>3, <1>4 DEF Sents, s
<1>6. ReadersShape(r2, hand, done, lost)
  BY <1>1 DEF ReadersShape, SameReaders
<1> QED
  BY <1>5, <1>6 DEF FlashedOK, a2

\* The oldest sector is replaced, then the readers' indices go down.
LEMMA FlashedTurned ==
    ASSUME LogAssumption, NEW l \in Flashed, NEW r, NEW p, NEW n, NEW q, NEW par, NEW m, NEW f,
           NEW hand, NEW done, NEW lost, FlashedOK(l, r, p, n, q, par, "secttop", m, f, hand, done, lost),
           RestsAt(l, p), Holds(q), NEW m2, MgrIs(m2, Next1(l, m.secttop), m.sectnum, m.record_num)
    PROVE  FlashedOK(l, r, p, n, q, par, "unread", m2, f, hand, done, lost)
<1> DEFINE a  == First(l, r, p, n, q, par, "secttop", m)
           a2 == First(l, r, p, n, q, par, "unread", m2)
           s  == LOG_SECORNUM[l]
<1>1. Store(l, r, p, n, q, par, "secttop", m, f) /\ Sents(l, r, n, a, "secttop", hand, done, lost) /\ ReadersShape(r, hand, done, lost)
  BY DEF FlashedOK
<1>2. Store(l, r, p, n, q, par, "unread", m2, f)
  BY <1>1, StoreTurned
<1>3. Same(a2, a + s)
  BY <1>1, StoreTurned
<1>4. a \in Int /\ s \in Nat
  BY <1>1, FirstIn DEF LogAssumption
<1> HIDE DEF a, a2, s
<1>5. a2 = a + s
  BY <1>3 DEF Same
<1>6. ASSUME NEW t \in Targets
      PROVE  /\ HandedOK(hand[t], r.void_read[t], lost[t], done[t])
             /\ SentOK(s, r.unread[t], r.void_read[t], n, lost[t], done[t], a2, "unread")
  <2> DEFINE u == r.unread[t]
             v == r.void_read[t]
  <2>1. /\ HandedOK(hand[t], v, lost[t], done[t])
        /\ SentOK(s, u, v, n, lost[t], done[t], a, "secttop")
    BY <1>1 DEF Sents, s
  <2> HIDE DEF u, v
  <2>2. u \in Nat /\ (~ lost[t] => done[t] = a + u - 0)
    BY <2>1 DEF SentOK
  <2>3. ~ lost[t] => done[t] = a2 + u - s
    BY <1>4, <1>5, <2>2
  <2>4. SentOK(s, u, v, n, lost[t], done[t], a2, "unread")
    BY <2>1, <2>3 DEF SentOK
  <2> QED
    BY <2>1, <2>4 DEF u, v
<1>7. Sents(l, r, n, a2, "unread", hand, done, lost)
  BY <1>6 DEF Sents, s
<1> QED
  BY <1>1, <1>2, <1>7 DEF FlashedOK, a2

LoweredTo(l, r, r2, lost, lost2) ==
    /\ LikeBank(r, r2) /\ r2.Fcount = r.Fcount /\ r2.f_unread = r.f_unread /\ r2.void_read = r.void_read
    /\ r2.unread = [t \in Targets |-> IF r.unread[t] > LOG_SECORNUM[l] THEN r.unread[t] - LOG_SECORNUM[l] ELSE 0]
    /\ lost2 = [t \in Targets |-> lost[t] \/ r.unread[t] < LOG_SECORNUM[l]]

LEMMA FlashedLowered ==
    ASSUME LogAssumption, NEW l \in Flashed, NEW r, NEW p, NEW n, NEW q, NEW par, NEW m, NEW f,
           NEW hand, NEW done, NEW lost, FlashedOK(l, r, p, n, q, par, "unread", m, f, hand, done, lost),
           RestsAt(l, p), Holds(q), NEW r2, NEW lost2, LoweredTo(l, r, r2, lost, lost2)
    PROVE  FlashedOK(l, r2, p, n, q, par, "count", m, f, hand, done, lost2)
<1> DEFINE a  == First(l, r, p, n, q, par, "unread", m)
           a2 == First(l, r2, p, n, q, par, "count", m)
           s  == LOG_SECORNUM[l]
<1>1. Store(l, r, p, n, q, par, "unread", m, f) /\ Sents(l, r, n, a, "unread", hand, done, lost) /\ ReadersShape(r, hand, done, lost)
  BY DEF FlashedOK
<1>2. /\ LikeBank(r, r2) /\ r2.Fcount \in 0 .. sectmax[l]
      /\ r2.Fcount = r.Fcount /\ r2.f_unread = r.f_unread /\ r2.void_read = r.void_read
      /\ r2.unread = [t \in Targets |-> IF r.unread[t] > s THEN r.unread[t] - s ELSE 0]
      /\ lost2 = [t \in Targets |-> lost[t] \/ r.unread[t] < s]
  BY <1>1 DEF LoweredTo, Store
<1>3. Store(l, r2, p, n, q, par, "count", m, f)
  BY <1>1, <1>2, StoreLowered
<1>4. Same(a2, a)
  BY <1>1, <1>2, StoreLowered
<1>5. a \in Int /\ s \in Nat /\ n \in Int
  BY <1>1, FirstIn, StoreIs DEF LogAssumption
<1> HIDE DEF a, a2, s
<1>6. ASSUME NEW t \in Targets
      PROVE  /\ HandedOK(hand[t], r2.void_read[t], lost2[t], done[t])
             /\ SentOK(s, r2.unread[t], r2.void_read[t], n, lost2[t], done[t], a, "count")
  <2> DEFINE u == r.unread[t]
             v == r.void_read[t]
             u2 == r2.unread[t]
  <2>1. /\ HandedOK(hand[t], v, lost[t], done[t])
        /\ SentOK(s, u, v, n, lost[t], done[t], a, "unread")
    BY <1>1 DEF Sents, s
  <2>2. r2.void_read[t] = v /\ u2 = (IF u > s THEN u - s ELSE 0) /\ (~ lost2[t] => ~ lost[t] /\ ~ (u < s))
    BY <1>2
  <2> HIDE DEF u, v, u2
  <2>3. u \in Nat /\ v \in Nat /\ u + v <= n /\ (~ lost[t] => done[t] = a + u - s)
    BY <2>1 DEF SentOK
  <2>4. u2 \in Nat /\ u2 + v <= n
    BY <1>5, <2>2, <2>3
  <2>5. ASSUME ~ lost2[t] PROVE done[t] = a + u2 - 0
    <3>1. u2 = u - s /\ done[t] = a + u - s
      BY <1>5, <2>2, <2>3, <2>5
    <3> QED
      BY <1>5, <2>3, <3>1
  <2>6. SentOK(s, u2, v, n, lost2[t], done[t], a, "count")
    BY <2>3, <2>4, <2>5 DEF SentOK
  <2>7. HandedOK(hand[t], v, lost2[t], done[t])
    BY <2>1, <2>2 DEF HandedOK
  <2> QED
    BY <2>2, <2>6, <2>7 DEF u2
<1>7. Sents(l, r2, n, a2, "count", hand, done, lost2)
  BY <1>4, <1>6 DEF Sents, s, Same
<1>8. ReadersShape(r2, hand, done, lost2)
  BY <1>1, <1>2 DEF ReadersShape, ByTarget
<1> QED
  BY <1>3, <1>7, <1>8 DEF FlashedOK, a2

\* One target, and one record of the readers.
Put(f, t, x) == [y \in Targets |-> IF y = t THEN x ELSE f[y]]
ReadTo(r, t, u, g, v, r2) ==
    /\ LikeBank(r, r2) /\ r2.Fcount = r.Fcount
    /\ r2.unread = Put(r.unread, t, u) /\ r2.f_unread = Put(r.f_unread, t, g) /\ r2.void_read = Put(r.void_read, t, v)

LEMMA FlashedRead ==
    ASSUME LogAssumption, NEW l \in Flashed, NEW r, NEW p, NEW n, NEW q, NEW par, NEW j, NEW m, NEW f,
           NEW hand, NEW done, NEW lost, FlashedOK(l, r, p, n, q, par, j, m, f, hand, done, lost),
           NEW t \in Targets, NEW u, NEW g, NEW v, NEW r2, ReadTo(r, t, u, g, v, r2),
           NEW h, NEW d, NEW b, HandedOK(h, v, b, d),
           SentOK(LOG_SECORNUM[l], u, v, n, b, d, First(l, r, p, n, q, par, j, m), j)
    PROVE  FlashedOK(l, r2, p, n, q, par, j, m, f, Put(hand, t, h), Put(done, t, d), Put(lost, t, b))
<1> DEFINE a  == First(l, r, p, n, q, par, j, m)
           a2 == First(l, r2, p, n, q, par, j, m)
           s  == LOG_SECORNUM[l]
<1>1. Store(l, r, p, n, q, par, j, m, f) /\ Sents(l, r, n, a, j, hand, done, lost) /\ ReadersShape(r, hand, done, lost)
  BY DEF FlashedOK
<1>2. /\ LikeBank(r, r2) /\ r2.Fcount \in 0 .. sectmax[l]
      /\ r2.unread = Put(r.unread, t, u) /\ r2.f_unread = Put(r.f_unread, t, g) /\ r2.void_read = Put(r.void_read, t, v)
  BY <1>1 DEF ReadTo, Store
<1>3. Store(l, r2, p, n, q, par, j, m, f)
  BY <1>1, <1>2, StoreLike
<1>4. Same(a2, a)
  BY <1>1, <1>2, StoreLike
<1>5. HandedOK(h, v, b, d) /\ SentOK(s, u, v, n, b, d, a, j)
  OBVIOUS
<1> HIDE DEF a, a2, s
<1>6. ASSUME NEW y \in Targets
      PROVE  /\ HandedOK(Put(hand, t, h)[y], r2.void_read[y], Put(lost, t, b)[y], Put(done, t, d)[y])
             /\ SentOK(s, r2.unread[y], r2.void_read[y], n, Put(lost, t, b)[y], Put(done, t, d)[y], a, j)
  <2>1. /\ HandedOK(hand[y], r.void_read[y], lost[y], done[y])
        /\ SentOK(s, r.unread[y], r.void_read[y], n, lost[y], done[y], a, j)
    BY <1>1 DEF Sents, s
  <2>2. CASE y = t
    <3>1. Put(hand, t, h)[y] = h /\ Put(done, t, d)[y] = d /\ Put(lost, t, b)[y] = b
          /\ r2.unread[y] = u /\ r2.void_read[y] = v
      BY <1>2, <2>2 DEF Put
    <3> QED
      BY <1>5, <3>1
  <2>3. CASE y # t
    <3>1. Put(hand, t, h)[y] = hand[y] /\ Put(done, t, d)[y] = done[y] /\ Put(lost, t, b)[y] = lost[y]
          /\ r2.unread[y] = r.unread[y] /\ r2.void_read[y] = r.void_read[y]
      BY <1>2, <2>3 DEF Put
    <3> QED
      BY <2>1, <3>1
  <2> QED
    BY <2>2, <2>3
<1>7. Sents(l, r2, n, a2, j, Put(hand, t, h), Put(done, t, d), Put(lost, t, b))
  BY <1>4, <1>6 DEF Sents, s, Same
<1>8. ReadersShape(r2, Put(hand, t, h), Put(done, t, d), Put(lost, t, b))
  BY <1>2 DEF ReadersShape, ByTarget, Put
<1> QED
  BY <1>3, <1>7, <1>8 DEF FlashedOK, a2

LEMMA UpToIs ==
    ASSUME NEW a \in Int, NEW n \in Int, a <= n
    PROVE  /\ UpTo(a, n) \in Seq(Int) /\ Len(UpTo(a, n)) = n - a
           /\ \A i \in 1 .. n - a : UpTo(a, n)[i] = a + i
BY DEF UpTo

LEMMA UpToEnds ==
    ASSUME NEW a \in Int, NEW v \in Nat
    PROVE  /\ UpTo(a, a + 0) = << >>
           /\ Append(UpTo(a, a + v), a + v + 1) = UpTo(a, a + (v + 1))
           /\ v > 0 => /\ Front(UpTo(a, a + v)) = UpTo(a, a + (v - 1))
                       /\ Last(UpTo(a, a + v)) = a + v
<1>1. UpTo(a, a + v) \in Seq(Int) /\ Len(UpTo(a, a + v)) = v /\ \A i \in 1 .. v : UpTo(a, a + v)[i] = a + i
  BY DEF UpTo
<1>2. UpTo(a, a + 0) = << >>
  BY DEF UpTo
<1>3. Append(UpTo(a, a + v), a + v + 1) = UpTo(a, a + (v + 1))
  BY DEF UpTo
<1>4. ASSUME v > 0
      PROVE  Front(UpTo(a, a + v)) = UpTo(a, a + (v - 1)) /\ Last(UpTo(a, a + v)) = a + v
  <2>1. Last(UpTo(a, a + v)) = a + v
    BY <1>1, <1>4 DEF Last
  <2>2. Front(UpTo(a, a + v)) = UpTo(a, a + (v - 1))
    BY <1>4 DEF Front, UpTo
  <2> QED
    BY <2>1, <2>2
<1> QED
  BY <1>2, <1>3, <1>4

\* What a reader does with one target.  e is what is handed over before.
Begun(h, v, e, k) == (e = << >> /\ k = 0) \/ (e = h /\ k = v)

LEMMA HandedBegun ==
    ASSUME NEW h, NEW v, NEW b, NEW d \in Int, HandedOK(h, v, b, d), NEW e, NEW k, Begun(h, v, e, k)
    PROVE  HandedOK(e, k, b, d)
<1>1. UpTo(d, d + 0) = << >>
  BY UpToEnds
<1> QED
  BY <1>1 DEF HandedOK, Begun

LEMMA SentVoid ==
    ASSUME NEW s, NEW u, NEW v, NEW n \in Int, NEW b, NEW d, NEW a \in Int, NEW j, j # "unread",
           SentOK(s, u, v, n, b, d, a, j), NEW h, HandedOK(h, v, b, d), 0 <= a, a <= n,
           NEW e, NEW k, Begun(h, v, e, k), u + k < Len(UpTo(a, n))
    PROVE  /\ HandedOK(Append(e, UpTo(a, n)[u + k + 1]), k + 1, b, d)
           /\ SentOK(s, u, k + 1, n, b, d, a, j)
<1>1. u \in Nat /\ v \in Nat /\ u + v <= n /\ (~ b => d = a + u)
  BY DEF SentOK
<1>2. k \in Nat
  BY <1>1 DEF Begun
<1>3. u + k < n - a /\ UpTo(a, n)[u + k + 1] = a + (u + k + 1)
  <2>1. Len(UpTo(a, n)) = n - a
    BY UpToIs
  <2>2. u + k + 1 \in 1 .. n - a
    BY <1>1, <1>2, <2>1
  <2>3. \A i \in 1 .. n - a : UpTo(a, n)[i] = a + i
    BY UpToIs
  <2> QED
    BY <2>1, <2>2, <2>3
<1>4. SentOK(s, u, k + 1, n, b, d, a, j)
  BY <1>1, <1>2, <1>3 DEF SentOK
<1>5. ASSUME ~ b PROVE Append(e, UpTo(a, n)[u + k + 1]) = UpTo(d, d + (k + 1))
  <2>1. d \in Int /\ a + (u + k + 1) = d + k + 1
    BY <1>1, <1>2, <1>5
  <2>2. HandedOK(e, k, b, d)
    BY <2>1, HandedBegun
  <2>3. e = UpTo(d, d + k)
    BY <1>5, <2>2 DEF HandedOK
  <2>4. Append(UpTo(d, d + k), d + k + 1) = UpTo(d, d + (k + 1))
    BY <1>2, <2>1, UpToEnds
  <2> QED
    BY <1>3, <2>1, <2>3, <2>4
<1>6. HandedOK(Append(e, UpTo(a, n)[u + k + 1]), k + 1, b, d)
  BY <1>5 DEF HandedOK
<1> QED
  BY <1>4, <1>6

LEMMA SentUndo ==
    ASSUME NEW s, NEW u, NEW v, NEW n \in Int, NEW b, NEW d, NEW a \in Int, NEW j, j # "unread",
           SentOK(s, u, v, n, b, d, a, j), NEW h, HandedOK(h, v, b, d), v > 0
    PROVE  HandedOK(Front(h), v - 1, b, d) /\ SentOK(s, u, v - 1, n, b, d, a, j)
<1>1. u \in Nat /\ v \in Nat /\ u + v <= n /\ (~ b => d = a + u)
  BY DEF SentOK
<1>2. SentOK(s, u, v - 1, n, b, d, a, j)
  BY <1>1 DEF SentOK
<1>3. ASSUME ~ b PROVE Front(h) = UpTo(d, d + (v - 1))
  <2>1. d \in Int /\ h = UpTo(d, d + v)
    BY <1>1, <1>3 DEF HandedOK
  <2> QED
    BY <1>1, <2>1, UpToEnds
<1> QED
  BY <1>2, <1>3 DEF HandedOK

\* It has sent what was handed over.
LEMMA SentUpdate ==
    ASSUME NEW s, NEW u, NEW v, NEW n \in Int, NEW b, NEW d, NEW a \in Int, NEW j, j # "unread",
           SentOK(s, u, v, n, b, d, a, j), NEW h, HandedOK(h, v, b, d), v > 0
    PROVE  HandedOK(<< >>, 0, b, Last(h)) /\ SentOK(s, u + v, 0, n, b, Last(h), a, j)
<1>1. u \in Nat /\ v \in Nat /\ u + v <= n /\ (~ b => d = a + u)
  BY DEF SentOK
<1>2. ASSUME ~ b PROVE Last(h) = a + (u + v) /\ Last(h) \in Int
  <2>1. d \in Int /\ h = UpTo(d, d + v) /\ d = a + u
    BY <1>1, <1>2 DEF HandedOK
  <2>2. Last(h) = d + v
    BY <1>1, <2>1, UpToEnds
  <2> QED
    BY <1>1, <2>1, <2>2
<1>3. SentOK(s, u + v, 0, n, b, Last(h), a, j)
  BY <1>1, <1>2 DEF SentOK
<1>4. ~ b => UpTo(Last(h), Last(h) + 0) = << >>
  BY <1>2, UpToEnds
<1> QED
  BY <1>3, <1>4 DEF HandedOK

LEMMA SentDrop ==
    ASSUME NEW s, NEW u, NEW v, NEW n \in Int, NEW b, NEW d, NEW a \in Int, NEW j, j # "unread",
           SentOK(s, u, v, n, b, d, a, j)
    PROVE  HandedOK(<< >>, 0, b, d) /\ SentOK(s, u, 0, n, b, d, a, j)
<1>1. u \in Nat /\ v \in Nat /\ u + v <= n /\ (~ b => d = a + u)
  BY DEF SentOK
<1>2. SentOK(s, u, 0, n, b, d, a, j)
  BY <1>1 DEF SentOK
<1>3. ASSUME ~ b PROVE UpTo(d, d + 0) = << >>
  <2>1. d \in Int
    BY <1>1, <1>3
  <2> QED
    BY <2>1, UpToEnds
<1> QED
  BY <1>2, <1>3 DEF HandedOK

LEMMA SentGet ==
    ASSUME NEW s, NEW u, NEW n \in Int, NEW b, NEW d, NEW a \in Int, NEW j, j # "unread",
           SentOK(s, u, 0, n, b, d, a, j), NEW h, HandedOK(h, 0, b, d), 0 <= a, a <= n,
           u < Len(UpTo(a, n))
    PROVE  /\ HandedOK(h, 0, b, UpTo(a, n)[u + 1])
           /\ SentOK(s, u + 1, 0, n, b, UpTo(a, n)[u + 1], a, j)
<1>1. u \in Nat /\ u + 0 <= n /\ (~ b => d = a + u)
  BY DEF SentOK
<1>2. u < n - a /\ UpTo(a, n)[u + 1] = a + (u + 1)
  <2>1. Len(UpTo(a, n)) = n - a
    BY UpToIs
  <2>2. u + 1 \in 1 .. n - a
    BY <1>1, <2>1
  <2>3. \A i \in 1 .. n - a : UpTo(a, n)[i] = a + i
    BY UpToIs
  <2> QED
    BY <2>1, <2>2, <2>3
<1>3. SentOK(s, u + 1, 0, n, b, UpTo(a, n)[u + 1], a, j)
  BY <1>1, <1>2 DEF SentOK
<1>4. ASSUME ~ b PROVE h = UpTo(a + (u + 1), a + (u + 1) + 0)
  <2>1. d \in Int /\ h = UpTo(d, d + 0)
    BY <1>1, <1>4 DEF HandedOK
  <2>2. a + (u + 1) \in Int
    BY <1>1
  <2>3. UpTo(a + (u + 1), a + (u + 1) + 0) = << >>
    BY <2>2, UpToEnds
  <2> QED
    BY <2>1, <2>3, UpToEnds
<1> QED
  BY <1>2, <1>3, <1>4 DEF HandedOK

\* Every record is taken for sent.
LEMMA SentSkip ==
    ASSUME NEW s, NEW n \in Int, NEW a \in Int, NEW j, j # "unread", 0 <= a, a <= n, NEW b, b = FALSE
    PROVE  /\ HandedOK(<< >>, 0, b, n)
           /\ SentOK(s, Len(UpTo(a, n)), 0, n, b, n, a, j)
<1>1. Len(UpTo(a, n)) = n - a
  BY UpToIs
<1>2. UpTo(n, n + 0) = << >>
  BY UpToEnds
<1> QED
  BY <1>1, <1>2 DEF HandedOK, SentOK

-----------------------------------------------------------------------------
(* The steps of Log_Write with a ring. *)

Ring == Logs \ Flashed

LEMMA RingIs ==
    ASSUME LogAssumption, NEW l \in Ring, NEW r, NEW p, NEW n, RingOK(l, r, p, n)
    PROVE  /\ n \in Nat /\ n <= MaxRecords[l] /\ LOG_SECORNUM[l] \in Nat \ {0} /\ r.wtp \in Nat /\ r.count[0] \in Nat
           /\ r.count[r.kind] = r.count[0] /\ MaxRecords[l] \in Nat
<1>1. LOG_SECORNUM[l] \in Nat \ {0} /\ MaxRecords[l] \in Nat
  BY DEF LogAssumption, Ring
<1> QED
  BY <1>1 DEF RingOK, RingPhaseOK

SameShown(r, p, n, r2, p2, n2) == Shown(p2, n2) = Shown(p, n) /\ ShownTo(p2, r2.wtp) = ShownTo(p, r.wtp)

LEMMA RamGoes ==
    ASSUME LogAssumption, NEW l \in Ring, NEW r, NEW p, NEW n, NEW hand, NEW done, NEW lost,
           RamOK(l, r, p, n, hand, done, lost),
           NEW r2, NEW p2, NEW n2, RingOK(l, r2, p2, n2),
           SameReaders(r, r2), SameShown(r, p, n, r2, p2, n2), NoLess(n, n2)
    PROVE  RamOK(l, r2, p2, n2, hand, done, lost)
<1> DEFINE s == LOG_SECORNUM[l]
<1>1. RingOK(l, r, p, n) /\ RingSents(l, r, p, n, hand, done, lost) /\ ReadersShape(r, hand, done, lost)
  BY DEF RamOK
<1>2. n \in Nat /\ s \in Nat
  BY <1>1, RingIs
<1>3. ReadersShape(r2, hand, done, lost)
  BY <1>1 DEF ReadersShape, SameReaders
<1>4. ASSUME NEW t \in Targets
      PROVE  /\ HandedOK(hand[t], r2.void_read[t], lost[t], done[t])
             /\ RingSentOK(s, r2.unread[t], r2.f_unread[t], r2.void_read[t], n2, lost[t], done[t],
                           Shown(p2, n2), ShownTo(p2, r2.wtp))
  <2>1. /\ HandedOK(hand[t], r.void_read[t], lost[t], done[t])
        /\ RingSentOK(s, r.unread[t], r.f_unread[t], r.void_read[t], n, lost[t], done[t],
                      Shown(p, n), ShownTo(p, r.wtp))
    BY <1>1 DEF RingSents
  <2>2. Shown(p2, n2) = Shown(p, n) /\ ShownTo(p2, r2.wtp) = ShownTo(p, r.wtp)
    BY DEF SameShown
  <2>3. n > s => n2 > s
    BY <1>2 DEF NoLess
  <2>4. r2.void_read[t] = r.void_read[t] /\ r2.unread[t] = r.unread[t] /\ r2.f_unread[t] = r.f_unread[t]
    BY DEF SameReaders
  <2> HIDE DEF s
  <2>5. RingSentOK(s, r.unread[t], r.f_unread[t], r.void_read[t], n2, lost[t], done[t],
                   Shown(p, n), ShownTo(p, r.wtp))
    BY <2>1, <2>3, Zenon DEF RingSentOK
  <2> QED
    BY <2>1, <2>2, <2>4, <2>5
<1>5. RingSents(l, r2, p2, n2, hand, done, lost)
  BY <1>4 DEF RingSents
<1> QED
  BY <1>3, <1>5 DEF RamOK

RingMark(l, r, p, p2) ==
    \/ p = "accept" /\ p2 = "copy"
    \/ p = "f2" /\ p2 = "count"
    \/ p = "f3" /\ p2 = IF r.count[r.kind] >= LOG_SECORNUM[l] THEN "cap" ELSE "wtp"
    \/ p \in {"f4", "f43"} /\ p2 = "end"
    \/ p = "f40" /\ p2 = "step"
    \/ p = "f41" /\ p2 = IF r.wtp >= LOG_SECORNUM[l] THEN "f42" ELSE "f44"
    \/ p = "f42" /\ p2 = "rewind"
    \/ p = "f44" /\ p2 = "oldest"
    \/ p = "end" /\ p2 = "idle"

\* A step that changes neither the ring nor the place of its last record.
LikeRing(r, p, n, r2, p2, n2) ==
    /\ IsLog(r2) /\ r2.kind = r.kind /\ r2.dat = r.dat
    /\ r2.count = [k \in {0, 1} |-> r2.count[k]] /\ r2.count[1] = r.count[1]
    /\ Placed(p2, n2) = Placed(p, n) /\ Place(p2, r2.wtp) = Place(p, r.wtp)

LEMMA RingLike ==
    ASSUME LogAssumption, NEW l \in Ring, NEW r, NEW p, NEW n, RingOK(l, r, p, n),
           NEW r2, NEW p2, NEW n2 \in 0 .. MaxRecords[l], LikeRing(r, p, n, r2, p2, n2),
           RingPhaseOK(LOG_SECORNUM[l], p2, r2.count[0], r2.wtp, n2)
    PROVE  RingOK(l, r2, p2, n2)
BY DEF RingOK, LikeRing

LEMMA RamMarked ==
    ASSUME LogAssumption, NEW l \in Ring, NEW r, NEW p, NEW n, NEW hand, NEW done, NEW lost,
           RamOK(l, r, p, n, hand, done, lost), NEW p2, RingMark(l, r, p, p2)
    PROVE  RamOK(l, r, p2, n, hand, done, lost)
<1> DEFINE s == LOG_SECORNUM[l]
           c == r.count[0]
           w == r.wtp
<1>1. RingOK(l, r, p, n)
  BY DEF RamOK
<1>2. n \in Nat /\ s \in Nat \ {0} /\ w \in Nat /\ c \in Nat /\ r.count[r.kind] = c
  BY <1>1, RingIs
<1>3. RingPhaseOK(s, p, c, w, n)
  BY <1>1 DEF RingOK
<1>4. \/ p = "accept" /\ p2 = "copy"
      \/ p = "f2" /\ p2 = "count"
      \/ p = "f3" /\ p2 = IF c >= s THEN "cap" ELSE "wtp"
      \/ p \in {"f4", "f43"} /\ p2 = "end"
      \/ p = "f40" /\ p2 = "step"
      \/ p = "f41" /\ p2 = IF w >= s THEN "f42" ELSE "f44"
      \/ p = "f42" /\ p2 = "rewind"
      \/ p = "f44" /\ p2 = "oldest"
      \/ p = "end" /\ p2 = "idle"
  BY <1>2 DEF RingMark
<1> HIDE DEF s, c, w
<1>5. RingPhaseOK(s, p2, c, w, n)
  <2>1. CASE p = "accept" /\ p2 = "copy"
    BY <1>2, <1>3, <2>1 DEF RingPhaseOK, RingMid
  <2>2. CASE p = "f2" /\ p2 = "count"
    BY <1>2, <1>3, <2>2 DEF RingPhaseOK, RingMid
  <2>3. CASE p = "f3" /\ p2 = IF c >= s THEN "cap" ELSE "wtp"
    BY <1>2, <1>3, <2>3 DEF RingPhaseOK, RingMid, Least
  <2>4. CASE p \in {"f4", "f43"} /\ p2 = "end"
    BY <1>2, <1>3, <2>4 DEF RingPhaseOK, RingMid, Least
  <2>5. CASE p = "f40" /\ p2 = "step"
    BY <1>2, <1>3, <2>5 DEF RingPhaseOK, RingMid
  <2>6. CASE p = "f41" /\ p2 = IF w >= s THEN "f42" ELSE "f44"
    BY <1>2, <1>3, <2>6 DEF RingPhaseOK, RingMid
  <2>7. CASE p = "f42" /\ p2 = "rewind"
    BY <1>2, <1>3, <2>7 DEF RingPhaseOK, RingMid
  <2>8. CASE p = "f44" /\ p2 = "oldest"
    BY <1>2, <1>3, <2>8 DEF RingPhaseOK, RingMid
  <2>9. CASE p = "end" /\ p2 = "idle"
    BY <1>2, <1>3, <2>9 DEF RingPhaseOK, RingMid
  <2> QED
    BY <1>4, <2>1, <2>2, <2>3, <2>4, <2>5, <2>6, <2>7, <2>8, <2>9
<1>6. /\ Placed(p2, n) = Placed(p, n) /\ Place(p2, w) = Place(p, w)
      /\ Shown(p2, n) = Shown(p, n) /\ ShownTo(p2, w) = ShownTo(p, w)
  BY <1>4 DEF Placed, Place, Shown, ShownTo, RingMid
<1>7. RingOK(l, r, p2, n)
  BY <1>1, <1>5, <1>6 DEF RingOK, s, c, w
<1>8. SameShown(r, p, n, r, p2, n)
  BY <1>6 DEF SameShown, w
<1> QED
  BY <1>7, <1>8, RamGoes DEF SameReaders, NoLess

LEMMA RamBegins ==
    ASSUME LogAssumption, NEW l \in Ring, NEW r, NEW n, NEW hand, NEW done, NEW lost,
           RamOK(l, r, "idle", n, hand, done, lost), n < MaxRecords[l]
    PROVE  RamOK(l, r, "accept", n + 1, hand, done, lost)
<1> DEFINE s  == LOG_SECORNUM[l]
           n2 == n + 1
<1>1. RingOK(l, r, "idle", n)
  BY DEF RamOK
<1>2. n \in Nat /\ s \in Nat \ {0} /\ r.wtp \in Nat /\ r.count[0] \in Nat /\ MaxRecords[l] \in Nat
  BY <1>1, RingIs
<1>3. RingPhaseOK(s, "idle", r.count[0], r.wtp, n)
  BY <1>1 DEF RingOK
<1>4. n2 - 1 = n /\ n2 \in 0 .. MaxRecords[l] /\ n2 > 0
  BY <1>2
<1> HIDE DEF s, n2
<1>5. RingPhaseOK(s, "accept", r.count[0], r.wtp, n2)
  BY <1>2, <1>3, <1>4 DEF RingPhaseOK, RingMid
<1>6. LikeRing(r, "idle", n, r, "accept", n2)
  BY <1>1, <1>4 DEF LikeRing, RingOK, Placed, Place, RingMid
<1>7. RingOK(l, r, "accept", n2)
  BY <1>1, <1>4, <1>5, <1>6, RingLike DEF s
<1>8. SameShown(r, "idle", n, r, "accept", n2)
  BY <1>4 DEF SameShown, Shown, ShownTo, RingMid
<1>9. RamOK(l, r, "accept", n2, hand, done, lost)
  BY <1>7, <1>8, RamGoes DEF SameReaders, NoLess, n2
<1> QED
  BY <1>9 DEF n2

RingCountOf(r, x) == CountOf(r, x) /\ SameReaders(r, x)
LEMMA RamCount ==
    ASSUME LogAssumption, NEW l \in Ring, NEW r, NEW n, NEW hand, NEW done, NEW lost,
           RamOK(l, r, "count", n, hand, done, lost), NEW x, RingCountOf(r, x)
    PROVE  RamOK(l, x, "f3", n, hand, done, lost)
<1> DEFINE s  == LOG_SECORNUM[l]
           c  == r.count[0]
           w  == r.wtp
           c2 == x.count[0]
           w2 == x.wtp
<1>1. RingOK(l, r, "count", n)
  BY DEF RamOK
<1>2. n \in Nat /\ s \in Nat \ {0} /\ w \in Nat /\ c \in Nat
  BY <1>1, RingIs
<1>3. RingPhaseOK(s, "count", c, w, n) /\ n \in 0 .. MaxRecords[l] /\ r.kind = 0
      /\ r.count = [k \in {0, 1} |-> r.count[k]] /\ r.count[1] = 0
  BY <1>1 DEF RingOK
<1>4. /\ IsLog(x) /\ x.kind = r.kind /\ x.dat = r.dat /\ SameReaders(r, x) /\ w2 = w /\ c2 = c + 1
      /\ x.count = [k \in {0, 1} |-> x.count[k]] /\ x.count[1] = r.count[1]
  BY <1>3 DEF RingCountOf, CountOf
<1> HIDE DEF s, c, w, c2, w2
<1>5. RingPhaseOK(s, "f3", c2, w2, n)
  BY <1>2, <1>3, <1>4 DEF RingPhaseOK, RingMid, Least
<1>6. Placed("f3", n) = Placed("count", n) /\ Place("f3", w2) = Place("count", w)
      /\ Shown("f3", n) = Shown("count", n) /\ ShownTo("f3", w2) = ShownTo("count", w)
  BY <1>4 DEF Placed, Place, Shown, ShownTo, RingMid
<1>7. LikeRing(r, "count", n, x, "f3", n)
  BY <1>4, <1>6 DEF LikeRing, w2, w
<1>8. RingOK(l, x, "f3", n)
  BY <1>1, <1>3, <1>5, <1>7, RingLike DEF s, c2, w2
<1>9. SameShown(r, "count", n, x, "f3", n)
  BY <1>6 DEF SameShown, w, w2
<1> QED
  BY <1>4, <1>8, <1>9, RamGoes DEF NoLess

RingAdvanceOf(r, x) == AdvanceOf(r, x) /\ SameReaders(r, x)
LEMMA RamAdvance ==
    ASSUME LogAssumption, NEW l \in Ring, NEW r, NEW n, NEW hand, NEW done, NEW lost,
           RamOK(l, r, "wtp", n, hand, done, lost), NEW x, RingAdvanceOf(r, x)
    PROVE  RamOK(l, x, "f4", n, hand, done, lost)
<1> DEFINE s  == LOG_SECORNUM[l]
           c  == r.count[0]
           w  == r.wtp
           c2 == x.count[0]
           w2 == x.wtp
<1>1. RingOK(l, r, "wtp", n)
  BY DEF RamOK
<1>2. n \in Nat /\ s \in Nat \ {0} /\ w \in Nat /\ c \in Nat
  BY <1>1, RingIs
<1>3. RingPhaseOK(s, "wtp", c, w, n) /\ n \in 0 .. MaxRecords[l] /\ r.kind = 0
      /\ r.count = [k \in {0, 1} |-> r.count[k]] /\ r.count[1] = 0
  BY <1>1 DEF RingOK
<1>4. /\ IsLog(x) /\ x.kind = r.kind /\ x.dat = r.dat /\ SameReaders(r, x) /\ w2 = w + 1 /\ c2 = c
      /\ x.count = [k \in {0, 1} |-> x.count[k]] /\ x.count[1] = r.count[1]
  BY <1>3 DEF RingAdvanceOf, AdvanceOf
<1> HIDE DEF s, c, w, c2, w2
<1>5. RingPhaseOK(s, "f4", c2, w2, n)
  BY <1>2, <1>3, <1>4 DEF RingPhaseOK, RingMid, Least
<1>6. Placed("f4", n) = Placed("wtp", n) /\ Place("f4", w2) = Place("wtp", w)
      /\ Shown("f4", n) = Shown("wtp", n) /\ ShownTo("f4", w2) = ShownTo("wtp", w)
  BY <1>4 DEF Placed, Place, Shown, ShownTo, RingMid
<1>7. LikeRing(r, "wtp", n, x, "f4", n)
  BY <1>4, <1>6 DEF LikeRing, w2, w
<1>8. RingOK(l, x, "f4", n)
  BY <1>1, <1>3, <1>5, <1>7, RingLike DEF s, c2, w2
<1>9. SameShown(r, "wtp", n, x, "f4", n)
  BY <1>6 DEF SameShown, w, w2
<1> QED
  BY <1>4, <1>8, <1>9, RamGoes DEF NoLess

LEMMA RamNext ==
    ASSUME LogAssumption, NEW l \in Ring, NEW r, NEW n, NEW hand, NEW done, NEW lost,
           RamOK(l, r, "step", n, hand, done, lost), NEW x, RingAdvanceOf(r, x)
    PROVE  RamOK(l, x, "f41", n, hand, done, lost)
<1> DEFINE s  == LOG_SECORNUM[l]
           c  == r.count[0]
           w  == r.wtp
           c2 == x.count[0]
           w2 == x.wtp
<1>1. RingOK(l, r, "step", n)
  BY DEF RamOK
<1>2. n \in Nat /\ s \in Nat \ {0} /\ w \in Nat /\ c \in Nat
  BY <1>1, RingIs
<1>3. RingPhaseOK(s, "step", c, w, n) /\ n \in 0 .. MaxRecords[l] /\ r.kind = 0
      /\ r.count = [k \in {0, 1} |-> r.count[k]] /\ r.count[1] = 0
  BY <1>1 DEF RingOK
<1>4. /\ IsLog(x) /\ x.kind = r.kind /\ x.dat = r.dat /\ SameReaders(r, x) /\ w2 = w + 1 /\ c2 = c
      /\ x.count = [k \in {0, 1} |-> x.count[k]] /\ x.count[1] = r.count[1]
  BY <1>3 DEF RingAdvanceOf, AdvanceOf
<1> HIDE DEF s, c, w, c2, w2
<1>5. RingPhaseOK(s, "f41", c2, w2, n)
  BY <1>2, <1>3, <1>4 DEF RingPhaseOK, RingMid, Least
<1>6. Placed("f41", n) = Placed("step", n) /\ Place("f41", w2) = Place("step", w)
      /\ Shown("f41", n) = Shown("step", n) /\ ShownTo("f41", w2) = ShownTo("step", w)
  BY <1>4 DEF Placed, Place, Shown, ShownTo, RingMid
<1>7. LikeRing(r, "step", n, x, "f41", n)
  BY <1>4, <1>6 DEF LikeRing, w2, w
<1>8. RingOK(l, x, "f41", n)
  BY <1>1, <1>3, <1>5, <1>7, RingLike DEF s, c2, w2
<1>9. SameShown(r, "step", n, x, "f41", n)
  BY <1>6 DEF SameShown, w, w2
<1> QED
  BY <1>4, <1>8, <1>9, RamGoes DEF NoLess

CapOf(l, r, x) ==
    /\ IsLog(x) /\ x.kind = r.kind /\ x.dat = r.dat /\ x.wtp = r.wtp
    /\ x.count = [r.count EXCEPT ![r.kind] = LOG_SECORNUM[l]] /\ SameReaders(r, x)
LEMMA RamCap ==
    ASSUME LogAssumption, NEW l \in Ring, NEW r, NEW n, NEW hand, NEW done, NEW lost,
           RamOK(l, r, "cap", n, hand, done, lost), NEW x, CapOf(l, r, x)
    PROVE  RamOK(l, x, "f40", n, hand, done, lost)
<1> DEFINE s  == LOG_SECORNUM[l]
           c  == r.count[0]
           w  == r.wtp
           c2 == x.count[0]
           w2 == x.wtp
<1>1. RingOK(l, r, "cap", n)
  BY DEF RamOK
<1>2. n \in Nat /\ s \in Nat \ {0} /\ w \in Nat /\ c \in Nat
  BY <1>1, RingIs
<1>3. RingPhaseOK(s, "cap", c, w, n) /\ n \in 0 .. MaxRecords[l] /\ r.kind = 0
      /\ r.count = [k \in {0, 1} |-> r.count[k]] /\ r.count[1] = 0
  BY <1>1 DEF RingOK
<1>4. /\ IsLog(x) /\ x.kind = r.kind /\ x.dat = r.dat /\ SameReaders(r, x) /\ w2 = w /\ c2 = s
      /\ x.count = [k \in {0, 1} |-> x.count[k]] /\ x.count[1] = r.count[1]
  BY <1>3 DEF CapOf
<1> HIDE DEF s, c, w, c2, w2
<1>5. RingPhaseOK(s, "f40", c2, w2, n)
  BY <1>2, <1>3, <1>4 DEF RingPhaseOK, RingMid, Least
<1>6. Placed("f40", n) = Placed("cap", n) /\ Place("f40", w2) = Place("cap", w)
      /\ Shown("f40", n) = Shown("cap", n) /\ ShownTo("f40", w2) = ShownTo("cap", w)
  BY <1>4 DEF Placed, Place, Shown, ShownTo, RingMid
<1>7. LikeRing(r, "cap", n, x, "f40", n)
  BY <1>4, <1>6 DEF LikeRing, w2, w
<1>8. RingOK(l, x, "f40", n)
  BY <1>1, <1>3, <1>5, <1>7, RingLike DEF s, c2, w2
<1>9. SameShown(r, "cap", n, x, "f40", n)
  BY <1>6 DEF SameShown, w, w2
<1> QED
  BY <1>4, <1>8, <1>9, RamGoes DEF NoLess

\* The record goes to its place.
LEMMA RingPut ==
    ASSUME NEW s \in Nat \ {0}, NEW N \in Nat, NEW B, N \in B,
           NEW d \in [0 .. s - 1 -> B], NEW n \in Nat, NEW w \in 0 .. s - 1, n - 1 < s => w = n - 1,
           RingHolds(s, d, n - 1, w), n > 0, N = n,
           NEW e, e = [d EXCEPT ![w] = N]
    PROVE  e \in [0 .. s - 1 -> B] /\ RingHolds(s, e, n, w + 1)
<1>1. e \in [0 .. s - 1 -> B] /\ e[w] = n /\ \A i \in 0 .. s - 1 : i # w => e[i] = d[i]
  OBVIOUS
<1>2. ASSUME NEW i \in 0 .. s - 1
      PROVE  /\ i < w + 1 => e[i] = n - (w + 1) + i + 1
             /\ i >= w + 1 /\ n >= s => e[i] = n - s - (w + 1) + i + 1
  <2>1. CASE i = w
    <3>1. n - (w + 1) + w + 1 = n
      OBVIOUS
    <3> QED
      BY <1>1, <2>1, <3>1
  <2>2. CASE i < w
    <3>1. d[i] = (n - 1) - w + i + 1 /\ e[i] = d[i]
      BY <1>1, <2>2 DEF RingHolds
    <3> QED
      BY <2>2, <3>1
  <2>3. CASE i > w
    <3>1. e[i] = d[i]
      BY <1>1, <2>3
    <3>2. n >= s => n - 1 >= s
      BY <2>3
    <3>3. n - 1 >= s => d[i] = (n - 1) - s - w + i + 1
      BY <2>3 DEF RingHolds
    <3> QED
      BY <2>3, <3>1, <3>2, <3>3
  <2> QED
    BY <2>1, <2>2, <2>3
<1>3. RingHolds(s, e, n, w + 1)
  BY <1>2 DEF RingHolds
<1> QED
  BY <1>1, <1>3

RingCopyOf(r, n, x) == CopyOf(r, n, x) /\ SameReaders(r, x)

LEMMA RamCopied ==
    ASSUME LogAssumption, NEW l \in Ring, NEW r, NEW n, NEW hand, NEW done, NEW lost,
           RamOK(l, r, "copy", n, hand, done, lost), NEW x, RingCopyOf(r, n, x)
    PROVE  RamOK(l, x, "unread", n, hand, done, lost)
<1> DEFINE s  == LOG_SECORNUM[l]
           w  == r.wtp
           d  == r.dat[0]
           e  == x.dat[0]
           c  == r.count[0]
           B  == 0 .. MaxRecords[l]
<1>1. RingOK(l, r, "copy", n)
  BY DEF RamOK
<1>2. n \in Nat /\ s \in Nat \ {0} /\ w \in Nat /\ c \in Nat /\ MaxRecords[l] \in Nat
  BY <1>1, RingIs
<1>3. /\ RingPhaseOK(s, "copy", c, w, n) /\ n \in B /\ r.kind = 0 /\ d \in [0 .. s - 1 -> B]
      /\ r.dat[1] \in [0 .. s - 1 -> B] /\ r.dat = [k \in {0, 1} |-> r.dat[k]]
      /\ r.count = [k \in {0, 1} |-> r.count[k]] /\ r.count[1] = 0
      /\ RingHolds(s, d, Placed("copy", n), Place("copy", w))
  BY <1>1 DEF RingOK, Bank
<1>4. /\ IsLog(x) /\ x.kind = 0 /\ x.count = r.count /\ x.wtp = w /\ SameReaders(r, x)
      /\ x.dat = [r.dat EXCEPT ![0] = [@ EXCEPT ![w] = n]]
  BY <1>3 DEF RingCopyOf, CopyOf
<1>5. e = [d EXCEPT ![w] = n] /\ x.dat[1] = r.dat[1]
  BY <1>3, <1>4
<1> HIDE DEF s, w, d, e, c, B
<1>6. /\ n > 0 /\ w \in 0 .. s - 1 /\ (n - 1 < s => w = n - 1) /\ RingHolds(s, d, n - 1, w)
      /\ RingPhaseOK(s, "unread", c, w, n)
  BY <1>2, <1>3 DEF RingPhaseOK, RingMid, Placed, Place
<1>7. e \in [0 .. s - 1 -> B] /\ RingHolds(s, e, n, w + 1)
  BY <1>2, <1>3, <1>5, <1>6, RingPut
<1>8. x.dat \in [{0, 1} -> Bank(l)]
  <2>1. x.dat[0] \in Bank(l) /\ x.dat[1] \in Bank(l)
    BY <1>3, <1>5, <1>7 DEF Bank, e, s, B
  <2>2. x.dat = [k \in {0, 1} |-> x.dat[k]]
    BY <1>4 DEF IsLog
  <2> QED
    BY <2>1, <2>2
<1>9. RingHolds(s, e, Placed("unread", n), Place("unread", w))
  BY <1>7 DEF Placed, Place, RingMid
<1>10. RingOK(l, x, "unread", n)
  BY <1>3, <1>4, <1>6, <1>8, <1>9 DEF RingOK, s, w, e, c, B
<1>11. SameShown(r, "copy", n, x, "unread", n)
  BY <1>4 DEF SameShown, Shown, ShownTo, RingMid, w
<1> QED
  BY <1>4, <1>10, <1>11, RamGoes DEF NoLess

\* The ring starts again from its first place.
RewindOf(r, x) ==
    IsLog(x) /\ x.kind = r.kind /\ x.dat = r.dat /\ x.count = r.count /\ x.wtp = 0 /\ SameReaders(r, x)

LEMMA RamRewound ==
    ASSUME LogAssumption, NEW l \in Ring, NEW r, NEW n, NEW hand, NEW done, NEW lost,
           RamOK(l, r, "rewind", n, hand, done, lost), NEW x, RewindOf(r, x)
    PROVE  RamOK(l, x, "f43", n, hand, done, lost)
<1> DEFINE s  == LOG_SECORNUM[l]
           w  == r.wtp
           d  == r.dat[0]
           c  == r.count[0]
<1>1. RingOK(l, r, "rewind", n) /\ RingSents(l, r, "rewind", n, hand, done, lost) /\ ReadersShape(r, hand, done, lost)
  BY DEF RamOK
<1>2. n \in Nat /\ s \in Nat \ {0} /\ c \in Nat
  BY <1>1, RingIs
<1>3. RingPhaseOK(s, "rewind", c, w, n) /\ RingHolds(s, d, n, w)
  BY <1>1 DEF RingOK, Placed, Place, RingMid
<1>4. IsLog(x) /\ x.kind = r.kind /\ x.dat = r.dat /\ x.count = r.count /\ x.wtp = 0 /\ SameReaders(r, x)
  BY DEF RewindOf
<1> HIDE DEF s, w, d, c
<1>5. w = s /\ n >= s /\ c = s
  BY <1>3 DEF RingPhaseOK
<1>6. RingPhaseOK(s, "f43", c, 0, n)
  BY <1>2, <1>5 DEF RingPhaseOK, RingMid
<1>7. RingHolds(s, d, n, 0)
  <2> SUFFICES ASSUME NEW i \in 0 .. s - 1
               PROVE  /\ i < 0 => d[i] = n - 0 + i + 1
                      /\ i >= 0 /\ n >= s => d[i] = n - s - 0 + i + 1
    BY DEF RingHolds
  <2>1. d[i] = n - w + i + 1
    BY <1>2, <1>3, <1>5 DEF RingHolds
  <2> QED
    BY <1>2, <1>5, <2>1
<1>8. RingOK(l, x, "f43", n)
  <2>1. RingHolds(s, d, Placed("f43", n), Place("f43", 0))
    BY <1>7 DEF Placed, Place, RingMid
  <2> QED
    BY <1>1, <1>4, <1>6, <2>1 DEF RingOK, s, d, c
<1>9. ASSUME NEW t \in Targets
      PROVE  /\ HandedOK(hand[t], x.void_read[t], lost[t], done[t])
             /\ RingSentOK(s, x.unread[t], x.f_unread[t], x.void_read[t], n, lost[t], done[t],
                           Shown("f43", n), ShownTo("f43", x.wtp))
  <2> DEFINE u == r.unread[t]
             f == r.f_unread[t]
             v == r.void_read[t]
  <2>1. HandedOK(hand[t], v, lost[t], done[t]) /\ RingSentOK(s, u, f, v, n, lost[t], done[t], n, w)
    BY <1>1 DEF RingSents, s, w, Shown, ShownTo, RingMid
  <2>2. x.unread[t] = u /\ x.f_unread[t] = f /\ x.void_read[t] = v
    BY <1>4 DEF SameReaders
  <2>3. Shown("f43", n) = n /\ ShownTo("f43", x.wtp) = 0
    BY <1>4 DEF Shown, ShownTo, RingMid
  <2> HIDE DEF u, f, v
  <2>4. /\ u \in 0 .. s - 1 /\ f \in 0 .. s /\ f <= n /\ v \in 0 .. f /\ (lost[t] => n > s)
        /\ ~ lost[t] => done[t] = n - f /\ (u + f = w \/ (u + f = w + s /\ n >= s))
    BY <2>1 DEF RingSentOK
  <2>5. ~ lost[t] => u + f = 0 \/ (u + f = 0 + s /\ n >= s)
    BY <1>2, <1>5, <2>4
  <2>6. RingSentOK(s, u, f, v, n, lost[t], done[t], n, 0)
    BY <2>4, <2>5 DEF RingSentOK
  <2> QED
    BY <2>1, <2>2, <2>3, <2>6
<1>10. RingSents(l, x, "f43", n, hand, done, lost)
  BY <1>9 DEF RingSents, s
<1>11. ReadersShape(x, hand, done, lost)
  BY <1>1, <1>4 DEF ReadersShape, SameReaders
<1> QED
  BY <1>8, <1>10, <1>11 DEF RamOK

\* The record is counted for the readers.
UnreadOf(l, r, lost, x, lost2) ==
    /\ IsLog(x) /\ x.kind = r.kind /\ x.dat = r.dat /\ x.count = r.count /\ x.wtp = r.wtp
    /\ x.unread = r.unread /\ x.void_read = r.void_read
    /\ x.f_unread = [t \in Targets |-> IF r.f_unread[t] < LOG_SECORNUM[l] THEN r.f_unread[t] + 1 ELSE r.f_unread[t]]
    /\ lost2 = [t \in Targets |-> lost[t] \/ r.f_unread[t] = LOG_SECORNUM[l]]

LEMMA RamUnread ==
    ASSUME LogAssumption, NEW l \in Ring, NEW r, NEW n, NEW hand, NEW done, NEW lost,
           RamOK(l, r, "unread", n, hand, done, lost), NEW x, NEW lost2, UnreadOf(l, r, lost, x, lost2)
    PROVE  RamOK(l, x, "f2", n, hand, done, lost2)
<1> DEFINE s  == LOG_SECORNUM[l]
           w  == r.wtp
           c  == r.count[0]
<1>1. RingOK(l, r, "unread", n) /\ RingSents(l, r, "unread", n, hand, done, lost) /\ ReadersShape(r, hand, done, lost)
  BY DEF RamOK
<1>2. n \in Nat /\ s \in Nat \ {0} /\ c \in Nat /\ w \in Nat
  BY <1>1, RingIs
<1>3. RingPhaseOK(s, "unread", c, w, n) /\ n \in 0 .. MaxRecords[l]
  BY <1>1 DEF RingOK
<1>4. /\ IsLog(x) /\ x.kind = r.kind /\ x.dat = r.dat /\ x.count = r.count /\ x.wtp = w
      /\ x.unread = r.unread /\ x.void_read = r.void_read
      /\ x.f_unread = [t \in Targets |-> IF r.f_unread[t] < s THEN r.f_unread[t] + 1 ELSE r.f_unread[t]]
      /\ lost2 = [t \in Targets |-> lost[t] \/ r.f_unread[t] = s]
  BY DEF UnreadOf
<1> HIDE DEF s, w, c
<1>5. RingPhaseOK(s, "f2", c, w, n)
  BY <1>3 DEF RingPhaseOK, RingMid
<1>6. LikeRing(r, "unread", n, x, "f2", n)
  BY <1>1, <1>4 DEF LikeRing, RingOK, Placed, Place, RingMid, w
<1>7. RingOK(l, x, "f2", n)
  BY <1>1, <1>3, <1>4, <1>5, <1>6, RingLike DEF s, c, w
<1>8. ASSUME NEW t \in Targets
      PROVE  /\ HandedOK(hand[t], x.void_read[t], lost2[t], done[t])
             /\ RingSentOK(s, x.unread[t], x.f_unread[t], x.void_read[t], n, lost2[t], done[t],
                           Shown("f2", n), ShownTo("f2", x.wtp))
  <2> DEFINE u  == r.unread[t]
             f  == r.f_unread[t]
             v  == r.void_read[t]
             f2 == x.f_unread[t]
  <2>1. /\ HandedOK(hand[t], v, lost[t], done[t]) /\ RingSentOK(s, u, f, v, n, lost[t], done[t], n - 1, w)
    BY <1>1 DEF RingSents, s, w, Shown, ShownTo, RingMid
  <2>2. /\ x.unread[t] = u /\ x.void_read[t] = v /\ f2 = (IF f < s THEN f + 1 ELSE f)
        /\ (~ lost2[t] => ~ lost[t] /\ f # s) /\ (lost2[t] => lost[t] \/ f = s)
    BY <1>4
  <2>3. Shown("f2", n) = n /\ ShownTo("f2", x.wtp) = w + 1
    BY <1>4 DEF Shown, ShownTo, RingMid
  <2> HIDE DEF u, f, v, f2
  <2>4. /\ u \in 0 .. s - 1 /\ f \in 0 .. s /\ f <= n - 1 /\ v \in 0 .. f /\ (lost[t] => n > s)
        /\ ~ lost[t] => done[t] = n - 1 - f /\ (u + f = w \/ (u + f = w + s /\ n - 1 >= s))
    BY <2>1 DEF RingSentOK
  <2>5. f2 \in 0 .. s /\ f2 <= n /\ v \in 0 .. f2 /\ (lost2[t] => n > s)
    BY <1>2, <2>2, <2>4
  <2>6. ASSUME ~ lost2[t]
        PROVE  done[t] = n - f2 /\ (u + f2 = w + 1 \/ (u + f2 = (w + 1) + s /\ n >= s))
    <3>1. f2 = f + 1 /\ ~ lost[t]
      BY <1>2, <2>2, <2>4, <2>6
    <3>2. done[t] = n - 1 - f /\ (u + f = w \/ (u + f = w + s /\ n - 1 >= s))
      BY <2>4, <3>1
    <3>3. n - 1 - f = n - f2
      BY <1>2, <2>4, <3>1
    <3> QED
      BY <1>2, <2>4, <3>1, <3>2, <3>3
  <2>7. RingSentOK(s, u, f2, v, n, lost2[t], done[t], n, w + 1)
    BY <2>4, <2>5, <2>6 DEF RingSentOK
  <2>8. HandedOK(hand[t], v, lost2[t], done[t])
    BY <2>1, <2>2 DEF HandedOK
  <2> QED
    BY <2>2, <2>3, <2>7, <2>8 DEF f2
<1>9. RingSents(l, x, "f2", n, hand, done, lost2)
  BY <1>8 DEF RingSents, s
<1>10. ReadersShape(x, hand, done, lost2)
  BY <1>1, <1>4 DEF ReadersShape, ByTarget
<1> QED
  BY <1>7, <1>9, <1>10 DEF RamOK

\* A reader of a full ring goes to its oldest record: it is there unless it lost some.
OldestOf(l, r, x) ==
    /\ IsLog(x) /\ x.kind = r.kind /\ x.dat = r.dat /\ x.count = r.count /\ x.wtp = r.wtp
    /\ x.f_unread = r.f_unread /\ x.void_read = r.void_read
    /\ x.unread = [t \in Targets |-> IF r.unread[t] < r.wtp /\ r.f_unread[t] >= LOG_SECORNUM[l]
                                     THEN r.wtp ELSE r.unread[t]]

LEMMA RamOldest ==
    ASSUME LogAssumption, NEW l \in Ring, NEW r, NEW n, NEW hand, NEW done, NEW lost,
           RamOK(l, r, "oldest", n, hand, done, lost), NEW x, OldestOf(l, r, x)
    PROVE  RamOK(l, x, "end", n, hand, done, lost)
<1> DEFINE s  == LOG_SECORNUM[l]
           w  == r.wtp
           c  == r.count[0]
<1>1. RingOK(l, r, "oldest", n) /\ RingSents(l, r, "oldest", n, hand, done, lost) /\ ReadersShape(r, hand, done, lost)
  BY DEF RamOK
<1>2. n \in Nat /\ s \in Nat \ {0} /\ c \in Nat /\ w \in Nat
  BY <1>1, RingIs
<1>3. RingPhaseOK(s, "oldest", c, w, n) /\ n \in 0 .. MaxRecords[l]
  BY <1>1 DEF RingOK
<1>4. /\ IsLog(x) /\ x.kind = r.kind /\ x.dat = r.dat /\ x.count = r.count /\ x.wtp = w
      /\ x.f_unread = r.f_unread /\ x.void_read = r.void_read
      /\ x.unread = [t \in Targets |-> IF r.unread[t] < w /\ r.f_unread[t] >= s THEN w ELSE r.unread[t]]
  BY DEF OldestOf
<1> HIDE DEF s, w, c
<1>5. RingPhaseOK(s, "end", c, w, n) /\ w < s
  BY <1>2, <1>3 DEF RingPhaseOK, RingMid, Least
<1>6. LikeRing(r, "oldest", n, x, "end", n)
  BY <1>1, <1>4 DEF LikeRing, RingOK, Placed, Place, RingMid, w
<1>7. RingOK(l, x, "end", n)
  BY <1>1, <1>3, <1>4, <1>5, <1>6, RingLike DEF s, c, w
<1>8. ASSUME NEW t \in Targets
      PROVE  /\ HandedOK(hand[t], x.void_read[t], lost[t], done[t])
             /\ RingSentOK(s, x.unread[t], x.f_unread[t], x.void_read[t], n, lost[t], done[t],
                           Shown("end", n), ShownTo("end", x.wtp))
  <2> DEFINE u  == r.unread[t]
             f  == r.f_unread[t]
             v  == r.void_read[t]
             u2 == x.unread[t]
  <2>1. HandedOK(hand[t], v, lost[t], done[t]) /\ RingSentOK(s, u, f, v, n, lost[t], done[t], n, w)
    BY <1>1 DEF RingSents, s, w, Shown, ShownTo, RingMid
  <2>2. x.f_unread[t] = f /\ x.void_read[t] = v /\ u2 = (IF u < w /\ f >= s THEN w ELSE u)
    BY <1>4
  <2>3. Shown("end", n) = n /\ ShownTo("end", x.wtp) = w
    BY <1>4 DEF Shown, ShownTo, RingMid
  <2> HIDE DEF u, f, v, u2
  <2>4. /\ u \in 0 .. s - 1 /\ f \in 0 .. s /\ f <= n /\ v \in 0 .. f /\ (lost[t] => n > s)
        /\ ~ lost[t] => done[t] = n - f /\ (u + f = w \/ (u + f = w + s /\ n >= s))
    BY <2>1 DEF RingSentOK
  <2>5. u2 \in 0 .. s - 1
    BY <1>2, <1>5, <2>2, <2>4
  <2>6. ASSUME ~ lost[t] PROVE u2 = u
    <3>1. u + f = w \/ u + f = w + s
      BY <2>4, <2>6
    <3> QED
      BY <1>2, <1>5, <2>2, <2>4, <3>1
  <2>7. RingSentOK(s, u2, f, v, n, lost[t], done[t], n, w)
    BY <2>4, <2>5, <2>6 DEF RingSentOK
  <2> QED
    BY <2>1, <2>2, <2>3, <2>7 DEF u2
<1>9. RingSents(l, x, "end", n, hand, done, lost)
  BY <1>8 DEF RingSents, s
<1>10. ReadersShape(x, hand, done, lost)
  BY <1>1, <1>4 DEF ReadersShape, ByTarget
<1> QED
  BY <1>7, <1>9, <1>10 DEF RamOK

-----------------------------------------------------------------------------
(* The readers of a ring. *)

LEMMA RamRead ==
    ASSUME LogAssumption, NEW l \in Ring, NEW r, NEW n, NEW hand, NEW done, NEW lost,
           RamOK(l, r, "idle", n, hand, done, lost),
           NEW t \in Targets, NEW u, NEW g, NEW v, NEW r2, ReadTo(r, t, u, g, v, r2),
           NEW h, NEW d, NEW b, HandedOK(h, v, b, d),
           RingSentOK(LOG_SECORNUM[l], u, g, v, n, b, d, n, r.wtp)
    PROVE  RamOK(l, r2, "idle", n, Put(hand, t, h), Put(done, t, d), Put(lost, t, b))
<1> DEFINE s  == LOG_SECORNUM[l]
           w  == r.wtp
<1>1. RingOK(l, r, "idle", n) /\ RingSents(l, r, "idle", n, hand, done, lost) /\ ReadersShape(r, hand, done, lost)
  BY DEF RamOK
<1>2. /\ IsLog(r2) /\ r2.kind = r.kind /\ r2.count = r.count /\ r2.wtp = w /\ r2.dat = r.dat
      /\ r2.unread = Put(r.unread, t, u) /\ r2.f_unread = Put(r.f_unread, t, g) /\ r2.void_read = Put(r.void_read, t, v)
  BY DEF ReadTo, LikeBank
<1>3. RingOK(l, r2, "idle", n)
  BY <1>1, <1>2 DEF RingOK
<1>4. HandedOK(h, v, b, d) /\ RingSentOK(s, u, g, v, n, b, d, n, w)
  OBVIOUS
<1>5. Shown("idle", n) = n /\ ShownTo("idle", w) = w
  BY DEF Shown, ShownTo, RingMid
<1> HIDE DEF s, w
<1>6. ASSUME NEW y \in Targets
      PROVE  /\ HandedOK(Put(hand, t, h)[y], r2.void_read[y], Put(lost, t, b)[y], Put(done, t, d)[y])
             /\ RingSentOK(s, r2.unread[y], r2.f_unread[y], r2.void_read[y], n, Put(lost, t, b)[y], Put(done, t, d)[y], n, w)
  <2>1. /\ HandedOK(hand[y], r.void_read[y], lost[y], done[y])
        /\ RingSentOK(s, r.unread[y], r.f_unread[y], r.void_read[y], n, lost[y], done[y], n, w)
    BY <1>1, <1>5 DEF RingSents, s, w
  <2>2. CASE y = t
    <3>1. Put(hand, t, h)[y] = h /\ Put(done, t, d)[y] = d /\ Put(lost, t, b)[y] = b
          /\ r2.unread[y] = u /\ r2.f_unread[y] = g /\ r2.void_read[y] = v
      BY <1>2, <2>2 DEF Put
    <3> QED
      BY <1>4, <3>1
  <2>3. CASE y # t
    <3>1. Put(hand, t, h)[y] = hand[y] /\ Put(done, t, d)[y] = done[y] /\ Put(lost, t, b)[y] = lost[y]
          /\ r2.unread[y] = r.unread[y] /\ r2.f_unread[y] = r.f_unread[y] /\ r2.void_read[y] = r.void_read[y]
      BY <1>2, <2>3 DEF Put
    <3> QED
      BY <2>1, <3>1
  <2> QED
    BY <2>2, <2>3
<1>7. RingSents(l, r2, "idle", n, Put(hand, t, h), Put(done, t, d), Put(lost, t, b))
  BY <1>2, <1>5, <1>6 DEF RingSents, s, w
<1>8. ReadersShape(r2, Put(hand, t, h), Put(done, t, d), Put(lost, t, b))
  BY <1>2 DEF ReadersShape, ByTarget, Put
<1> QED
  BY <1>3, <1>7, <1>8 DEF RamOK

\* The k-th unread record, counted from 0.
RingRests(s, e, n, w) == s \in Nat \ {0} /\ n \in Nat /\ w \in 0 .. s - 1 /\ (n < s => w = n) /\ RingHolds(s, e, n, w)
Turned(s, i) == IF i >= s THEN i - s ELSE i

LEMMA RingAt ==
    ASSUME NEW s, NEW e, NEW n, NEW w, RingRests(s, e, n, w),
           NEW u, NEW f, NEW v, NEW b, NEW d, RingSentOK(s, u, f, v, n, b, d, n, w), NEW k \in 0 .. f - 1
    PROVE  /\ Turned(s, u + k) \in 0 .. s - 1
           /\ ~ b => e[Turned(s, u + k)] = d + k + 1 /\ Turned(s, u + k) < Least(n, s)
           /\ b => Turned(s, u + k) < Least(n, s)
<1> DEFINE x == Turned(s, u + k)
<1>1. /\ u \in 0 .. s - 1 /\ f \in 0 .. s /\ f <= n /\ v \in 0 .. f /\ (b => n > s)
      /\ ~ b => d = n - f /\ (u + f = w \/ (u + f = w + s /\ n >= s))
  BY DEF RingSentOK
<1>2. s \in Nat \ {0} /\ n \in Nat /\ w \in 0 .. s - 1 /\ (n < s => w = n) /\ RingHolds(s, e, n, w)
  BY DEF RingRests
<1>3. x \in 0 .. s - 1 /\ x = IF u + k >= s THEN u + k - s ELSE u + k
  BY <1>1, <1>2 DEF Turned
<1>4. /\ x < w => e[x] = n - w + x + 1
      /\ x >= w /\ n >= s => e[x] = n - s - w + x + 1
  BY <1>2, <1>3 DEF RingHolds
<1> HIDE DEF x
<1>5. ASSUME ~ b PROVE e[x] = d + k + 1 /\ x < Least(n, s)
  <2>1. d = n - f /\ (u + f = w \/ (u + f = w + s /\ n >= s))
    BY <1>1, <1>5
  <2>2. CASE u + f = w
    <3>1. x = u + k /\ x < w
      BY <1>1, <1>2, <1>3, <2>2
    <3>2. n - w + x + 1 = d + k + 1
      BY <1>1, <1>2, <2>1, <2>2, <3>1
    <3>3. x < Least(n, s)
      BY <1>2, <1>3, <3>1 DEF Least
    <3> QED
      BY <1>4, <3>1, <3>2, <3>3
  <2>3. CASE u + f = w + s /\ n >= s /\ u + k >= s
    <3>1. x = u + k - s /\ x < w
      BY <1>1, <1>2, <1>3, <2>3
    <3>2. n - w + x + 1 = d + k + 1
      BY <1>1, <1>2, <2>1, <2>3, <3>1
    <3>3. x < Least(n, s)
      BY <1>2, <1>3, <2>3 DEF Least
    <3> QED
      BY <1>4, <3>1, <3>2, <3>3
  <2>4. CASE u + f = w + s /\ n >= s /\ u + k < s
    <3>1. x = u + k /\ x >= w
      BY <1>1, <1>2, <1>3, <2>4
    <3>2. n - s - w + x + 1 = d + k + 1
      BY <1>1, <1>2, <2>1, <2>4, <3>1
    <3>3. x < Least(n, s)
      BY <1>2, <1>3, <2>4 DEF Least
    <3> QED
      BY <1>4, <2>4, <3>1, <3>2, <3>3
  <2> QED
    BY <2>1, <2>2, <2>3, <2>4, <1>1, <1>2
<1>6. b => x < Least(n, s)
  BY <1>1, <1>2, <1>3 DEF Least
<1> QED
  BY <1>3, <1>5, <1>6 DEF x

LEMMA RingVoid ==
    ASSUME NEW s, NEW e, NEW n, NEW w, RingRests(s, e, n, w),
           NEW u, NEW f, NEW v, NEW b, NEW d, RingSentOK(s, u, f, v, n, b, d, n, w), NEW h, HandedOK(h, v, b, d),
           NEW c, NEW k, Begun(h, v, c, k), k < f
    PROVE  /\ HandedOK(Append(c, e[Turned(s, u + k)]), k + 1, b, d)
           /\ RingSentOK(s, u, f, k + 1, n, b, d, n, w)
<1>1. /\ u \in 0 .. s - 1 /\ f \in 0 .. s /\ f <= n /\ v \in 0 .. f /\ s \in Nat /\ n \in Nat
      /\ ~ b => d = n - f
  BY DEF RingSentOK, RingRests
<1>2. k \in 0 .. f - 1
  BY <1>1 DEF Begun
<1>3. RingSentOK(s, u, f, k + 1, n, b, d, n, w)
  <2>1. k + 1 \in 0 .. f
    BY <1>1, <1>2
  <2> QED
    BY <2>1 DEF RingSentOK
<1>4. ASSUME ~ b PROVE Append(c, e[Turned(s, u + k)]) = UpTo(d, d + (k + 1))
  <2>1. d \in Int
    BY <1>1, <1>4
  <2>2. HandedOK(c, k, b, d)
    BY <2>1, HandedBegun
  <2>3. c = UpTo(d, d + k)
    BY <1>4, <2>2 DEF HandedOK
  <2>4. e[Turned(s, u + k)] = d + k + 1
    BY <1>2, <1>4, RingAt
  <2>6. k \in Nat
    BY <1>1, <1>2
  <2>5. Append(UpTo(d, d + k), d + k + 1) = UpTo(d, d + (k + 1))
    BY <2>6, <2>1, UpToEnds
  <2> QED
    BY <2>3, <2>4, <2>5
<1> QED
  BY <1>3, <1>4 DEF HandedOK

LEMMA RingUndo ==
    ASSUME NEW s, NEW n, NEW w, s \in Nat, n \in Nat,
           NEW u, NEW f, NEW v, NEW b, NEW d, RingSentOK(s, u, f, v, n, b, d, n, w), NEW h, HandedOK(h, v, b, d), v > 0
    PROVE  HandedOK(Front(h), v - 1, b, d) /\ RingSentOK(s, u, f, v - 1, n, b, d, n, w)
<1>1. /\ u \in 0 .. s - 1 /\ f \in 0 .. s /\ f <= n /\ v \in 0 .. f
      /\ ~ b => d = n - f
  BY DEF RingSentOK
<1>2. RingSentOK(s, u, f, v - 1, n, b, d, n, w)
  BY <1>1 DEF RingSentOK
<1>3. ASSUME ~ b PROVE Front(h) = UpTo(d, d + (v - 1))
  <2>1. d \in Int /\ h = UpTo(d, d + v)
    BY <1>1, <1>3 DEF HandedOK
  <2>2. v \in Nat
    BY <1>1
  <2>3. Front(UpTo(d, d + v)) = UpTo(d, d + v - 1)
    BY <2>1, <2>2, UpToEnds
  <2>4. d + v - 1 = d + (v - 1)
    BY <2>1, <2>2
  <2> QED
    BY <2>1, <2>3, <2>4
<1> QED
  BY <1>2, <1>3 DEF HandedOK

\* The reader goes on by k records.
LEMMA RingGoes ==
    ASSUME NEW s, NEW e, NEW n, NEW w, RingRests(s, e, n, w),
           NEW u, NEW f, NEW v, NEW b, NEW d, RingSentOK(s, u, f, v, n, b, d, n, w), NEW k \in 1 .. f,
           NEW d2, ~ b => d2 = d + k
    PROVE  RingSentOK(s, Turned(s, u + k), f - k, 0, n, b, d2, n, w)
<1>1. /\ u \in 0 .. s - 1 /\ f \in 0 .. s /\ f <= n /\ v \in 0 .. f /\ (b => n > s)
      /\ ~ b => d = n - f /\ (u + f = w \/ (u + f = w + s /\ n >= s))
  BY DEF RingSentOK
<1>2. s \in Nat \ {0} /\ n \in Nat /\ w \in 0 .. s - 1
  BY DEF RingRests
<1> DEFINE x == Turned(s, u + k)
<1>3. x \in 0 .. s - 1 /\ x = IF u + k >= s THEN u + k - s ELSE u + k
  BY <1>1, <1>2 DEF Turned
<1> HIDE DEF x
<1>4. f - k \in 0 .. s /\ f - k <= n /\ 0 \in 0 .. f - k
  BY <1>1, <1>2
<1>5. ASSUME ~ b
      PROVE  d2 = n - (f - k) /\ (x + (f - k) = w \/ (x + (f - k) = w + s /\ n >= s))
  <2>1. d = n - f /\ d2 = d + k /\ (u + f = w \/ (u + f = w + s /\ n >= s))
    BY <1>1, <1>5
  <2> QED
    BY <1>1, <1>2, <1>3, <2>1
<1>6. RingSentOK(s, x, f - k, 0, n, b, d2, n, w)
  BY <1>1, <1>3, <1>4, <1>5 DEF RingSentOK
<1> QED
  BY <1>6 DEF x

LEMMA RingUpdate ==
    ASSUME NEW s, NEW e, NEW n, NEW w, RingRests(s, e, n, w),
           NEW u, NEW f, NEW v, NEW b, NEW d, RingSentOK(s, u, f, v, n, b, d, n, w), NEW h, HandedOK(h, v, b, d), v > 0
    PROVE  HandedOK(<< >>, 0, b, Last(h)) /\ RingSentOK(s, Turned(s, u + v), f - v, 0, n, b, Last(h), n, w)
<1>1. /\ u \in 0 .. s - 1 /\ f \in 0 .. s /\ f <= n /\ v \in 0 .. f /\ s \in Nat /\ n \in Nat
      /\ ~ b => d = n - f
  BY DEF RingSentOK, RingRests
<1>2. ASSUME ~ b PROVE Last(h) = d + v /\ Last(h) \in Int
  <2>1. d \in Int /\ h = UpTo(d, d + v)
    BY <1>1, <1>2 DEF HandedOK
  <2>3. v \in Nat
    BY <1>1
  <2>2. Last(h) = d + v
    BY <2>1, <2>3, UpToEnds
  <2> QED
    BY <1>1, <2>1, <2>2
<1>3. v \in 1 .. f
  BY <1>1
<1>4. RingSentOK(s, Turned(s, u + v), f - v, 0, n, b, Last(h), n, w)
  BY <1>2, <1>3, RingGoes
<1>5. ~ b => UpTo(Last(h), Last(h) + 0) = << >>
  BY <1>2, UpToEnds
<1> QED
  BY <1>4, <1>5 DEF HandedOK

LEMMA RingGet ==
    ASSUME NEW s, NEW e, NEW n, NEW w, RingRests(s, e, n, w),
           NEW u, NEW f, NEW b, NEW d, RingSentOK(s, u, f, 0, n, b, d, n, w), NEW h, HandedOK(h, 0, b, d), f > 0
    PROVE  HandedOK(h, 0, b, e[u]) /\ RingSentOK(s, Turned(s, u + 1), f - 1, 0, n, b, e[u], n, w)
<1>1. /\ u \in 0 .. s - 1 /\ f \in 0 .. s /\ f <= n /\ s \in Nat /\ n \in Nat
      /\ ~ b => d = n - f
  BY DEF RingSentOK, RingRests
<1>2. ASSUME ~ b PROVE e[u] = d + 1 /\ e[u] \in Int
  <2>1. 0 \in 0 .. f - 1 /\ u + 0 = u /\ Turned(s, u) = u /\ d \in Int
    BY <1>1, <1>2 DEF Turned
  <2>2. e[Turned(s, u + 0)] = d + 0 + 1
    BY <1>2, <2>1, RingAt
  <2> QED
    BY <2>1, <2>2
<1>3. 1 \in 1 .. f
  BY <1>1
<1>4. RingSentOK(s, Turned(s, u + 1), f - 1, 0, n, b, e[u], n, w)
  BY <1>2, <1>3, RingGoes
<1>5. ASSUME ~ b PROVE h = UpTo(e[u], e[u] + 0)
  <2>1. d \in Int /\ h = UpTo(d, d + 0)
    BY <1>1, <1>5 DEF HandedOK
  <2>2. UpTo(e[u], e[u] + 0) = << >>
    BY <1>2, <1>5, UpToEnds
  <2> QED
    BY <2>1, <2>2, UpToEnds
<1> QED
  BY <1>4, <1>5 DEF HandedOK

-----------------------------------------------------------------------------
(* What a step of Log_Write may do to its log. *)

StepIn(l, r, p, n, q, x, p2) ==
    \/ MarkTo(l, r, p, p2) /\ x = r
    \/ Waited(p, p2, q) /\ x = r
    \/ p = "count" /\ p2 = "f3" /\ CountOf(r, x)
    \/ p = "wtp" /\ p2 = "f4" /\ AdvanceOf(r, x)
    \/ ClearTo(p, p2) /\ ClearOf(r, x)
    \/ p = "copy" /\ p2 = "f2" /\ CopyOf(r, n, x)
    \/ p = "toggle" /\ p2 = "f321" /\ ToggleOf(r, x)

LEMMA StoreMoves ==
    ASSUME LogAssumption, NEW l \in Flashed, NEW r, NEW p, NEW n, NEW q, NEW par, NEW j, NEW m, NEW f,
           Store(l, r, p, n, q, par, j, m, f), Bit(par.sramlog_kind),
           NEW x, NEW p2, StepIn(l, r, p, n, q, x, p2)
    PROVE  /\ Store(l, x, p2, n, q, par, j, m, f)
           /\ Same(First(l, x, p2, n, q, par, j, m), First(l, r, p, n, q, par, j, m))
<1>1. CASE MarkTo(l, r, p, p2) /\ x = r
  BY <1>1, StoreMarked
<1>2. CASE Waited(p, p2, q) /\ x = r
  BY <1>2, StoreWaited
<1>3. CASE p = "count" /\ p2 = "f3" /\ CountOf(r, x)
  BY <1>3, StoreCount
<1>4. CASE p = "wtp" /\ p2 = "f4" /\ AdvanceOf(r, x)
  BY <1>4, StoreAdvance
<1>5. CASE ClearTo(p, p2) /\ ClearOf(r, x)
  BY <1>5, StoreClear
<1>6. CASE p = "copy" /\ p2 = "f2" /\ CopyOf(r, n, x)
  BY <1>6, StoreCopied
<1>7. CASE p = "toggle" /\ p2 = "f321" /\ ToggleOf(r, x)
  BY <1>7, StoreToggle
<1> QED
  BY <1>1, <1>2, <1>3, <1>4, <1>5, <1>6, <1>7 DEF StepIn

LEMMA FlashedMoves ==
    ASSUME LogAssumption, NEW l \in Flashed, NEW r, NEW p, NEW n, NEW q, NEW par, NEW j, NEW m, NEW f,
           NEW hand, NEW done, NEW lost, FlashedOK(l, r, p, n, q, par, j, m, f, hand, done, lost),
           Bit(par.sramlog_kind), NEW x, SameReaders(r, x), NEW p2, StepIn(l, r, p, n, q, x, p2)
    PROVE  FlashedOK(l, x, p2, n, q, par, j, m, f, hand, done, lost)
<1>1. Store(l, r, p, n, q, par, j, m, f)
  BY DEF FlashedOK
<1>2. Store(l, x, p2, n, q, par, j, m, f)
  BY <1>1, StoreMoves
<1>3. Same(First(l, x, p2, n, q, par, j, m), First(l, r, p, n, q, par, j, m))
  BY <1>1, StoreMoves
<1>4. NoLess(n, n) /\ SameUnread(j, j)
  BY DEF NoLess, SameUnread
<1> QED
  BY <1>2, <1>3, <1>4, FlashedGoes

RingStepIn(l, r, p, n, lost, x, p2, lost2) ==
    \/ RingMark(l, r, p, p2) /\ x = r /\ lost2 = lost
    \/ p = "count" /\ p2 = "f3" /\ RingCountOf(r, x) /\ lost2 = lost
    \/ p = "wtp" /\ p2 = "f4" /\ RingAdvanceOf(r, x) /\ lost2 = lost
    \/ p = "step" /\ p2 = "f41" /\ RingAdvanceOf(r, x) /\ lost2 = lost
    \/ p = "cap" /\ p2 = "f40" /\ CapOf(l, r, x) /\ lost2 = lost
    \/ p = "copy" /\ p2 = "unread" /\ RingCopyOf(r, n, x) /\ lost2 = lost
    \/ p = "rewind" /\ p2 = "f43" /\ RewindOf(r, x) /\ lost2 = lost
    \/ p = "unread" /\ p2 = "f2" /\ UnreadOf(l, r, lost, x, lost2)
    \/ p = "oldest" /\ p2 = "end" /\ OldestOf(l, r, x) /\ lost2 = lost

LEMMA RamMoves ==
    ASSUME LogAssumption, NEW l \in Ring, NEW r, NEW p, NEW n, NEW hand, NEW done, NEW lost,
           RamOK(l, r, p, n, hand, done, lost),
           NEW x, NEW p2, NEW lost2, RingStepIn(l, r, p, n, lost, x, p2, lost2)
    PROVE  RamOK(l, x, p2, n, hand, done, lost2)
<1>1. CASE RingMark(l, r, p, p2) /\ x = r /\ lost2 = lost
  BY <1>1, RamMarked
<1>2. CASE p = "count" /\ p2 = "f3" /\ RingCountOf(r, x) /\ lost2 = lost
  BY <1>2, RamCount
<1>3. CASE p = "wtp" /\ p2 = "f4" /\ RingAdvanceOf(r, x) /\ lost2 = lost
  BY <1>3, RamAdvance
<1>4. CASE p = "step" /\ p2 = "f41" /\ RingAdvanceOf(r, x) /\ lost2 = lost
  BY <1>4, RamNext
<1>5. CASE p = "cap" /\ p2 = "f40" /\ CapOf(l, r, x) /\ lost2 = lost
  BY <1>5, RamCap
<1>6. CASE p = "copy" /\ p2 = "unread" /\ RingCopyOf(r, n, x) /\ lost2 = lost
  BY <1>6, RamCopied
<1>7. CASE p = "rewind" /\ p2 = "f43" /\ RewindOf(r, x) /\ lost2 = lost
  BY <1>7, RamRewound
<1>8. CASE p = "unread" /\ p2 = "f2" /\ UnreadOf(l, r, lost, x, lost2)
  BY <1>8, RamUnread
<1>9. CASE p = "oldest" /\ p2 = "end" /\ OldestOf(l, r, x) /\ lost2 = lost
  BY <1>9, RamOldest
<1> QED
  BY <1>1, <1>2, <1>3, <1>4, <1>5, <1>6, <1>7, <1>8, <1>9 DEF RingStepIn

=============================================================================
