--------------------------- MODULE PktLinkProofs ---------------------------
(***************************************************************************)
(* Proofs about the session of the packet task: every state is well typed, *)
(* an awaited answer settles the record that is void read, the link always *)
(* has something to wake it while keepalive is on, and, as long as sending *)
(* does not fail and no time-out overtakes an answer, an ACK belongs to    *)
(* the record it is credited to and no record leaves its log too early.    *)
(* While the connection stays up and retries do not run out, commands are  *)
(* kept and reach the LCD in the order in which they were set.             *)
(***************************************************************************)
EXTENDS PktLink, SequenceTheorems, WellFoundedInduction, TLAPS

-----------------------------------------------------------------------------
(* What holds under every fault and every late timer. *)

TaskType == pc \in {"wait", "recv", "send"} /\ box \in Seq(Plain \cup Timers) /\ timers \subseteq Timers
LogType  == phase \in [LogKinds -> Phases] /\ logs \in [LogKinds -> Logs]
RingType == snd_buf \in Seq(Commands) /\ rsnd_add_cmd \in Seq(Commands)
NetType  == /\ sock \in {"none", "opening", "open", "dead"}
            /\ down \in Seq(Packets) /\ up \in Seq(Answers) /\ jobs \in Seq(Answers)
AuxType  == /\ todo \subseteq Cmds \cup Recs /\ issued \in Seq(Cmds)
            /\ rcvd \in [Cmds -> SUBSET Cmds] /\ taken \subseteq Recs /\ faults \in 0 .. MAX_FAULTS

(* The keepalive timer reaches its interval only when the link is given up. *)
CountOK(c) == kpalv_snd_intvl > 0 /\ c.keepalive_timer = kpalv_snd_intvl => c.keepalive <= kpalv_rtry_cnt
ControlInv == pktctrl \in Control /\ CountOK(pktctrl)

(* A void read record is the oldest one, and one that is awaited is void read. *)
ReadInv ==
    \A k \in LogKinds :
        /\ logs[k].void_read = 1 => logs[k].unread # <<>> /\ Head(logs[k].unread) = logs[k].read
        /\ phase[k] \in {"WAIT_ACK", "WAIT_RES_CMD"} => logs[k].void_read = 1

LogInv == LogType /\ ReadInv

AInv == TaskType /\ ControlInv /\ LogInv /\ RingType /\ NetType /\ AuxType

-----------------------------------------------------------------------------
(* What wakes the task, as long as keepalive is on. *)

Pending == timers \cup Holding(box)
Comes(t) == t \in Pending
Wakers == {CONNECT, CON_INTVL, CON_RES_WT, KEEPALIVE, RST_PRT}

WakeInv ==
    /\ Wakers \cap Pending # {}
    /\ pktctrl.sckt = "CONNECTING" => CON_RES_WT \in Pending

-----------------------------------------------------------------------------
(* What keeps packet, answer and record together while timers only run out  *)
(* when nothing else is left to happen.                                     *)

(* The messages behind the first one. *)
Later == IF box = <<>> THEN {} ELSE Holding(Tail(box))
Next_is(t) == box # <<>> /\ Head(box) = t
Silence == down = <<>> /\ up = <<>> /\ jobs = <<>>
AllIdle == \A k \in LogKinds : phase[k] = "IDLE"

(* Only commands are before the report of a connection. *)
ResultFirst(s) == \A i \in DOMAIN s : s[i] = SOC_CON => \A j \in 1 .. i - 1 : s[j] = SND_PRT

(* A time-out is handled before anything else happens on the link. *)
TimerInv ==
    /\ Later \cap Timers = {}
    /\ (\E t \in Timers : Next_is(t)) => pc = "wait" /\ Silence /\ sock # "opening"

(* Before the first attempt to connect nothing has happened. *)
StartInv ==
    Comes(CONNECT) =>
        /\ timers \subseteq {CONNECT} /\ Holding(box) \subseteq {CONNECT, SND_PRT}
        /\ Next_is(CONNECT) => timers = {}
        /\ pc # "recv" /\ sock = "none" /\ pktctrl.sckt = "DISCONNECT"

(* Without a connection nothing is awaited; then only commands come to the mailbox *)
(* behind a time-out.                                                              *)
DownInv ==
    /\ pktctrl.sckt = "DISCONNECT" =>
          /\ sock \in {"none", "dead"} /\ Silence /\ ~ pktctrl.res_wait /\ AllIdle
          /\ (\E t \in Timers : Next_is(t)) => Later \subseteq {SND_PRT}
    /\ Comes(CON_INTVL) => pktctrl.sckt = "DISCONNECT"
    /\ Next_is(CON_INTVL) => CON_INTVL \notin timers

(* While a connection is made nothing is awaited, and its result is the first *)
(* thing that comes, commands apart.                                          *)
OpeningInv ==
    /\ sock = "opening" \/ SOC_CON \in Holding(box) => pktctrl.sckt = "CONNECTING"
    /\ pktctrl.sckt = "CONNECTING" =>
          /\ sock # "none" /\ Silence /\ ~ pktctrl.res_wait /\ AllIdle /\ pc # "recv"
          /\ Holding(box) \subseteq {SND_PRT, SOC_CON, RST_PRT}
          /\ IF sock = "opening" THEN Holding(box) \subseteq {SND_PRT}
             ELSE Holding(box) \cap {SOC_CON, RST_PRT} # {}
    /\ ResultFirst(box)

(* Connected, nothing makes a new connection before the old one is taken down. *)
UpInv == pktctrl.sckt = "ESTABLISH" => sock \in {"open", "dead"}

Acks == {"ACK", "FORCED", "NAK"}
HasAck(s) == \E i \in DOMAIN s : s[i].what \in Acks
OneAck(s) == \A i, j \in DOMAIN s : s[i].what \in Acks /\ s[j].what \in Acks => i = j
Acked(s)  == \E i \in DOMAIN s : s[i].what = "ACK"

(* One packet at most is on its way, or its answer, and only while it is awaited. *)
FlightInv ==
    /\ down # <<>> \/ HasAck(up) => pktctrl.res_wait
    /\ down # <<>> => Len(down) = 1 /\ ~ HasAck(up)
    /\ OneAck(up)
    /\ ~ HasAck(jobs)

(* It carries the record whose ACK is awaited, of which there is one. *)
RecordInv ==
    /\ \A k \in InPhase("WAIT_ACK") :
          /\ pktctrl.res_wait =>
                /\ InPhase("WAIT_ACK") = {k}
                /\ down # <<>> => Head(down).recs = {logs[k].read}
                /\ Acked(up) => logs[k].read \in taken
          /\ ~ pktctrl.res_wait => sock = "dead"
    /\ AckIsItsOwn

PathInv == TimerInv /\ StartInv /\ DownInv /\ OpeningInv /\ UpInv
LinkInv == PathInv /\ FlightInv /\ RecordInv

-----------------------------------------------------------------------------
(* Sequences and choices. *)

(* What a sequence holds after an element is appended or the first one taken. *)
LEMMA HeldAppend ==
    ASSUME NEW S, NEW s \in Seq(S), NEW x \in S
    PROVE  /\ Append(s, x) \in Seq(S) /\ Append(s, x) # <<>>
           /\ Holding(Append(s, x)) = Holding(s) \cup {x}
           /\ Head(Append(s, x)) = IF s = <<>> THEN x ELSE Head(s)
           /\ Tail(Append(s, x)) = IF s = <<>> THEN <<>> ELSE Append(Tail(s), x)
<1>1. /\ Append(s, x) \in Seq(S) /\ Append(s, x) # <<>> /\ Len(s) \in Nat
      /\ Len(Append(s, x)) = Len(s) + 1
      /\ \A i \in 1 .. Len(s) : Append(s, x)[i] = s[i]
      /\ Append(s, x)[Len(s) + 1] = x
    BY AppendProperties
<1>2. DOMAIN s = 1 .. Len(s) /\ DOMAIN Append(s, x) = 1 .. Len(s) + 1
    BY <1>1, LenProperties
<1>3. Holding(Append(s, x)) = Holding(s) \cup {x}
    BY <1>1, <1>2 DEF Holding
<1>4. QED
    BY <1>1, <1>3, HeadTailAppend

LEMMA HeldTail ==
    ASSUME NEW S, NEW s \in Seq(S), s # <<>>
    PROVE  /\ Tail(s) \in Seq(S) /\ Head(s) \in S
           /\ Holding(s) = {Head(s)} \cup Holding(Tail(s))
<1>1. /\ Tail(s) \in Seq(S) /\ Head(s) \in S
      /\ Len(Tail(s)) = Len(s) - 1 /\ Len(s) \in Nat /\ Len(s) >= 1
      /\ \A i \in 1 .. Len(Tail(s)) : Tail(s)[i] = s[i + 1]
    BY HeadTailProperties, EmptySeq, LenProperties
<1>2. DOMAIN s = 1 .. Len(s) /\ DOMAIN Tail(s) = 1 .. Len(s) - 1
    BY <1>1, LenProperties
<1>3. Head(s) = s[1]
    OBVIOUS
<1>4. \A i \in 1 .. Len(s) : i = 1 \/ (i - 1 \in 1 .. Len(s) - 1 /\ s[i] = Tail(s)[i - 1])
    BY <1>1
<1>5. \A i \in 1 .. Len(s) - 1 : Tail(s)[i] = s[i + 1] /\ i + 1 \in 1 .. Len(s)
    BY <1>1
<1>6. Holding(s) \subseteq {Head(s)} \cup Holding(Tail(s))
  <2>1. SUFFICES ASSUME NEW i \in 1 .. Len(s)
                 PROVE  s[i] \in {Head(s)} \cup Holding(Tail(s))
    BY <1>2 DEF Holding
  <2>2. CASE i = 1
    BY <1>3, <2>2
  <2>3. CASE i # 1
    BY <1>2, <1>4, <2>3 DEF Holding
  <2>4. QED
    BY <2>2, <2>3
<1>7. {Head(s)} \cup Holding(Tail(s)) \subseteq Holding(s)
    BY <1>1, <1>2, <1>3, <1>5 DEF Holding
<1>8. QED
    BY <1>1, <1>6, <1>7

LEMMA HeldMoved ==
    ASSUME NEW S, NEW s \in Seq(S), s # <<>>, NEW x \in S
    PROVE  /\ Append(Tail(s), x) \in Seq(S) /\ Append(Tail(s), x) # <<>>
           /\ Holding(Append(Tail(s), x)) = Holding(Tail(s)) \cup {x}
           /\ Head(Append(Tail(s), x)) = IF Tail(s) = <<>> THEN x ELSE Head(Tail(s))
           /\ Tail(Append(Tail(s), x)) = IF Tail(s) = <<>> THEN <<>> ELSE Append(Tail(Tail(s)), x)
<1> DEFINE t == Tail(s)
<1>1. t \in Seq(S)
    BY HeldTail
<1> HIDE DEF t
<1>2. /\ Append(t, x) \in Seq(S) /\ Append(t, x) # <<>>
      /\ Holding(Append(t, x)) = Holding(t) \cup {x}
      /\ Head(Append(t, x)) = IF t = <<>> THEN x ELSE Head(t)
      /\ Tail(Append(t, x)) = IF t = <<>> THEN <<>> ELSE Append(Tail(t), x)
    BY <1>1, HeldAppend
<1>3. QED
    BY <1>2 DEF t

(* The least-number principle. *)
LEMMA LeastNumber ==
    ASSUME NEW T \in SUBSET Nat, T # {}
    PROVE  \E m \in T : \A k \in T : m <= k
<1> DEFINE Less == OpToRel(<, Nat)
<1>1. \E m \in T : \A k \in T : <<k, m>> \notin Less
  <2>1. IsWellFoundedOn(Less, Nat)
    BY NatLessThanWellFounded
  <2> HIDE DEF Less
  <2> QED
    BY <2>1, WFMin
<1>2. \A k, m \in Nat : k < m => <<k, m>> \in Less
  BY DEF OpToRel
<1> HIDE DEF Less
<1>3. PICK m \in T : \A k \in T : <<k, m>> \notin Less
  BY <1>1
<1>4. m \in Nat /\ \A k \in T : k \in Nat /\ ~ (k < m)
  BY <1>2, <1>3
<1> QED
  BY <1>4

(* Of some kinds the one that comes first in the order of the send section is one *)
(* of them.                                                                      *)
LEMMA FirstIsOne ==
    ASSUME NEW S, S \subseteq LogKinds, S # {}
    PROVE  First(S) \in S
<1> DEFINE T == {i \in DOMAIN Kinds : Kinds[i] \in S}
<1>1. DOMAIN Kinds = 1 .. Len(Kinds) /\ Len(Kinds) \in Nat
    BY LinkAssumption, LenProperties
<1>2. T # {} /\ T \subseteq Nat
    BY <1>1 DEF LogKinds
<1>3. PICK x \in T : \A y \in T : x <= y
    BY <1>2, LeastNumber
<1>4. \A j \in 1 .. x - 1 : Kinds[j] \notin S
  <2>1. x \in 1 .. Len(Kinds) /\ \A j \in 1 .. x - 1 : j \in 1 .. Len(Kinds) /\ ~ (x <= j)
    BY <1>1, <1>3
  <2>2. QED
    BY <1>1, <1>3, <2>1
<1>5. QED
    BY <1>3, <1>4 DEF First

(* The messages of the mailbox are told apart by their names. *)
LEMMA Names ==
    /\ {SOC_CON, SOC_RCV, SND_PRT, RST_PRT} = Plain
    /\ {CONNECT, CON_INTVL, CON_RES_WT, RES_WT, KEEPALIVE} \subseteq Timers
    /\ \A k \in AllKinds : RES(k) \in Timers /\ RESND(k) \in Timers
    /\ Plain \cap Timers = {}
BY DEF Plain, Timers, SOC_CON, SOC_RCV, SND_PRT, RST_PRT, CONNECT, CON_INTVL, CON_RES_WT, RES_WT,
       KEEPALIVE, RES, RESND

LEMMA PlainNames ==
    /\ SOC_CON # SOC_RCV /\ SOC_CON # SND_PRT /\ SOC_CON # RST_PRT
    /\ SOC_RCV # SND_PRT /\ SOC_RCV # RST_PRT /\ SND_PRT # RST_PRT
BY DEF SOC_CON, SOC_RCV, SND_PRT, RST_PRT

LEMMA TimerNames ==
    /\ CONNECT # CON_INTVL /\ CONNECT # CON_RES_WT /\ CONNECT # RES_WT /\ CONNECT # KEEPALIVE
    /\ CON_INTVL # CON_RES_WT /\ CON_INTVL # RES_WT /\ CON_INTVL # KEEPALIVE
    /\ CON_RES_WT # RES_WT /\ CON_RES_WT # KEEPALIVE /\ RES_WT # KEEPALIVE
    /\ \A k \in AllKinds : \A t \in {CONNECT, CON_INTVL, CON_RES_WT, RES_WT, KEEPALIVE} :
          RES(k) # t /\ RESND(k) # t
BY DEF CONNECT, CON_INTVL, CON_RES_WT, RES_WT, KEEPALIVE, RES, RESND

LEMMA Settings ==
    /\ snd_rtry_cnt \in Nat /\ rcv_rtry_cnt \in Nat /\ kpalv_snd_intvl \in Nat
    /\ kpalv_rtry_cnt \in Nat /\ MAX_FAULTS \in Nat /\ SENT_MAX \in Nat
    /\ 0 \in 0 .. snd_rtry_cnt /\ 0 \in 0 .. SENT_MAX /\ 0 \in 0 .. kpalv_snd_intvl
    /\ 0 \in 0 .. kpalv_rtry_cnt + 1 /\ 0 \in 0 .. MAX_FAULTS
    /\ \A n \in 0 .. SENT_MAX : Wrap(n + 1) \in 0 .. SENT_MAX
    /\ \A n \in Nat : Wrap(n + 1) \in 0 .. SENT_MAX
BY LinkAssumption DEF Wrap

LEMMA Fields ==
    ASSUME NEW c \in Control
    PROVE  /\ c.sckt \in {"DISCONNECT", "CONNECTING", "ESTABLISH"} /\ c.buf_type \in {"S", "A"}
           /\ c.res_wait \in BOOLEAN /\ c.rtry_cnt \in 0 .. snd_rtry_cnt
           /\ c.sent \in Nat /\ c.sent + 1 \in Nat /\ c.commited \in 0 .. SENT_MAX /\ c.commited \in Nat
           /\ c.keepalive_timer \in 0 .. kpalv_snd_intvl /\ c.keepalive \in 0 .. kpalv_rtry_cnt + 1
           /\ c.usNackRetryNum \in Nat /\ c.usNackRetryNum + 1 \in Nat
           /\ c.start_up \in {0, 1, 2} /\ (IF c.start_up >= 2 THEN 1 ELSE c.start_up) \in {0, 1, 2}
           /\ ~ (c.rtry_cnt + 1 > snd_rtry_cnt) => c.rtry_cnt + 1 \in 0 .. snd_rtry_cnt
           /\ Wrap(c.sent + 1) \in Nat /\ Wrap(c.commited + 1) \in 0 .. SENT_MAX
BY Settings DEF Control

LEMMA KindsInUse == LogKinds \subseteq AllKinds /\ \A k \in LogKinds : AckTimer(k) \in Timers
<1>1. LogKinds \subseteq AllKinds
    BY LinkAssumption, ElementOfSeq, LenProperties DEF LogKinds
<1>2. QED
    BY <1>1, Names DEF AckTimer, AllKinds

-----------------------------------------------------------------------------
(* What the shared parts of the handlers do to the control block and the logs. *)

(* A control block stays one, and its keepalive count stays in order, when an *)
(* answer is heard, or an attempt is counted.                                 *)
LEMMA HeardIsOK ==
    ASSUME NEW c \in Control
    PROVE  Heard(c) \in Control /\ CountOK(Heard(c)) /\ Heard(c).rtry_cnt = c.rtry_cnt
           /\ Heard(c).sckt = c.sckt /\ Heard(c).res_wait = c.res_wait
BY Settings DEF Heard, Control, CountOK

LEMMA GotIsOK ==
    ASSUME ControlInv
    PROVE  Got \in Control /\ CountOK(Got) /\ Got.rtry_cnt = pktctrl.rtry_cnt
           /\ Got.sckt = "ESTABLISH" /\ Got.res_wait = pktctrl.res_wait
BY DEF Got, Control, ControlInv, CountOK

LEMMA CountedIsOK ==
    ASSUME NEW c \in Control, CountOK(c), NEW t \in 0 .. kpalv_snd_intvl
    PROVE  /\ \A n \in 0 .. kpalv_rtry_cnt + 1 :
                 LET d == [c EXCEPT !.keepalive_timer = t, !.keepalive = n]
                 IN  n <= kpalv_rtry_cnt \/ t # kpalv_snd_intvl => d \in Control /\ CountOK(d)
           /\ LET d == [c EXCEPT !.keepalive_timer = t]
              IN  t # kpalv_snd_intvl => d \in Control /\ CountOK(d)
BY DEF Control, CountOK

LEMMA RetriedIsOK ==
    ASSUME ControlInv, NEW c \in Control, CountOK(c), c.rtry_cnt = pktctrl.rtry_cnt,
           NEW d, d = Retried([c EXCEPT !.res_wait = FALSE])
    PROVE  d \in Control /\ CountOK(d) /\ d.sckt = c.sckt /\ d.res_wait = FALSE
<1>1. (IF Over THEN 0 ELSE c.rtry_cnt + 1) \in 0 .. snd_rtry_cnt
    BY Settings, Fields DEF Over, ControlInv
<1> DEFINE e == [c EXCEPT !.res_wait = FALSE]
<1>2. e \in Control /\ e.rtry_cnt = c.rtry_cnt /\ CountOK(e) /\ e.sckt = c.sckt /\ e.res_wait = FALSE
    BY DEF Control, CountOK
<1>3. d = Retried(e)
    OBVIOUS
<1> HIDE DEF e
<1>4. QED
    BY <1>1, <1>2, <1>3 DEF Control, Retried, CountOK

(* Undone and Consumed change nothing but what they are for. *)
LEMMA UndoneIs ==
    ASSUME LogType, NEW S
    PROVE  /\ Undone(S) \in [LogKinds -> Logs]
           /\ \A k \in LogKinds :
                 /\ Undone(S)[k].unread = logs[k].unread /\ Undone(S)[k].read = logs[k].read
                 /\ Undone(S)[k].void_read = IF k \in S THEN 0 ELSE logs[k].void_read
BY DEF LogType, Undone, Logs

LEMMA ConsumedIs ==
    ASSUME LogInv, NEW S
    PROVE  /\ Consumed(S) \in [LogKinds -> Logs]
           /\ \A k \in LogKinds :
                 /\ Consumed(S)[k].read = logs[k].read
                 /\ IF k \in S /\ logs[k].void_read = 1
                    THEN Consumed(S)[k].unread = Tail(logs[k].unread) /\ Consumed(S)[k].void_read = 0
                    ELSE Consumed(S)[k] = logs[k]
<1>1. SUFFICES ASSUME NEW k \in LogKinds
               PROVE  /\ Consumed(S)[k] \in Logs /\ Consumed(S)[k].read = logs[k].read
                      /\ IF k \in S /\ logs[k].void_read = 1
                         THEN Consumed(S)[k].unread = Tail(logs[k].unread) /\ Consumed(S)[k].void_read = 0
                         ELSE Consumed(S)[k] = logs[k]
    BY DEF Consumed
<1> DEFINE g == logs[k]
           u == Tail(g.unread)
           l == [g EXCEPT !.unread = u, !.void_read = 0]
<1>2. g \in Logs /\ (g.void_read = 1 => g.unread \in Seq(Recs) /\ g.unread # <<>>)
    BY DEF LogInv, LogType, ReadInv, Logs
<1>3. Consumed(S)[k] = IF k \in S /\ g.void_read = 1 THEN l ELSE g
    BY DEF Consumed
<1> HIDE DEF g
<1>4. g.void_read = 1 => u \in Seq(Recs)
    BY <1>2, HeadTailProperties
<1> HIDE DEF u
<1>5. g.void_read = 1 => l \in Logs /\ l.unread = u /\ l.void_read = 0 /\ l.read = g.read
    BY <1>2, <1>4 DEF Logs
<1> HIDE DEF l
<1>6. QED
    BY <1>2, <1>3, <1>5 DEF u, g

LEMMA InPhaseNowIs ==
    ASSUME LogType, NEW S, NEW p \in Phases
    PROVE  /\ InPhaseNow(S, p) \in [LogKinds -> Phases]
           /\ \A k \in LogKinds : InPhaseNow(S, p)[k] = IF k \in S THEN p ELSE phase[k]
BY DEF LogType, InPhaseNow

LEMMA ResumedIs ==
    ASSUME LogType
    PROVE  /\ Resumed \in [LogKinds -> Phases]
           /\ \A k \in LogKinds : Resumed[k] = phase[k] \/ (phase[k] = "RESEND_CANCEL" /\ Resumed[k] = "IDLE")
           /\ \A c \in Control : ResumedType(c) \in {"S", "A"}
<1>1. InPhase("RESEND_CANCEL") \subseteq LogKinds
    BY DEF InPhase
<1>2. InPhase("RESEND_CANCEL") # {} => First(InPhase("RESEND_CANCEL")) \in InPhase("RESEND_CANCEL")
    BY <1>1, FirstIsOne
<1>3. \A c \in Control : ResumedType(c) \in {"S", "A"}
    BY Fields DEF ResumedType
<1>4. QED
    BY <1>2, <1>3 DEF LogType, Resumed, InPhase, Phases

LEMMA AwaitedIsOne ==
    /\ InPhase("WAIT_ACK") \subseteq LogKinds
    /\ InPhase("WAIT_ACK") # {} => First(InPhase("WAIT_ACK")) \in InPhase("WAIT_ACK")
BY FirstIsOne DEF InPhase

LEMMA ResendIsOK ==
    ASSUME LogInv, NEW c, c \in Control, CountOK(c), Resend(c)
    PROVE  LogInv' /\ ControlInv' /\ pktctrl'.sckt = c.sckt /\ pktctrl'.res_wait = c.res_wait
<1>1. ControlInv' /\ pktctrl'.sckt = c.sckt /\ pktctrl'.res_wait = c.res_wait
    BY DEF Resend, ControlInv, Control, CountOK
<1>2. CASE InPhase("WAIT_ACK") = {}
    BY <1>1, <1>2 DEF Resend, LogInv, LogType, ReadInv
<1>3. CASE InPhase("WAIT_ACK") # {}
  <2> DEFINE k == First(InPhase("WAIT_ACK"))
  <2>1. k \in LogKinds /\ logs' = Undone({k}) /\ phase' = [phase EXCEPT ![k] = "IDLE"]
    BY <1>3, AwaitedIsOne DEF Resend
  <2> HIDE DEF k
  <2>2. LogType'
    BY <2>1, UndoneIs DEF LogInv, LogType, Phases
  <2>3. ReadInv'
    BY <2>1, UndoneIs DEF LogInv, LogType, ReadInv
  <2>4. QED
    BY <1>1, <2>2, <2>3 DEF LogInv
<1>4. QED
    BY <1>1, <1>2, <1>3

LEMMA GiveUpIsOK ==
    ASSUME LogInv, NEW c, c \in Control, CountOK(c), NEW undo \in BOOLEAN, GiveUp(c, undo)
    PROVE  LogInv' /\ ControlInv' /\ pktctrl'.sckt = c.sckt /\ pktctrl'.res_wait = c.res_wait
<1>1. ResumedType(c) \in {"S", "A"} /\ c.sent + 1 \in Nat
    BY Fields, ResumedIs DEF LogInv
<1>2. ControlInv' /\ pktctrl'.sckt = c.sckt /\ pktctrl'.res_wait = c.res_wait
    BY <1>1 DEF GiveUp, ControlInv, Control, CountOK
<1>3. CASE InPhase("WAIT_ACK") = {}
    BY <1>2, <1>3, ResumedIs DEF GiveUp, LogInv, LogType, ReadInv
<1>4. CASE InPhase("WAIT_ACK") # {}
  <2> DEFINE k == First(InPhase("WAIT_ACK"))
  <2>1. /\ k \in LogKinds /\ phase' = [phase EXCEPT ![k] = "RESEND_CANCEL"]
        /\ logs' = Undone({k}) \/ logs' = logs
    BY <1>4, AwaitedIsOne DEF GiveUp
  <2> HIDE DEF k
  <2>2. LogType'
    BY <2>1, UndoneIs DEF LogInv, LogType, Phases
  <2>3. ReadInv'
    BY <2>1, UndoneIs DEF LogInv, LogType, ReadInv
  <2>4. QED
    BY <1>2, <2>2, <2>3 DEF LogInv
<1>5. QED
    BY <1>2, <1>3, <1>4

LEMMA DisconnectIsOK ==
    ASSUME AInv, box # <<>>, Disconnect
    PROVE  TaskType' /\ LogInv' /\ NetType' /\ UNCHANGED <<pc, snd_buf, rsnd_add_cmd, aux>>
<1>1. TaskType'
    BY Names, HeadTailProperties DEF AInv, TaskType, Disconnect, Reconnecting
<1> DEFINE busy == LogKinds \ InPhase("IDLE")
<1>2. /\ logs' = Undone(busy) /\ phase' = InPhaseNow(busy, "IDLE")
      /\ LogType /\ ReadInv /\ "IDLE" \in Phases
    BY DEF Disconnect, AInv, LogInv, Phases
<1>3. LogType'
    BY <1>2, UndoneIs, InPhaseNowIs DEF LogType
<1>4. \A k \in LogKinds : phase'[k] = "IDLE"
    BY <1>2, InPhaseNowIs DEF InPhase
<1> HIDE DEF busy
<1>5. ReadInv'
    BY <1>2, <1>4, UndoneIs DEF ReadInv
<1>6. QED
    BY <1>1, <1>3, <1>5 DEF LogInv, NetType, Disconnect

LEMMA OpenSocketIsOK ==
    ASSUME AInv, OpenSocket
    PROVE  timers' \subseteq Timers /\ ControlInv' /\ NetType' /\ faults' \in 0 .. MAX_FAULTS
<1>1. timers' \subseteq Timers
    BY Names DEF AInv, TaskType, OpenSocket
<1>2. ControlInv'
    BY DEF AInv, ControlInv, Control, CountOK, OpenSocket
<1>3. NetType'
  <2>1. CASE UNCHANGED net
    BY <2>1 DEF AInv, NetType, net
  <2>2. CASE down' = <<>> /\ up' = <<>> /\ jobs' = <<>> /\ sock' \in {"opening", "none", "dead"}
    BY <2>2 DEF NetType
  <2>3. QED
    BY <2>1, <2>2 DEF OpenSocket
<1>4. faults' \in 0 .. MAX_FAULTS
    BY Settings DEF AInv, AuxType, OpenSocket, Fault
<1>5. QED
    BY <1>1, <1>2, <1>3, <1>4

LEMMA TransmitIsOK ==
    ASSUME AInv, NEW c, c \in Control, CountOK(c), NEW p \in Packets, Transmit(c, p)
    PROVE  /\ timers' \subseteq Timers /\ box' \in Seq(Plain \cup Timers) /\ ControlInv'
           /\ down' \in Seq(Packets) /\ faults' \in 0 .. MAX_FAULTS
<1>1. timers' \subseteq Timers /\ box' \in Seq(Plain \cup Timers)
    BY Names DEF AInv, TaskType, Transmit
<1>2. ControlInv'
  <2> DEFINE d == IF kpalv_snd_intvl > 0 THEN Heard(c) ELSE c
  <2>1. d \in Control /\ CountOK(d)
    BY HeardIsOK
  <2>2. pktctrl' = [d EXCEPT !.res_wait = TRUE] \/ pktctrl' = d
    BY DEF Transmit
  <2> HIDE DEF d
  <2>3. QED
    BY <2>1, <2>2 DEF ControlInv, Control, CountOK
<1>3. down' \in Seq(Packets)
  <2>1. down \in Seq(Packets) /\ Append(down, p) \in Seq(Packets)
    BY AppendProperties DEF AInv, NetType
  <2>2. QED
    BY <2>1 DEF Transmit
<1>4. faults' \in 0 .. MAX_FAULTS
    BY Settings DEF AInv, AuxType, Transmit
<1>5. QED
    BY <1>1, <1>2, <1>3, <1>4

-----------------------------------------------------------------------------
(* Every action keeps the types, the keepalive count and what void read means. *)

LEMMA SocConKeepsA ==
    ASSUME AInv, SocCon
    PROVE  AInv'
<1>1. box \in Seq(Plain \cup Timers) /\ box # <<>>
    BY DEF AInv, TaskType, SocCon, Handle
<1>2. TaskType'
    BY <1>1, HeadTailProperties, AppendProperties, Names DEF AInv, TaskType, SocCon
<1>3. ControlInv'
  <2>1. pktctrl' \in Control
    BY Settings DEF AInv, ControlInv, Control, SocCon
  <2>2. pktctrl'.keepalive = 0
    BY DEF AInv, ControlInv, Control, SocCon
  <2>3. QED
    BY <2>1, <2>2, Settings DEF ControlInv, CountOK
<1>4. RingType'
  <2>1. Request \in Commands
    BY DEF Request, Commands
  <2>2. QED
    BY <2>1 DEF AInv, RingType, SocCon
<1>5. QED
    BY <1>2, <1>3, <1>4 DEF AInv, LogInv, LogType, ReadInv, NetType, AuxType, net, aux, SocCon

LEMMA ConnectKeepsA ==
    ASSUME AInv, ConnectTimeout
    PROVE  AInv'
<1>1. box \in Seq(Plain \cup Timers) /\ box # <<>> /\ box' = Tail(box)
    BY DEF AInv, TaskType, ConnectTimeout, Handle
<1>2. timers' \subseteq Timers /\ ControlInv' /\ NetType' /\ faults' \in 0 .. MAX_FAULTS
  <2>1. CASE OpenSocket
    BY <2>1, OpenSocketIsOK
  <2>2. CASE timers' = timers \cup {CONNECT} /\ UNCHANGED <<pktctrl, net, faults>>
    BY <2>2, Names DEF AInv, TaskType, ControlInv, NetType, AuxType, net
  <2>3. QED
    BY <2>1, <2>2 DEF ConnectTimeout
<1>3. TaskType'
    BY <1>1, <1>2, HeadTailProperties DEF AInv, TaskType, ConnectTimeout
<1>4. QED
    BY <1>2, <1>3 DEF AInv, LogInv, LogType, ReadInv, RingType, AuxType, ConnectTimeout

LEMMA ConIntvlKeepsA ==
    ASSUME AInv, ConIntvlTimeout
    PROVE  AInv'
<1>1. box \in Seq(Plain \cup Timers) /\ box # <<>> /\ box' = Tail(box)
    BY DEF AInv, TaskType, ConIntvlTimeout, Handle
<1>2. timers' \subseteq Timers /\ ControlInv' /\ NetType' /\ faults' \in 0 .. MAX_FAULTS
    BY OpenSocketIsOK DEF ConIntvlTimeout
<1>3. TaskType'
    BY <1>1, <1>2, HeadTailProperties DEF AInv, TaskType, ConIntvlTimeout
<1>4. QED
    BY <1>2, <1>3 DEF AInv, LogInv, LogType, ReadInv, RingType, AuxType, ConIntvlTimeout

LEMMA RstPrtKeepsA ==
    ASSUME AInv, RstPrt
    PROVE  AInv'
<1>1. TaskType' /\ LogInv' /\ NetType' /\ UNCHANGED <<pc, snd_buf, rsnd_add_cmd, aux>>
    BY DisconnectIsOK DEF RstPrt, Handle
<1>2. (IF pktctrl.start_up >= 2 THEN 1 ELSE pktctrl.start_up) \in {0, 1, 2}
    BY Fields DEF AInv, ControlInv
<1>3. ControlInv'
    BY <1>2 DEF AInv, ControlInv, Control, CountOK, RstPrt
<1>4. QED
    BY <1>1, <1>3 DEF AInv, RingType, AuxType, aux

LEMMA ConResWtKeepsA ==
    ASSUME AInv, ConResWtTimeout
    PROVE  AInv'
<1>1. TaskType' /\ LogInv' /\ NetType' /\ UNCHANGED <<pc, snd_buf, rsnd_add_cmd, aux>>
    BY DisconnectIsOK DEF ConResWtTimeout, Handle
<1>2. ControlInv'
    BY DEF AInv, ControlInv, Control, CountOK, ConResWtTimeout
<1>3. QED
    BY <1>1, <1>2 DEF AInv, RingType, AuxType, aux

LEMMA KeepaliveKeepsA ==
    ASSUME AInv, KeepaliveTimeout
    PROVE  AInv'
<1>1. box \in Seq(Plain \cup Timers) /\ box # <<>>
    BY DEF AInv, TaskType, KeepaliveTimeout, Handle
<1>2. \A m \in {SND_PRT, RST_PRT} :
         Tail(box) \in Seq(Plain \cup Timers) /\ Append(Tail(box), m) \in Seq(Plain \cup Timers)
    BY <1>1, HeadTailProperties, AppendProperties, Names
<1>3. TaskType'
    BY <1>2, Names DEF AInv, TaskType, KeepaliveTimeout
<1>4. ControlInv'
  <2> DEFINE t == pktctrl.keepalive_timer + 1
             n == pktctrl.keepalive + 1
  <2>1. /\ kpalv_snd_intvl > 0 => t \in 0 .. kpalv_snd_intvl \/ pktctrl.keepalive <= kpalv_rtry_cnt
        /\ ~ (pktctrl.keepalive > kpalv_rtry_cnt) => n \in 0 .. kpalv_rtry_cnt + 1
        /\ kpalv_snd_intvl > 0 /\ ~ (t >= kpalv_snd_intvl) => t \in 0 .. kpalv_snd_intvl /\ t # kpalv_snd_intvl
        /\ ~ (pktctrl.keepalive > kpalv_rtry_cnt) <=> pktctrl.keepalive <= kpalv_rtry_cnt
    BY Settings, Fields DEF AInv, ControlInv, CountOK
  <2> HIDE DEF t, n
  <2>2. \/ pktctrl' = [pktctrl EXCEPT !.keepalive_timer = 0, !.keepalive = 0]
        \/ pktctrl' = [pktctrl EXCEPT !.keepalive_timer = 0, !.keepalive = n] /\ kpalv_snd_intvl > 0
              /\ pktctrl.keepalive <= kpalv_rtry_cnt
        \/ pktctrl' = [pktctrl EXCEPT !.keepalive_timer = t, !.keepalive = 0] /\ kpalv_snd_intvl > 0
              /\ ~ (pktctrl.keepalive <= kpalv_rtry_cnt)
        \/ pktctrl' = [pktctrl EXCEPT !.keepalive_timer = t] /\ kpalv_snd_intvl > 0 /\ ~ (t >= kpalv_snd_intvl)
        \/ pktctrl' = pktctrl
    BY <2>1 DEF KeepaliveTimeout, t, n, AInv, ControlInv, Control
  <2>3. pktctrl \in Control /\ CountOK(pktctrl)
    BY DEF AInv, ControlInv
  <2>4. 0 <= kpalv_rtry_cnt /\ 0 \in 0 .. kpalv_rtry_cnt + 1 /\ 0 \in 0 .. kpalv_snd_intvl
    BY Settings
  <2>5. CASE pktctrl' = [pktctrl EXCEPT !.keepalive_timer = 0, !.keepalive = 0]
    BY <2>3, <2>4, <2>5, CountedIsOK DEF ControlInv
  <2>6. CASE /\ pktctrl' = [pktctrl EXCEPT !.keepalive_timer = 0, !.keepalive = n]
             /\ kpalv_snd_intvl > 0 /\ pktctrl.keepalive <= kpalv_rtry_cnt
    <3>1. n \in 0 .. kpalv_rtry_cnt + 1 /\ 0 # kpalv_snd_intvl
      BY <2>1, <2>6
    <3>2. QED
      BY <2>3, <2>4, <2>6, <3>1, CountedIsOK, Settings DEF ControlInv
  <2>7. CASE /\ pktctrl' = [pktctrl EXCEPT !.keepalive_timer = t, !.keepalive = 0]
             /\ kpalv_snd_intvl > 0 /\ ~ (pktctrl.keepalive <= kpalv_rtry_cnt)
    BY <2>1, <2>3, <2>4, <2>7, CountedIsOK DEF ControlInv
  <2>8. CASE /\ pktctrl' = [pktctrl EXCEPT !.keepalive_timer = t]
             /\ kpalv_snd_intvl > 0 /\ ~ (t >= kpalv_snd_intvl)
    BY <2>1, <2>3, <2>8, CountedIsOK DEF ControlInv
  <2>9. QED
    BY <2>2, <2>3, <2>5, <2>6, <2>7, <2>8 DEF ControlInv
<1>5. RingType'
  <2>1. RST_REQ \in Commands /\ CONFIG \in Commands /\ snd_buf \in Seq(Commands)
    BY DEF Commands, AInv, RingType
  <2>2. \/ snd_buf' \in {snd_buf, Append(snd_buf, RST_REQ), Append(snd_buf, CONFIG)} /\ UNCHANGED rsnd_add_cmd
        \/ snd_buf' = snd_buf /\ rsnd_add_cmd' = <<>>
    BY DEF KeepaliveTimeout
  <2>3. \A c \in Commands : Append(snd_buf, c) \in Seq(Commands)
    BY <2>1, AppendProperties
  <2>4. <<>> \in Seq(Commands)
    OBVIOUS
  <2>5. QED
    BY <2>1, <2>2, <2>3, <2>4 DEF AInv, RingType
<1>6. QED
    BY <1>3, <1>4, <1>5 DEF AInv, LogInv, LogType, ReadInv, NetType, AuxType, net, aux, KeepaliveTimeout

LEMMA SndPrtKeepsA ==
    ASSUME AInv, SndPrt
    PROVE  AInv'
<1>1. box \in Seq(Plain \cup Timers) /\ box # <<>>
    BY DEF AInv, TaskType, SndPrt, Handle
<1>2. TaskType'
    BY <1>1, HeadTailProperties DEF AInv, TaskType, SndPrt
<1>3. ControlInv'
    BY Fields DEF AInv, ControlInv, Control, CountOK, SndPrt
<1>4. QED
    BY <1>2, <1>3 DEF AInv, LogInv, LogType, ReadInv, RingType, NetType, AuxType, net, aux, SndPrt

LEMMA LogTimeoutKeepsA ==
    ASSUME AInv, LogTimeout
    PROVE  AInv'
<1>1. box \in Seq(Plain \cup Timers) /\ box # <<>> /\ box' = Tail(box)
    BY DEF AInv, TaskType, LogTimeout, Handle
<1>2. timers' \subseteq Timers /\ pc' \in {"wait", "recv", "send"}
  <2>1. CASE \E k \in AllKinds : Handle(RES(k)) /\ UNCHANGED <<timers, pc>>
    BY <2>1 DEF AInv, TaskType
  <2>2. CASE \E k \in AllKinds : timers' = timers \cup {RES(k)} /\ pc' = "send"
    BY <2>2, Names DEF AInv, TaskType
  <2>3. CASE timers' = timers /\ pc' = "send"
    BY <2>3 DEF AInv, TaskType
  <2>4. QED
    BY <2>1, <2>2, <2>3 DEF LogTimeout
<1>3. TaskType'
    BY <1>1, <1>2, HeadTailProperties DEF TaskType
<1>4. UNCHANGED <<pktctrl, phase, logs, snd_buf, rsnd_add_cmd, net, aux>>
    BY DEF LogTimeout
<1>5. QED
    BY <1>3, <1>4 DEF AInv, ControlInv, LogInv, LogType, ReadInv, RingType, NetType, AuxType, net, aux

LEMMA ResWtKeepsA ==
    ASSUME AInv, ResWtTimeout
    PROVE  AInv'
<1>1. box \in Seq(Plain \cup Timers) /\ box # <<>> /\ box' = Tail(box)
    BY DEF AInv, TaskType, ResWtTimeout, Handle
<1>2. TaskType'
    BY <1>1, HeadTailProperties DEF AInv, TaskType, ResWtTimeout
<1>3. ControlInv' /\ LogInv' /\ RingType'
  <2>1. CASE ~ pktctrl.res_wait
    BY <2>1 DEF AInv, ControlInv, LogInv, LogType, ReadInv, RingType, ResWtTimeout
  <2>2. CASE pktctrl.res_wait
    <3> DEFINE c == Retried([pktctrl EXCEPT !.res_wait = FALSE])
    <3>1. c \in Control /\ CountOK(c)
      BY RetriedIsOK DEF AInv, ControlInv
    <3>2. GiveUp(c, TRUE) \/ Resend(c)
      BY <2>2 DEF ResWtTimeout
    <3>3. UNCHANGED snd_buf
      BY DEF ResWtTimeout
    <3> HIDE DEF c
    <3>4. ControlInv' /\ LogInv'
      BY <3>1, <3>2, GiveUpIsOK, ResendIsOK DEF AInv
    <3>5. RingType'
      <4>1. rsnd_add_cmd' = <<>> \/ UNCHANGED rsnd_add_cmd
        BY <3>2 DEF GiveUp, Resend
      <4>2. QED
        BY <3>3, <4>1, EmptySeq DEF AInv, RingType
    <3>6. QED
      BY <3>4, <3>5
  <2>3. QED
    BY <2>1, <2>2
<1>4. QED
    BY <1>2, <1>3 DEF AInv, NetType, AuxType, net, aux, ResWtTimeout

LEMMA SocRcvKeepsA ==
    ASSUME AInv, SocRcv
    PROVE  AInv'
<1>1. box \in Seq(Plain \cup Timers) /\ box # <<>>
    BY DEF AInv, TaskType, SocRcv, Handle
<1>2. TaskType'
    BY <1>1, HeadTailProperties DEF AInv, TaskType, SocRcv
<1>3. QED
    BY <1>2 DEF AInv, ControlInv, LogInv, LogType, ReadInv, RingType, NetType, AuxType, net, aux, SocRcv

LEMMA RcvEndKeepsA ==
    ASSUME AInv, RcvEnd
    PROVE  AInv'
<1>1. TaskType'
    BY AppendProperties, Names DEF AInv, TaskType, RcvEnd
<1>2. QED
    BY <1>1 DEF AInv, ControlInv, LogInv, LogType, ReadInv, RingType, NetType, AuxType, net, aux, RcvEnd

(* A packet is read: what it leaves alone. *)
LEMMA ReadsIsOK ==
    ASSUME AInv, NEW what, Reads(what)
    PROVE  /\ NetType' /\ AuxType' /\ pc' = pc
           /\ Head(up) \in Answers /\ up # <<>> /\ up' = Tail(up)
<1>1. up \in Seq(Answers) /\ up # <<>> /\ up' = Tail(up)
    BY DEF AInv, NetType, Reads
<1>2. up' \in Seq(Answers) /\ Head(up) \in Answers
    BY <1>1, HeadTailProperties
<1>3. QED
    BY <1>1, <1>2 DEF AInv, NetType, AuxType, aux, Reads

LEMMA RcvUnexpectedKeepsA ==
    ASSUME AInv, RcvUnexpected
    PROVE  AInv'
<1>1. NetType' /\ AuxType' /\ pc' = pc
    BY ReadsIsOK DEF RcvUnexpected
<1>2. ControlInv'
    BY GotIsOK DEF AInv, ControlInv, RcvUnexpected
<1>3. QED
    BY <1>1, <1>2 DEF AInv, TaskType, LogInv, LogType, ReadInv, RingType, RcvUnexpected

LEMMA RcvAckKeepsA ==
    ASSUME AInv, RcvAck
    PROVE  AInv'
<1> DEFINE c == [Heard(Got) EXCEPT !.res_wait = FALSE, !.rtry_cnt = 0]
           k == First(InPhase("WAIT_ACK"))
<1>1. NetType' /\ AuxType' /\ pc' = pc /\ box' = Append(box, SND_PRT) /\ rsnd_add_cmd' = <<>>
      /\ UNCHANGED snd_buf
    BY ReadsIsOK DEF RcvAck
<1>2. timers' \subseteq Timers
  <2>1. InPhase("WAIT_ACK") # {} => AckTimer(k) \in Timers
    BY AwaitedIsOne, KindsInUse
  <2> HIDE DEF k
  <2>2. \/ timers' \subseteq timers \cup {KEEPALIVE, AckTimer(k)} /\ InPhase("WAIT_ACK") # {}
        \/ timers' \subseteq timers \cup {KEEPALIVE}
    BY DEF RcvAck, k
  <2>3. QED
    BY <2>1, <2>2, Names DEF AInv, TaskType
<1>3. TaskType'
    BY <1>1, <1>2, AppendProperties, Names DEF AInv, TaskType
<1>4. c \in Control /\ CountOK(c)
    BY GotIsOK, HeardIsOK, Settings DEF AInv, Control, CountOK
<1>5. Wrap(c.sent + 1) \in Nat /\ ResumedType(c) \in {"S", "A"}
    BY <1>4, Fields, ResumedIs DEF AInv, LogInv
<1>6. ControlInv'
  <2>1. \/ pktctrl' = c \/ pktctrl' = [c EXCEPT !.buf_type = "S"]
        \/ pktctrl' = [c EXCEPT !.sent = Wrap(@ + 1), !.reset_req = FALSE, !.buf_type = ResumedType(c)]
    BY DEF RcvAck
  <2> HIDE DEF c
  <2>2. QED
    BY <1>4, <1>5, <2>1 DEF ControlInv, Control, CountOK
<1>7. LogInv'
  <2>1. InPhase("WAIT_ACK") # {} => k \in LogKinds /\ phase[k] = "WAIT_ACK"
    BY AwaitedIsOne DEF InPhase
  <2>2. \/ InPhase("WAIT_ACK") # {} /\ phase' = [phase EXCEPT ![k] = "WAIT_RES_CMD"] /\ logs' = logs
        \/ InPhase("WAIT_ACK") # {} /\ phase' = [phase EXCEPT ![k] = "IDLE"] /\ logs' = Undone({k})
        \/ phase' = Resumed /\ logs' = logs
    BY DEF RcvAck
  <2> HIDE DEF k
  <2>3. LogType'
    BY <2>1, <2>2, UndoneIs, ResumedIs DEF AInv, LogInv, LogType, Phases
  <2>4. ReadInv'
    BY <2>1, <2>2, UndoneIs, ResumedIs DEF AInv, LogInv, LogType, ReadInv
  <2>5. QED
    BY <2>3, <2>4 DEF LogInv
<1>8. QED
    BY <1>1, <1>3, <1>6, <1>7 DEF AInv, RingType

LEMMA RcvNakKeepsA ==
    ASSUME AInv, RcvNak
    PROVE  AInv'
<1> DEFINE c == Retried([Heard(Got) EXCEPT !.res_wait = FALSE])
<1>1. NetType' /\ AuxType' /\ pc' = pc /\ UNCHANGED snd_buf
    BY ReadsIsOK DEF RcvNak
<1>2. TaskType'
  <2>1. box' = Append(box, SND_PRT) \/ box' = box
    BY DEF RcvNak
  <2>2. timers' = (timers \ {RES_WT}) \cup {KEEPALIVE}
    BY DEF RcvNak
  <2>3. QED
    BY <1>1, <2>1, <2>2, AppendProperties, Names DEF AInv, TaskType
<1>3. c \in Control /\ CountOK(c)
    BY GotIsOK, HeardIsOK, RetriedIsOK DEF AInv
<1>4. GiveUp(c, FALSE) \/ Resend(c)
    BY DEF RcvNak
<1> HIDE DEF c
<1>5. ControlInv' /\ LogInv'
    BY <1>3, <1>4, GiveUpIsOK, ResendIsOK DEF AInv
<1>6. RingType'
  <2>1. rsnd_add_cmd' = <<>> \/ UNCHANGED rsnd_add_cmd
    BY <1>4 DEF GiveUp, Resend
  <2>2. QED
    BY <1>1, <2>1, EmptySeq DEF AInv, RingType
<1>7. QED
    BY <1>1, <1>2, <1>5, <1>6 DEF AInv

LEMMA RcvConfigKeepsA ==
    ASSUME AInv, RcvConfig
    PROVE  AInv'
<1>1. NetType' /\ AuxType' /\ pc' = pc
    BY ReadsIsOK DEF RcvConfig
<1>2. TaskType'
    BY <1>1, Names DEF AInv, TaskType, RcvConfig
<1>3. ControlInv'
  <2> DEFINE c == Heard(Got)
  <2>1. c \in Control /\ 0 \in 0 .. kpalv_rtry_cnt + 1 /\ 0 <= kpalv_rtry_cnt
    BY GotIsOK, HeardIsOK, Settings DEF AInv
  <2>2. pktctrl' = [c EXCEPT !.usNackRetryNum = 0, !.keepalive = 0]
    BY DEF RcvConfig
  <2> HIDE DEF c
  <2>3. QED
    BY <2>1, <2>2 DEF ControlInv, Control, CountOK
<1>4. QED
    BY <1>1, <1>2, <1>3 DEF AInv, LogInv, LogType, ReadInv, RingType, RcvConfig

LEMMA RcvResponseKeepsA ==
    ASSUME AInv, RcvResponse
    PROVE  AInv'
<1> DEFINE a == Head(up)
           met == {k \in Cases(KindOf[a.rec]) \cap InPhase("WAIT_RES_CMD") :
                      IdOf[logs[k].read] = IdOf[a.rec]}
           done == {k \in met : a.result \in Settling(k)}
<1>1. NetType' /\ AuxType' /\ pc' = pc
    BY ReadsIsOK DEF RcvResponse
<1>2. met \subseteq LogKinds /\ done \subseteq met
    BY DEF InPhase
<1>3. /\ logs' = [k \in LogKinds |-> IF k \in done THEN Consumed(done)[k] ELSE Undone(met)[k]]
      /\ phase' = InPhaseNow(met, "IDLE")
      /\ timers' = (timers \ {RES(k) : k \in met}) \cup {RESND(k) : k \in met \ done} \cup {KEEPALIVE}
    BY DEF RcvResponse
<1> HIDE DEF met, done
<1>4. TaskType'
    BY <1>1, <1>2, <1>3, Names, KindsInUse DEF AInv, TaskType, RcvResponse
<1>5. ControlInv'
    BY GotIsOK, HeardIsOK, Settings DEF AInv, ControlInv, Control, CountOK, RcvResponse
<1>6. LogInv /\ LogType /\ ReadInv /\ "IDLE" \in Phases
    BY DEF AInv, LogInv, Phases
<1>7. LogType'
    BY <1>3, <1>6, UndoneIs, ConsumedIs, InPhaseNowIs DEF LogType
<1>8. ReadInv'
  <2>1. SUFFICES ASSUME NEW k \in LogKinds
                 PROVE  /\ logs'[k].void_read = 1 =>
                              logs'[k].unread # <<>> /\ Head(logs'[k].unread) = logs'[k].read
                        /\ phase'[k] \in {"WAIT_ACK", "WAIT_RES_CMD"} => logs'[k].void_read = 1
    BY DEF ReadInv
  <2>2. phase'[k] = IF k \in met THEN "IDLE" ELSE phase[k]
    BY <1>3, <1>6, InPhaseNowIs
  <2>3. CASE k \in done
    BY <1>2, <1>3, <1>6, <2>2, <2>3, ConsumedIs DEF ReadInv
  <2>4. CASE k \notin done
    BY <1>3, <1>6, <2>2, <2>4, UndoneIs DEF ReadInv
  <2>5. QED
    BY <2>3, <2>4
<1>9. QED
    BY <1>1, <1>4, <1>5, <1>7, <1>8 DEF AInv, LogInv, RingType, RcvResponse

LEMMA RcvGarbledKeepsA ==
    ASSUME AInv, RcvGarbled
    PROVE  AInv'
<1> DEFINE S == InPhase("WAIT_RES_CMD")
<1>1. faults' \in 0 .. MAX_FAULTS
    BY Settings DEF AInv, AuxType, RcvGarbled, Fault
<1>2. up' \in Seq(Answers) /\ timers' \subseteq Timers
  <2>1. up \in Seq(Answers) /\ up # <<>> /\ Tail(up) \in Seq(Answers)
    BY HeadTailProperties DEF AInv, NetType, RcvGarbled
  <2>2. up' \in {up, Tail(up)} /\ timers' \subseteq timers
    BY DEF RcvGarbled
  <2>3. QED
    BY <2>1, <2>2 DEF AInv, TaskType
<1>3. ControlInv'
    BY GotIsOK, Fields DEF AInv, ControlInv, Control, CountOK, RcvGarbled
<1>4. LogInv'
  <2>1. \/ logs' = Consumed(S) /\ phase' = InPhaseNow(S, "IDLE")
        \/ UNCHANGED <<logs, phase>>
    BY DEF RcvGarbled
  <2>2. LogInv /\ LogType /\ ReadInv /\ "IDLE" \in Phases
    BY DEF AInv, LogInv, Phases
  <2> HIDE DEF S
  <2>3. LogType'
    BY <2>1, <2>2, ConsumedIs, InPhaseNowIs DEF LogType
  <2>4. ReadInv'
    BY <2>1, <2>2, ConsumedIs, InPhaseNowIs DEF ReadInv
  <2>5. QED
    BY <2>3, <2>4 DEF LogInv
<1>5. QED
    BY <1>1, <1>2, <1>3, <1>4 DEF AInv, TaskType, RingType, NetType, AuxType, RcvGarbled

LEMMA EligibleIsOne ==
    ASSUME LogInv, Eligible # {}, NEW k, k = First(Eligible)
    PROVE  /\ k \in LogKinds /\ phase[k] = "IDLE"
           /\ logs[k].unread \in Seq(Recs) /\ logs[k].unread # <<>> /\ Head(logs[k].unread) \in Recs
<1>1. Eligible \subseteq LogKinds
    BY DEF Eligible, InPhase
<1>2. k \in Eligible
    BY <1>1, FirstIsOne
<1>3. k \in LogKinds /\ phase[k] = "IDLE" /\ logs[k].unread # <<>>
    BY <1>2 DEF Eligible, InPhase
<1>4. logs[k].unread \in Seq(Recs)
    BY <1>3 DEF LogInv, LogType, Logs
<1>5. QED
    BY <1>3, <1>4, HeadTailProperties

(* A record is read: what that does to the logs. *)
LEMMA VoidReadIs ==
    ASSUME LogType, NEW k \in LogKinds, NEW r \in Recs
    PROVE  LET l == [logs EXCEPT ![k].void_read = 1, ![k].read = r]
           IN  /\ l \in [LogKinds -> Logs]
               /\ l[k].void_read = 1 /\ l[k].read = r /\ l[k].unread = logs[k].unread
               /\ \A j \in LogKinds \ {k} : l[j] = logs[j]
BY DEF LogType, Logs

LEMMA SendLogKeepsA ==
    ASSUME AInv, SendLog
    PROVE  AInv'
<1> DEFINE k == First(Eligible)
           r == Head(logs[k].unread)
           p == [cmds |-> <<>>, recs |-> {r}]
<1>1. /\ k \in LogKinds /\ phase[k] = "IDLE"
      /\ logs[k].unread \in Seq(Recs) /\ logs[k].unread # <<>> /\ r \in Recs
    BY EligibleIsOne DEF AInv, SendLog
<1>2. /\ logs' = [logs EXCEPT ![k].void_read = 1, ![k].read = r]
      /\ phase' = [phase EXCEPT ![k] = "WAIT_ACK"]
      /\ Transmit(pktctrl, p)
    BY DEF SendLog
<1>3. p \in Packets
    BY <1>1 DEF Packets
<1> HIDE DEF p
<1>4. timers' \subseteq Timers /\ box' \in Seq(Plain \cup Timers) /\ ControlInv'
      /\ down' \in Seq(Packets) /\ faults' \in 0 .. MAX_FAULTS
    BY <1>2, <1>3, TransmitIsOK DEF AInv, ControlInv
<1>5. LogInv'
  <2>1. r = Head(logs[k].unread)
    OBVIOUS
  <2> HIDE DEF k, r
  <2>2. LogType /\ ReadInv
    BY DEF AInv, LogInv
  <2>3. LogType'
    BY <1>1, <1>2, <2>2, VoidReadIs DEF LogType, Phases
  <2>4. ReadInv'
    <3>1. /\ logs'[k].void_read = 1 /\ logs'[k].read = r /\ logs'[k].unread = logs[k].unread
          /\ \A j \in LogKinds \ {k} : logs'[j] = logs[j] /\ phase'[j] = phase[j]
      BY <1>1, <1>2, <2>2, VoidReadIs DEF LogType
    <3>2. QED
      BY <1>1, <2>1, <2>2, <3>1 DEF ReadInv
  <2>5. QED
    BY <2>3, <2>4 DEF LogInv
<1>6. QED
    BY <1>4, <1>5 DEF AInv, TaskType, RingType, NetType, AuxType, SendLog

LEMMA SendCommandsKeepsA ==
    ASSUME AInv, SendCommands
    PROVE  AInv'
<1>1. RingType'
  <2>1. snd_buf \in Seq(Commands) /\ rsnd_add_cmd \in Seq(Commands)
    BY DEF AInv, RingType
  <2>2. rsnd_add_cmd \o snd_buf \in Seq(Commands) /\ <<>> \in Seq(Commands)
    BY <2>1, ConcatProperties
  <2>3. QED
    BY <2>1, <2>2 DEF RingType, SendCommands, Remaining
<1>2. timers' \subseteq Timers /\ box' \in Seq(Plain \cup Timers) /\ ControlInv'
      /\ down' \in Seq(Packets) /\ faults' \in 0 .. MAX_FAULTS
  <2>1. CASE NextPacket # <<>>
    <3> DEFINE c == [pktctrl EXCEPT !.buf_type = "S"]
               p == [cmds |-> NextPacket, recs |-> {}]
    <3>1. c \in Control /\ CountOK(c)
      BY DEF AInv, ControlInv, Control, CountOK
    <3>2. p \in Packets
      BY DEF NextPacket, AInv, RingType, Packets
    <3>3. Transmit(c, p)
      BY <2>1 DEF SendCommands
    <3> HIDE DEF c, p
    <3>4. QED
      BY <3>1, <3>2, <3>3, TransmitIsOK
  <2>2. CASE NextPacket = <<>>
    <3>1. ControlInv'
      BY <2>2, Fields DEF AInv, ControlInv, Control, CountOK, SendCommands
    <3>2. QED
      BY <2>2, <3>1 DEF AInv, TaskType, NetType, AuxType, SendCommands
  <2>3. QED
    BY <2>1, <2>2
<1>3. QED
    BY <1>1, <1>2 DEF AInv, TaskType, LogInv, LogType, ReadInv, NetType, AuxType, SendCommands

LEMMA SendNothingKeepsA ==
    ASSUME AInv, SendNothing
    PROVE  AInv'
BY DEF AInv, TaskType, ControlInv, LogInv, LogType, ReadInv, RingType, NetType, AuxType, net, aux, SendNothing

LEMMA StartUpKeepsA ==
    ASSUME AInv, OpeStarts \/ LcdStarted
    PROVE  AInv'
<1>1. ControlInv'
    BY DEF AInv, ControlInv, Control, CountOK, OpeStarts, LcdStarted
<1>2. QED
    BY <1>1 DEF AInv, TaskType, LogInv, LogType, ReadInv, RingType, NetType, AuxType, net, aux, OpeStarts,
                LcdStarted

LEMMA ResetReqKeepsA ==
    ASSUME AInv, ResetReqFlgSet
    PROVE  AInv'
<1>1. ControlInv'
    BY DEF AInv, ControlInv, Control, CountOK, ResetReqFlgSet
<1>2. faults' \in 0 .. MAX_FAULTS
    BY Settings DEF AInv, AuxType, ResetReqFlgSet, Fault
<1>3. QED
    BY <1>1, <1>2 DEF AInv, TaskType, LogInv, LogType, ReadInv, RingType, NetType, AuxType, net, ResetReqFlgSet

LEMMA SetSendCommandKeepsA ==
    ASSUME AInv, NEW c, SetSendCommand(c)
    PROVE  AInv'
<1>1. c \in Cmds /\ c \in Commands
    BY DEF SetSendCommand, Commands
<1>2. TaskType'
    BY AppendProperties, Names DEF AInv, TaskType, SetSendCommand
<1>3. RingType'
    BY <1>1, AppendProperties DEF AInv, RingType, SetSendCommand
<1>4. AuxType'
    BY <1>1, AppendProperties DEF AInv, AuxType, SetSendCommand
<1>5. QED
    BY <1>2, <1>3, <1>4 DEF AInv, ControlInv, LogInv, LogType, ReadInv, NetType, net, SetSendCommand

LEMMA LogRegistKeepsA ==
    ASSUME AInv, NEW r, LogRegist(r)
    PROVE  AInv'
<1> DEFINE k == KindOf[r]
           u == Append(logs[k].unread, r)
<1>1. r \in Recs /\ k \in LogKinds
    BY LinkAssumption DEF LogRegist
<1>2. logs' = [logs EXCEPT ![k].unread = u] /\ phase' = phase
    BY DEF LogRegist
<1>3. logs[k].unread \in Seq(Recs) /\ LogType /\ ReadInv
    BY <1>1 DEF AInv, LogInv, LogType, Logs
<1>4. u \in Seq(Recs) /\ u # <<>> /\ (logs[k].unread # <<>> => Head(u) = Head(logs[k].unread))
    BY <1>1, <1>3, AppendProperties, HeadTailAppend
<1> HIDE DEF k, u
<1>5. LogType'
    BY <1>1, <1>2, <1>3, <1>4 DEF LogType, Logs
<1>6. logs'[k].unread = u /\ logs'[k].void_read = logs[k].void_read /\ logs'[k].read = logs[k].read
      /\ \A j \in LogKinds \ {k} : logs'[j] = logs[j]
    BY <1>1, <1>2, <1>3 DEF LogType, Logs
<1>7. ReadInv'
    BY <1>1, <1>2, <1>3, <1>4, <1>6 DEF ReadInv
<1>8. QED
    BY <1>5, <1>7 DEF AInv, TaskType, ControlInv, LogInv, RingType, NetType, AuxType, net, LogRegist

LEMMA ConnectedKeepsA ==
    ASSUME AInv, Connected
    PROVE  AInv'
<1>1. TaskType'
    BY AppendProperties, Names DEF AInv, TaskType, Connected
<1>2. QED
    BY <1>1 DEF AInv, ControlInv, LogInv, LogType, ReadInv, RingType, NetType, AuxType, aux, Connected

LEMMA BrokenKeepsA ==
    ASSUME AInv, Broken
    PROVE  AInv'
<1>1. TaskType'
    BY AppendProperties, Names DEF AInv, TaskType, Broken
<1>2. faults' \in 0 .. MAX_FAULTS
    BY Settings DEF AInv, AuxType, Broken, Fault
<1>3. QED
    BY <1>1, <1>2 DEF AInv, ControlInv, LogInv, LogType, ReadInv, RingType, NetType, AuxType, Broken

LEMMA AcceptsIsOK ==
    ASSUME AInv, NEW p \in Packets, LcdAccepts(p)
    PROVE  rcvd' \in [Cmds -> SUBSET Cmds] /\ taken' \subseteq Recs
BY DEF AInv, AuxType, LcdAccepts, Packets, Arrived, UpTo

(* The answer and the responses of the LCD. *)
LEMMA ResponsesAre ==
    ASSUME NEW p \in Packets
    PROVE  /\ Responses(p) \in Seq(Answers)
           /\ \A i \in DOMAIN Responses(p) : Responses(p)[i].what \in {"CFG", "RESPONSE"}
<1> DEFINE x == [what |-> "RESPONSE", rec |-> CHOOSE r \in p.recs : TRUE, result |-> 0]
           S == {d \in Answers : d.what \in {"CFG", "RESPONSE"}}
           a == IF \E i \in DOMAIN p.cmds : p.cmds[i] = CONFIG THEN <<Answer("CFG")>> ELSE <<>>
           b == IF p.recs = {} THEN <<>> ELSE <<x>>
<1>1. Answer("CFG") \in S
    BY DEF Answer, Answers
<1>2. p.recs # {} => x \in S
    BY Settings DEF Packets, Answers
<1> HIDE DEF S, x
<1>3. <<>> \in Seq(S) /\ <<Answer("CFG")>> \in Seq(S) /\ (p.recs # {} => <<x>> \in Seq(S))
    BY <1>1, <1>2
<1>4. Responses(p) = a \o b
    BY DEF Responses, x
<1>5. a \in Seq(S) /\ b \in Seq(S)
    BY <1>3
<1> HIDE DEF a, b
<1>6. Responses(p) \in Seq(S) /\ S \subseteq Answers
    BY <1>4, <1>5, ConcatProperties DEF S
<1>7. /\ Responses(p) \in Seq(Answers)
      /\ \A i \in DOMAIN Responses(p) : Responses(p)[i] \in S
    BY <1>6, SeqMonotonic, ElementOfSeq, LenProperties
<1>8. QED
    BY <1>7 DEF S

LEMMA LcdReceiveKeepsA ==
    ASSUME AInv, LcdReceive
    PROVE  AInv'
<1> DEFINE p == Head(down)
<1>1. p \in Packets /\ down' \in Seq(Packets)
    BY HeadTailProperties DEF AInv, NetType, LcdReceive
<1>2. TaskType'
    BY AppendProperties, Names DEF AInv, TaskType, LcdReceive
<1>3. \A w \in {"ACK", "NAK", "FORCED"} : Append(up, Answer(w)) \in Seq(Answers)
  <2>1. \A w \in {"ACK", "NAK", "FORCED"} : Answer(w) \in Answers
    BY DEF Answer, Answers
  <2>2. QED
    BY <2>1, AppendProperties DEF AInv, NetType
<1>4. CASE LcdAccepts(p) /\ up' = Append(up, Answer("ACK")) /\ jobs' = jobs \o Responses(p) /\ UNCHANGED faults
  <2>1. jobs' \in Seq(Answers) /\ up' \in Seq(Answers)
    BY <1>1, <1>3, <1>4, ResponsesAre, ConcatProperties DEF AInv, NetType
  <2>2. rcvd' \in [Cmds -> SUBSET Cmds] /\ taken' \subseteq Recs
    BY <1>1, <1>4, AcceptsIsOK
  <2>3. QED
    BY <1>1, <1>2, <1>4, <2>1, <2>2 DEF AInv, ControlInv, LogInv, LogType, ReadInv, RingType, NetType, AuxType,
                                       LcdReceive
<1>5. CASE /\ \/ Fault("nak") /\ up' = Append(up, Answer("NAK"))
              \/ Fault("forced") /\ up' = Append(up, Answer("FORCED"))
           /\ UNCHANGED <<rcvd, taken, jobs>>
  <2>1. up' \in Seq(Answers) /\ faults' \in 0 .. MAX_FAULTS
    <3>1. up' \in Seq(Answers)
      BY <1>3, <1>5
    <3>2. faults' \in 0 .. MAX_FAULTS
      BY <1>5, Settings DEF AInv, AuxType, Fault
    <3>3. QED
      BY <3>1, <3>2
  <2>2. QED
    BY <1>1, <1>2, <1>5, <2>1 DEF AInv, ControlInv, LogInv, LogType, ReadInv, RingType, NetType, AuxType,
                                 LcdReceive
<1>6. QED
    BY <1>4, <1>5 DEF LcdReceive

LEMMA LcdSilentKeepsA ==
    ASSUME AInv, LcdSilent
    PROVE  AInv'
<1> DEFINE p == Head(down)
<1>1. p \in Packets /\ down' \in Seq(Packets)
    BY HeadTailProperties DEF AInv, NetType, LcdSilent
<1>2. rcvd' \in [Cmds -> SUBSET Cmds] /\ taken' \subseteq Recs
    BY <1>1, AcceptsIsOK DEF AInv, AuxType, LcdSilent
<1>3. faults' \in 0 .. MAX_FAULTS
    BY Settings DEF AInv, AuxType, LcdSilent, Fault
<1>4. QED
    BY <1>1, <1>2, <1>3 DEF AInv, TaskType, ControlInv, LogInv, LogType, ReadInv, RingType, NetType, AuxType,
                           task, LcdSilent

LEMMA LcdRespondKeepsA ==
    ASSUME AInv, LcdRespond
    PROVE  AInv'
<1> DEFINE a == Head(jobs)
<1>1. a \in Answers /\ jobs' \in Seq(Answers)
    BY HeadTailProperties DEF AInv, NetType, LcdRespond
<1>2. TaskType'
    BY AppendProperties, Names DEF AInv, TaskType, LcdRespond
<1>3. up' \in Seq(Answers) /\ faults' \in 0 .. MAX_FAULTS
  <2>1. a.what = "RESPONSE" => \A n \in 1 .. 2 : [a EXCEPT !.result = n] \in Answers
    BY <1>1 DEF Answers
  <2>2. CASE up' = Append(up, a) /\ UNCHANGED faults
    BY <1>1, <2>2, AppendProperties DEF AInv, NetType, AuxType
  <2>3. CASE a.what = "RESPONSE" /\ Fault("ng") /\ \E n \in 1 .. 2 : up' = Append(up, [a EXCEPT !.result = n])
    <3>1. PICK n \in 1 .. 2 : up' = Append(up, [a EXCEPT !.result = n])
      BY <2>3
    <3>2. [a EXCEPT !.result = n] \in Answers /\ up \in Seq(Answers)
      BY <2>1, <2>3 DEF AInv, NetType
    <3>3. up' \in Seq(Answers)
      BY <3>1, <3>2, AppendProperties
    <3>4. QED
      BY <2>3, <3>3, Settings DEF AInv, AuxType, Fault
  <2>4. QED
    BY <2>2, <2>3 DEF LcdRespond
<1>4. QED
    BY <1>1, <1>2, <1>3 DEF AInv, ControlInv, LogInv, LogType, ReadInv, RingType, NetType, AuxType, LcdRespond

LEMMA ExpireKeepsA ==
    ASSUME AInv, NEW t \in Timers, Expire(t)
    PROVE  AInv'
<1>1. TaskType'
    BY AppendProperties DEF AInv, TaskType, Expire
<1>2. faults' \in 0 .. MAX_FAULTS
    BY Settings DEF AInv, AuxType, Expire
<1>3. QED
    BY <1>1, <1>2 DEF AInv, ControlInv, LogInv, LogType, ReadInv, RingType, NetType, AuxType, net, Expire

-----------------------------------------------------------------------------
LEMMA InitIsA == Init => AInv
<1> SUFFICES ASSUME Init
             PROVE  AInv
    OBVIOUS
<1>1. TaskType
    BY Names, EmptySeq DEF Init, TaskType
<1>2. ControlInv
    BY Settings DEF Init, ControlInv, Control, CountOK
<1>3. LogInv
    BY EmptySeq DEF Init, LogInv, LogType, ReadInv, Phases, Logs
<1>4. RingType /\ NetType /\ AuxType
    BY Settings, EmptySeq DEF Init, RingType, NetType, AuxType
<1>5. QED
    BY <1>1, <1>2, <1>3, <1>4 DEF AInv

LEMMA StutterIsA == AInv /\ UNCHANGED vars => AInv'
BY DEF AInv, TaskType, ControlInv, LogInv, LogType, ReadInv, RingType, NetType, AuxType, vars, task, net, aux

LEMMA StepIsA == AInv /\ [Next]_vars => AInv'
<1> SUFFICES ASSUME AInv, [Next]_vars
             PROVE  AInv'
    OBVIOUS
<1>1. CASE Handlers
    BY <1>1, SocConKeepsA, ConnectKeepsA, ConIntvlKeepsA, RstPrtKeepsA, ConResWtKeepsA, KeepaliveKeepsA,
       SndPrtKeepsA, LogTimeoutKeepsA, ResWtKeepsA, SocRcvKeepsA DEF Handlers
<1>2. CASE Receive \/ RcvGarbled
    BY <1>2, RcvEndKeepsA, RcvUnexpectedKeepsA, RcvAckKeepsA, RcvNakKeepsA, RcvConfigKeepsA, RcvResponseKeepsA,
       RcvGarbledKeepsA DEF Receive
<1>3. CASE Send
    BY <1>3, SendLogKeepsA, SendCommandsKeepsA, SendNothingKeepsA DEF Send
<1>4. CASE Ope
    BY <1>4, StartUpKeepsA, ResetReqKeepsA, SetSendCommandKeepsA, LogRegistKeepsA DEF Ope
<1>5. CASE Lcd
    BY <1>5, ConnectedKeepsA, BrokenKeepsA, LcdReceiveKeepsA, LcdSilentKeepsA, LcdRespondKeepsA DEF Lcd
<1>6. CASE \E t \in Timers : Expire(t)
    BY <1>6, ExpireKeepsA
<1>7. CASE UNCHANGED vars
    BY <1>7, StutterIsA
<1>8. QED
    BY <1>1, <1>2, <1>3, <1>4, <1>5, <1>6, <1>7 DEF Next, PktTask

LEMMA AlwaysA == Spec => []AInv
BY InitIsA, StepIsA, PTL DEF Spec

(* Every state of the session is well typed, whatever fails and whichever timer runs *)
(* out late; above all the keepalive counts and the counts of packets stay in range. *)
THEOREM TypeCorrect == Spec => []TypeOK
<1>1. AInv => TypeOK
    BY DEF AInv, TaskType, ControlInv, LogInv, LogType, RingType, NetType, AuxType, TypeOK
<1>2. QED
    BY <1>1, AlwaysA, PTL

(* While the ACK of a log record or its response is awaited that record, and no other, *)
(* is void read: what the answer consumes or gives back is the record it is about.     *)
THEOREM AnswerSettles == Spec => []AnswerSettlesIt
<1>1. AInv => AnswerSettlesIt
    BY DEF AInv, LogInv, ReadInv, AnswerSettlesIt
<1>2. QED
    BY <1>1, AlwaysA, PTL

-----------------------------------------------------------------------------
(* The link always has something to wake it. *)

(* A message that is handled is the only one that leaves the mailbox. *)
LEMMA OthersStay ==
    ASSUME TaskType, NEW m, Handle(m),
           box' = Tail(box) \/ \E x \in Plain : box' = Append(Tail(box), x)
    PROVE  Holding(box) \subseteq {m} \cup Holding(box')
<1>1. box \in Seq(Plain \cup Timers) /\ box # <<>> /\ Head(box) = m
    BY DEF TaskType, Handle
<1>2. Tail(box) \in Seq(Plain \cup Timers) /\ Holding(box) = {m} \cup Holding(Tail(box))
    BY <1>1, HeldTail
<1>3. \A x \in Plain \cup Timers : Holding(Append(Tail(box), x)) = Holding(Tail(box)) \cup {x}
    BY <1>1, HeldMoved
<1>4. QED
    BY <1>2, <1>3

LEMMA AddedStays ==
    ASSUME TaskType, NEW x \in Plain \cup Timers, box' = Append(box, x)
    PROVE  Holding(box') = Holding(box) \cup {x}
BY HeldAppend DEF TaskType

(* An action that takes away none of the messages that wake the link. *)
LEMMA NothingTaken ==
    ASSUME WakeInv, Pending \cap Wakers \subseteq Pending', pktctrl'.sckt \in {pktctrl.sckt, "ESTABLISH"}
    PROVE  WakeInv'
BY DEF WakeInv, Wakers

LEMMA WakingApart ==
    /\ \A k \in AllKinds : RES(k) \notin Wakers /\ RESND(k) \notin Wakers
    /\ {SOC_CON, SOC_RCV, SND_PRT, RES_WT} \cap Wakers = {}
    /\ \A k \in LogKinds : AckTimer(k) \notin Wakers
<1>1. /\ \A k \in AllKinds : RES(k) \notin Wakers /\ RESND(k) \notin Wakers
      /\ {SOC_CON, SOC_RCV, SND_PRT, RES_WT} \cap Wakers = {}
    BY Names, PlainNames, TimerNames DEF Wakers
<1>2. QED
    BY <1>1, KindsInUse DEF AckTimer, AllKinds

LEMMA HandlersKeepWaking ==
    ASSUME AInv, WakeInv, Handlers
    PROVE  WakeInv'
<1> USE DEF AInv
<1>1. CASE SocCon
  <2>1. pktctrl'.sckt = "ESTABLISH" /\ KEEPALIVE \in timers'
    BY <1>1 DEF SocCon, ControlInv, Control
  <2>2. QED
    BY <2>1 DEF WakeInv, Wakers, Pending
<1>2. CASE ConnectTimeout \/ ConIntvlTimeout
  <2>1. \E m \in {CONNECT, CON_INTVL} : Holding(box) \subseteq {m} \cup Holding(box')
    BY <1>2, OthersStay DEF ConnectTimeout, ConIntvlTimeout
  <2>2. CASE timers' = timers \cup {CONNECT} /\ UNCHANGED pktctrl
    BY <2>1, <2>2, TimerNames DEF WakeInv, Wakers, Pending
  <2>3. CASE OpenSocket
    <3>1. CASE pktctrl.sckt = "CONNECTING" /\ UNCHANGED <<timers, pktctrl>>
      BY <2>1, <3>1, TimerNames DEF WakeInv, Wakers, Pending
    <3>2. CASE timers' = timers \cup {CON_RES_WT}
      BY <3>2 DEF WakeInv, Wakers, Pending
    <3>3. CASE pktctrl.sckt # "CONNECTING" /\ timers' = timers \cup {CON_INTVL} /\ UNCHANGED pktctrl
      BY <3>3 DEF WakeInv, Wakers, Pending
    <3>4. QED
      BY <2>3, <3>1, <3>2, <3>3 DEF OpenSocket
  <2>4. QED
    BY <1>2, <2>2, <2>3 DEF ConnectTimeout, ConIntvlTimeout
<1>3. CASE RstPrt \/ ConResWtTimeout
  <2>1. CON_INTVL \in timers'
    BY <1>3 DEF RstPrt, ConResWtTimeout, Disconnect, Reconnecting
  <2>2. pktctrl'.sckt = "DISCONNECT"
    BY <1>3 DEF RstPrt, ConResWtTimeout, ControlInv, Control
  <2>3. QED
    BY <2>1, <2>2 DEF WakeInv, Wakers, Pending
<1>4. CASE KeepaliveTimeout
  <2>1. /\ pktctrl'.sckt = pktctrl.sckt
        /\ \/ KEEPALIVE \in timers' /\ timers \subseteq timers'
           \/ timers' = timers \ {KEEPALIVE} /\ box' = Append(Tail(box), RST_PRT)
    BY <1>4 DEF KeepaliveTimeout, ControlInv, Control
  <2>2. Holding(box) \subseteq {KEEPALIVE} \cup Holding(box')
    BY <1>4, OthersStay, Names DEF KeepaliveTimeout
  <2>3. KEEPALIVE \in timers' \/ RST_PRT \in Holding(box')
    <3>1. CASE box' = Append(Tail(box), RST_PRT)
      <4>1. box \in Seq(Plain \cup Timers) /\ box # <<>> /\ RST_PRT \in Plain \cup Timers
        BY <1>4, Names DEF KeepaliveTimeout, Handle, TaskType
      <4>2. QED
        BY <3>1, <4>1, HeldMoved
    <3>2. QED
      BY <2>1, <3>1
  <2>4. QED
    BY <2>1, <2>2, <2>3, TimerNames DEF WakeInv, Wakers, Pending
<1>5. CASE SndPrt \/ LogTimeout \/ ResWtTimeout \/ SocRcv
  <2>1. PICK m : Handle(m) /\ m \notin Wakers
    BY <1>5, WakingApart DEF SndPrt, LogTimeout, ResWtTimeout, SocRcv
  <2>2. box' = Tail(box) /\ timers \subseteq timers'
    BY <1>5 DEF SndPrt, LogTimeout, ResWtTimeout, SocRcv
  <2>3. pktctrl'.sckt = pktctrl.sckt
    <3>1. CASE SndPrt
      BY <3>1 DEF SndPrt, ControlInv, Control
    <3>2. CASE LogTimeout \/ SocRcv
      BY <3>2 DEF LogTimeout, SocRcv
    <3>3. CASE ResWtTimeout
      <4> DEFINE c == Retried([pktctrl EXCEPT !.res_wait = FALSE])
      <4>1. c \in Control /\ CountOK(c) /\ c.sckt = pktctrl.sckt
        BY RetriedIsOK DEF ControlInv
      <4>2. UNCHANGED pktctrl \/ GiveUp(c, TRUE) \/ Resend(c)
        BY <3>3 DEF ResWtTimeout
      <4> HIDE DEF c
      <4>3. QED
        BY <4>1, <4>2, GiveUpIsOK, ResendIsOK
    <3>4. QED
      BY <1>5, <3>1, <3>2, <3>3
  <2>4. Holding(box) \subseteq {m} \cup Holding(box')
    BY <2>1, <2>2, OthersStay
  <2>5. QED
    BY <2>1, <2>2, <2>3, <2>4, NothingTaken DEF Pending
<1>6. QED
    BY <1>1, <1>2, <1>3, <1>4, <1>5 DEF Handlers

(* What is read shows that the link is up; an ACK or NAK ends the wait for it. *)
LEMMA AnswersAreHeard ==
    ASSUME AInv, RcvAck \/ RcvNak \/ RcvConfig \/ RcvResponse
    PROVE  /\ pktctrl'.sckt = "ESTABLISH"
           /\ RcvAck \/ RcvNak => pktctrl'.res_wait = FALSE
           /\ RcvConfig \/ RcvResponse => pktctrl'.res_wait = pktctrl.res_wait
<1> USE DEF AInv
<1> DEFINE c == Heard(Got)
<1>1. /\ c \in Control /\ CountOK(c) /\ c.sckt = "ESTABLISH" /\ c.rtry_cnt = pktctrl.rtry_cnt
      /\ c.res_wait = pktctrl.res_wait
    BY GotIsOK, HeardIsOK
<1> HIDE DEF c
<1>2. RcvConfig \/ RcvResponse => pktctrl'.sckt = c.sckt /\ pktctrl'.res_wait = c.res_wait
    BY <1>1 DEF RcvConfig, RcvResponse, c, Control
<1>3. RcvAck => pktctrl'.sckt = c.sckt /\ pktctrl'.res_wait = FALSE
    BY <1>1 DEF RcvAck, c, Control
<1>4. ASSUME RcvNak
      PROVE  pktctrl'.sckt = "ESTABLISH" /\ pktctrl'.res_wait = FALSE
  <2> DEFINE d == Retried([c EXCEPT !.res_wait = FALSE])
  <2>1. d \in Control /\ CountOK(d) /\ d.sckt = "ESTABLISH" /\ d.res_wait = FALSE
    BY <1>1, RetriedIsOK
  <2>2. GiveUp(d, FALSE) \/ Resend(d)
    BY <1>4 DEF RcvNak, c
  <2> HIDE DEF d
  <2>3. QED
    BY <2>1, <2>2, GiveUpIsOK, ResendIsOK
<1>5. RcvConfig => ~ RcvAck /\ ~ RcvNak
    BY DEF RcvConfig, RcvAck, RcvNak, Reads
<1>6. RcvResponse => ~ RcvAck /\ ~ RcvNak
    BY DEF RcvResponse, RcvAck, RcvNak, Reads
<1>7. QED
    BY <1>1, <1>2, <1>3, <1>4, <1>5, <1>6

(* The timers that may run behind a packet that was read. *)
LEMMA AnswersTimers ==
    ASSUME AInv, (Receive /\ ~ RcvEnd) \/ RcvGarbled
    PROVE  timers' \subseteq timers \cup {KEEPALIVE} \cup {RES(k) : k \in AllKinds} \cup {RESND(k) : k \in AllKinds}
<1>1. CASE RcvUnexpected \/ RcvNak \/ RcvConfig \/ RcvGarbled
    BY <1>1 DEF RcvUnexpected, RcvNak, RcvConfig, RcvGarbled
<1>2. CASE RcvAck
  <2>1. \A k \in LogKinds : AckTimer(k) \in {RES(j) : j \in AllKinds}
    BY KindsInUse DEF AckTimer, AllKinds
  <2>2. \/ timers' = (timers \ {RES_WT}) \cup {KEEPALIVE}
        \/ /\ InPhase("WAIT_ACK") # {}
           /\ timers' = ((timers \ {RES_WT}) \cup {KEEPALIVE}) \cup {AckTimer(First(InPhase("WAIT_ACK")))}
    BY <1>2 DEF RcvAck
  <2>3. QED
    BY <2>1, <2>2, AwaitedIsOne
<1>3. CASE RcvResponse
  <2>1. PICK S \in SUBSET LogKinds : timers' \subseteq timers \cup {KEEPALIVE} \cup {RESND(k) : k \in S}
    <3> DEFINE a == Head(up)
               met == {k \in Cases(KindOf[a.rec]) \cap InPhase("WAIT_RES_CMD") :
                          IdOf[logs[k].read] = IdOf[a.rec]}
               done == {k \in met : a.result \in Settling(k)}
    <3>1. met \ done \in SUBSET LogKinds
      BY DEF InPhase
    <3>2. timers' = (timers \ {RES(k) : k \in met}) \cup {RESND(k) : k \in met \ done} \cup {KEEPALIVE}
      BY <1>3 DEF RcvResponse
    <3> HIDE DEF met, done
    <3>3. QED
      BY <3>1, <3>2
  <2>2. QED
    BY <2>1, KindsInUse
<1>4. QED
    BY <1>1, <1>2, <1>3 DEF Receive

LEMMA ReceiveKeepsWaking ==
    ASSUME AInv, WakeInv, Receive \/ RcvGarbled
    PROVE  WakeInv'
<1> USE DEF AInv
<1>1. CASE RcvEnd
  <2>1. Holding(box) \subseteq Holding(box')
    BY <1>1, AddedStays, Names DEF RcvEnd
  <2>2. QED
    BY <1>1, <2>1, NothingTaken DEF RcvEnd, Pending
<1>2. CASE RcvUnexpected
    BY <1>2, GotIsOK, NothingTaken DEF RcvUnexpected, Pending
<1>3. CASE RcvAck \/ RcvNak \/ RcvConfig \/ RcvResponse
  <2>1. KEEPALIVE \in timers'
    BY <1>3 DEF RcvAck, RcvNak, RcvConfig, RcvResponse
  <2>2. pktctrl'.sckt = "ESTABLISH"
    BY <1>3, AnswersAreHeard
  <2>3. QED
    BY <2>1, <2>2 DEF WakeInv, Wakers, Pending
<1>4. CASE RcvGarbled
  <2>1. timers \cap Wakers \subseteq timers' /\ UNCHANGED box
    BY <1>4, WakingApart DEF RcvGarbled, InPhase
  <2>2. pktctrl'.sckt = "ESTABLISH"
    BY <1>4, GotIsOK DEF RcvGarbled, Control
  <2>3. QED
    BY <2>1, <2>2, NothingTaken DEF Pending
<1>5. QED
    BY <1>1, <1>2, <1>3, <1>4 DEF Receive

LEMMA SendKeepsWaking ==
    ASSUME kpalv_snd_intvl > 0, AInv, WakeInv, Send
    PROVE  WakeInv'
<1> USE DEF AInv
<1>1. ASSUME NEW c, c \in Control, CountOK(c), c.sckt = "ESTABLISH", NEW p, Transmit(c, p)
      PROVE  WakeInv'
  <2>1. KEEPALIVE \in timers'
    BY <1>1 DEF Transmit
  <2>2. pktctrl'.sckt = "ESTABLISH"
    <3>1. Heard(c) \in Control /\ Heard(c).sckt = "ESTABLISH"
      BY <1>1, HeardIsOK
    <3>2. pktctrl' = [Heard(c) EXCEPT !.res_wait = TRUE] \/ pktctrl' = Heard(c)
      BY <1>1 DEF Transmit
    <3>3. QED
      BY <3>1, <3>2 DEF Control
  <2>3. QED
    BY <2>1, <2>2 DEF WakeInv, Wakers, Pending
<1>2. CASE SendLog
    BY <1>1, <1>2 DEF SendLog, CanSend, ControlInv
<1>3. CASE SendCommands
  <2> DEFINE c == [pktctrl EXCEPT !.buf_type = "S"]
  <2>1. c \in Control /\ CountOK(c) /\ c.sckt = "ESTABLISH"
    BY <1>3 DEF SendCommands, CanSend, ControlInv, Control, CountOK
  <2>2. CASE NextPacket = <<>>
    <3>1. pktctrl'.sckt = pktctrl.sckt /\ UNCHANGED <<box, timers>>
      BY <1>3, <2>2 DEF SendCommands, ControlInv, Control
    <3>2. QED
      BY <3>1, NothingTaken DEF Pending
  <2>3. CASE Transmit(c, [cmds |-> NextPacket, recs |-> {}])
    <3> HIDE DEF c
    <3>1. QED
      BY <1>1, <2>1, <2>3
  <2>4. QED
    BY <1>3, <2>2, <2>3 DEF SendCommands
<1>4. CASE SendNothing
    BY <1>4, NothingTaken DEF SendNothing, Pending
<1>5. QED
    BY <1>2, <1>3, <1>4 DEF Send

LEMMA OthersKeepWaking ==
    ASSUME AInv, WakeInv, Ope \/ Lcd \/ (\E t \in Timers : Expire(t)) \/ UNCHANGED vars
    PROVE  WakeInv'
<1> USE DEF AInv
<1>1. pktctrl'.sckt = pktctrl.sckt
  <2>1. CASE OpeStarts \/ LcdStarted \/ ResetReqFlgSet
    BY <2>1 DEF OpeStarts, LcdStarted, ResetReqFlgSet, ControlInv, Control
  <2>2. CASE (\E c \in Cmds : SetSendCommand(c)) \/ \E r \in Recs : LogRegist(r)
    BY <2>2 DEF SetSendCommand, LogRegist
  <2>3. CASE Lcd \/ (\E t \in Timers : Expire(t)) \/ UNCHANGED vars
    BY <2>3 DEF Lcd, Connected, Broken, LcdReceive, LcdSilent, LcdRespond, Expire, vars, task
  <2>4. QED
    BY <2>1, <2>2, <2>3 DEF Ope
<1>2. Pending \subseteq Pending'
  <2>1. CASE UNCHANGED <<timers, box>>
    BY <2>1 DEF Pending
  <2>2. CASE UNCHANGED timers /\ \E x \in {SND_PRT, SOC_CON, RST_PRT, SOC_RCV} : box' = Append(box, x)
    BY <2>2, AddedStays, Names DEF Pending
  <2>3. CASE \E t \in Timers : timers' = timers \ {t} /\ box' = Append(box, t)
    BY <2>3, AddedStays DEF Pending
  <2>4. CASE Ope
    BY <2>1, <2>2, <2>4 DEF Ope, OpeStarts, LcdStarted, ResetReqFlgSet, SetSendCommand, LogRegist
  <2>5. CASE Lcd
    BY <2>1, <2>2, <2>5 DEF Lcd, Connected, Broken, LcdReceive, LcdSilent, LcdRespond, task
  <2>6. CASE \E t \in Timers : Expire(t)
    BY <2>3, <2>6 DEF Expire
  <2>7. CASE UNCHANGED vars
    BY <2>1, <2>7 DEF vars, task
  <2>8. QED
    BY <2>4, <2>5, <2>6, <2>7
<1>3. QED
    BY <1>1, <1>2, NothingTaken

(* While keepalive is on the packet task never sleeps without a timer that wakes it: *)
(* whatever breaks, and however late a timer runs out, the next step of the session  *)
(* is already on its way.                                                            *)
THEOREM NeverAsleep ==
    ASSUME kpalv_snd_intvl > 0
    PROVE  Spec => []NeverStalls
<1>1. Init => WakeInv
    BY TimerNames DEF Init, WakeInv, Wakers, Pending
<1>2. AInv /\ WakeInv /\ [Next]_vars => WakeInv'
    BY HandlersKeepWaking, ReceiveKeepsWaking, SendKeepsWaking, OthersKeepWaking DEF Next, PktTask
<1>3. AInv /\ WakeInv => NeverStalls
    BY Names DEF WakeInv, Wakers, Pending, NeverStalls, Waking, Holding, AInv, TaskType
<1>4. QED
    BY <1>1, <1>2, <1>3, AlwaysA, PTL DEF Spec


-----------------------------------------------------------------------------
(* Timers that run out only when nothing else is left to happen: the mailbox. *)

(* The report of a connection stays behind commands only, whatever is appended to it *)
(* or taken from it.                                                                 *)
LEMMA ResultStaysFirst ==
    ASSUME NEW S, NEW s \in Seq(S), ResultFirst(s)
    PROVE  /\ \A x \in S : x # SOC_CON \/ Holding(s) \subseteq {SND_PRT} => ResultFirst(Append(s, x))
           /\ s # <<>> => ResultFirst(Tail(s))
           /\ s # <<>> /\ Head(s) # SND_PRT => SOC_CON \notin Holding(Tail(s))
<1>0. DOMAIN s = 1 .. Len(s) /\ Len(s) \in Nat
    BY LenProperties
<1>1. ASSUME NEW x \in S, x # SOC_CON \/ Holding(s) \subseteq {SND_PRT}
      PROVE  ResultFirst(Append(s, x))
  <2> DEFINE a == Append(s, x)
  <2>1. /\ DOMAIN a = 1 .. Len(s) + 1 /\ a[Len(s) + 1] = x
        /\ \A i \in 1 .. Len(s) : a[i] = s[i]
    BY AppendProperties, LenProperties
  <2> HIDE DEF a
  <2>2. SUFFICES ASSUME NEW i \in 1 .. Len(s) + 1, a[i] = SOC_CON, NEW j \in 1 .. i - 1
                 PROVE  a[j] = SND_PRT
    BY <2>1 DEF ResultFirst, a
  <2>3. j \in 1 .. Len(s) /\ a[j] = s[j]
    BY <1>0, <2>1
  <2>4. CASE i \in 1 .. Len(s)
    BY <1>0, <2>1, <2>2, <2>3, <2>4 DEF ResultFirst
  <2>5. CASE i = Len(s) + 1
    BY <1>0, <1>1, <2>1, <2>2, <2>3, <2>5 DEF Holding
  <2>6. QED
    BY <1>0, <2>4, <2>5
<1>2. ASSUME s # <<>>
      PROVE  /\ ResultFirst(Tail(s))
             /\ Head(s) # SND_PRT => SOC_CON \notin Holding(Tail(s))
  <2> DEFINE t == Tail(s)
  <2>1. /\ DOMAIN t = 1 .. Len(s) - 1 /\ Head(s) = s[1] /\ Len(s) >= 1
        /\ \A i \in 1 .. Len(s) - 1 : t[i] = s[i + 1]
    BY <1>0, <1>2, HeadTailProperties, LenProperties, EmptySeq
  <2> HIDE DEF t
  <2>2. ResultFirst(t)
    <3>1. SUFFICES ASSUME NEW i \in 1 .. Len(s) - 1, t[i] = SOC_CON, NEW j \in 1 .. i - 1
                   PROVE  t[j] = SND_PRT
      BY <2>1 DEF ResultFirst
    <3>2. /\ i + 1 \in DOMAIN s /\ s[i + 1] = SOC_CON /\ j + 1 \in 1 .. (i + 1) - 1
          /\ j \in 1 .. Len(s) - 1 /\ t[j] = s[j + 1]
      BY <1>0, <2>1, <3>1
    <3>3. s[j + 1] = SND_PRT
      BY <3>2 DEF ResultFirst
    <3>4. QED
      BY <3>2, <3>3
  <2>3. Head(s) # SND_PRT => SOC_CON \notin Holding(t)
    <3>1. SUFFICES ASSUME NEW i \in 1 .. Len(s) - 1, t[i] = SOC_CON
                   PROVE  Head(s) = SND_PRT
      BY <2>1 DEF Holding
    <3>2. i + 1 \in DOMAIN s /\ s[i + 1] = SOC_CON /\ 1 \in 1 .. (i + 1) - 1
      BY <1>0, <2>1, <3>1
    <3>3. QED
      BY <2>1, <3>2 DEF ResultFirst
  <2>4. QED
    BY <2>2, <2>3 DEF t
<1>3. QED
    BY <1>1, <1>2

(* The names once more, as sets. *)
LEMMA PlainApart ==
    /\ {SOC_CON, SOC_RCV, SND_PRT, RST_PRT} \cap Timers = {}
    /\ {SOC_CON, SOC_RCV, SND_PRT, RST_PRT} \subseteq Plain \cup Timers
    /\ \A t \in Timers : t # SOC_CON /\ t # SOC_RCV /\ t # SND_PRT /\ t # RST_PRT
BY Names

(* While something is still to happen, or the task is not waiting, no time-out is in *)
(* the mailbox.                                                                      *)
LEMMA NoTimeoutHeld ==
    ASSUME TaskType, TimerInv, pc # "wait" \/ ~ Silence \/ sock = "opening"
    PROVE  Holding(box) \cap Timers = {}
<1>1. CASE box = <<>>
    BY <1>1, LenProperties, EmptySeq DEF Holding
<1>2. CASE box # <<>>
  <2>1. Holding(box) = {Head(box)} \cup Holding(Tail(box))
    BY <1>2, HeldTail DEF TaskType
  <2>2. Holding(Tail(box)) \cap Timers = {} /\ Head(box) \notin Timers
    BY <1>2 DEF TimerInv, Later, Next_is
  <2>3. QED
    BY <2>1, <2>2
<1>3. QED
    BY <1>1, <1>2

(* Nor is one there when the message at the head has been taken. *)
LEMMA HandledHeld ==
    ASSUME TaskType, TimerInv, NEW m, Handle(m),
           box' = Tail(box) \/ \E x \in Plain : box' = Append(Tail(box), x)
    PROVE  /\ Holding(box) = {m} \cup Later /\ m \in Holding(box) /\ Next_is(m)
           /\ Later \subseteq Holding(box') /\ Holding(box') \cap Timers = {}
           /\ box' = Tail(box) => Holding(box') = Later
           /\ \A x \in Plain : box' = Append(Tail(box), x) => Holding(box') = Later \cup {x}
<1>1. box \in Seq(Plain \cup Timers) /\ box # <<>> /\ Head(box) = m
    BY DEF TaskType, Handle
<1>2. Holding(box) = {m} \cup Holding(Tail(box)) /\ Later = Holding(Tail(box)) /\ Next_is(m)
    BY <1>1, HeldTail DEF Later, Next_is
<1>3. \A x \in Plain : Holding(Append(Tail(box), x)) = Holding(Tail(box)) \cup {x} /\ x \notin Timers
    BY <1>1, HeldMoved, Names
<1>4. QED
    BY <1>2, <1>3 DEF TimerInv

(* A message that is appended does not overtake the one at the head. *)
LEMMA AppendedHeld ==
    ASSUME TaskType, NEW x \in Plain \cup Timers, box' = Append(box, x)
    PROVE  /\ Holding(box') = Holding(box) \cup {x}
           /\ Later' \subseteq Later \cup {x} /\ (box = <<>> => Later' = {})
           /\ \A t : Next_is(t)' <=> IF box = <<>> THEN t = x ELSE Next_is(t)
<1>1. /\ Holding(box') = Holding(box) \cup {x} /\ box' # <<>>
      /\ Head(box') = IF box = <<>> THEN x ELSE Head(box)
      /\ Tail(box') = IF box = <<>> THEN <<>> ELSE Append(Tail(box), x)
    BY HeldAppend DEF TaskType
<1>2. box # <<>> => Holding(Append(Tail(box), x)) = Holding(Tail(box)) \cup {x}
    BY HeldMoved DEF TaskType
<1>3. Holding(<<>>) = {}
    BY DEF Holding
<1>4. QED
    BY <1>1, <1>2, <1>3 DEF Later, Next_is

LEMMA NoTimeoutNext ==
    ASSUME TaskType', Holding(box') \cap Timers = {}
    PROVE  TimerInv' /\ \A t \in Timers : ~ Next_is(t)'
<1>1. box' # <<>> => Holding(box') = {Head(box')} \cup Holding(Tail(box'))
    BY HeldTail DEF TaskType
<1>2. QED
    BY <1>1 DEF TimerInv, Later, Next_is


-----------------------------------------------------------------------------
(* The connection: it is made, reported, used and taken down in this order. *)

Sckt == pktctrl.sckt
Resw == pktctrl.res_wait

(* With a connection, or while something else than a command or the first attempt is *)
(* in the mailbox, neither the first nor the next attempt to connect is pending.      *)
LEMMA NoAttempt ==
    ASSUME TaskType, PathInv
    PROVE  /\ Sckt = "ESTABLISH" \/ pc = "recv" \/ sock # "none"
                 \/ (\E m \in Holding(box) : m # CONNECT /\ m # SND_PRT) => ~ Comes(CONNECT)
           /\ Sckt # "DISCONNECT" => ~ Comes(CON_INTVL)
           /\ Sckt # "CONNECTING" => sock # "opening" /\ SOC_CON \notin Holding(box)
           /\ Sckt # "DISCONNECT" /\ Sckt # "CONNECTING" /\ pktctrl \in Control => Sckt = "ESTABLISH"
           /\ ~ Silence => Sckt # "DISCONNECT" /\ Sckt # "CONNECTING"
           /\ \A m \in Holding(box) : m \notin {SND_PRT, SOC_CON, RST_PRT} => Sckt # "CONNECTING"
BY DEF PathInv, StartInv, DownInv, OpeningInv, Sckt, Control

(* A step that leaves the connection as it is, while none is being made, and after *)
(* which no time-out is in the mailbox.                                            *)
LEMMA PathStays ==
    ASSUME TaskType, PathInv, TaskType', Sckt # "CONNECTING", Sckt' = Sckt, sock' = sock, ~ Comes(CONNECT),
           Holding(box') \cap Timers = {}, SOC_CON \notin Holding(box'),
           CONNECT \in timers' => CONNECT \in timers, CON_INTVL \in timers' => CON_INTVL \in timers,
           Sckt = "DISCONNECT" => UNCHANGED <<down, up, jobs, phase, Resw>>
    PROVE  PathInv'
<1>1. TimerInv' /\ \A t \in Timers : ~ Next_is(t)'
    BY NoTimeoutNext
<1>2. CONNECT \notin Holding(box') /\ CON_INTVL \notin Holding(box')
    BY Names
<1>3. StartInv'
    BY <1>2 DEF StartInv, Comes, Pending
<1>4. DownInv'
    BY <1>1, <1>2, Names DEF PathInv, DownInv, Silence, AllIdle, Sckt, Resw, Comes, Pending
<1>5. OpeningInv' /\ UpInv'
    BY DEF PathInv, OpeningInv, UpInv, Sckt, ResultFirst, Holding
<1>6. QED
    BY <1>1, <1>3, <1>4, <1>5 DEF PathInv

(* A step that only takes a command out of the mailbox or puts one in, or nothing. *)
LEMMA CommandsApart ==
    ASSUME TaskType, PathInv, TaskType', UNCHANGED <<timers, sock, down, up, jobs, phase, Sckt, Resw>>,
           \/ (pc' = pc \/ (pc' = "wait" /\ pc # "recv")) /\ (UNCHANGED box \/ box' = Append(box, SND_PRT))
           \/ Handle(SND_PRT) /\ box' = Tail(box) /\ pc' # "recv"
    PROVE  PathInv'
<1>1. CASE Handle(SND_PRT) /\ box' = Tail(box) /\ pc' # "recv"
  <2>1. /\ Holding(box) = {SND_PRT} \cup Later /\ Holding(box') = Later /\ Later \cap Timers = {}
    BY <1>1, HandledHeld DEF PathInv, TimerInv
  <2>2. TimerInv' /\ \A t \in Timers : ~ Next_is(t)'
    BY <2>1, NoTimeoutNext
  <2>3. ResultFirst(box')
    BY <1>1, ResultStaysFirst DEF TaskType, PathInv, OpeningInv, Handle
  <2>4. StartInv' /\ DownInv' /\ UpInv'
    BY <1>1, <2>1, <2>2, Names DEF PathInv, StartInv, DownInv, UpInv, Silence, AllIdle, Sckt, Resw, Comes, Pending
  <2>5. OpeningInv'
    BY <1>1, <2>1, <2>3, PlainNames DEF PathInv, OpeningInv, Silence, AllIdle, Sckt, Resw
  <2>6. QED
    BY <2>2, <2>4, <2>5 DEF PathInv
<1>2. CASE pc' = pc \/ (pc' = "wait" /\ pc # "recv")
  <2>1. CASE UNCHANGED box
    BY <1>2, <2>1, NoTimeoutHeld DEF PathInv, TimerInv, StartInv, DownInv, OpeningInv, UpInv, Silence, AllIdle, Sckt, Resw, Comes,
                      Pending, Later, Next_is
  <2>2. CASE box' = Append(box, SND_PRT)
    <3>1. /\ Holding(box') = Holding(box) \cup {SND_PRT}
          /\ Later' \subseteq Later \cup {SND_PRT} /\ SND_PRT \notin Timers
          /\ \A t \in Timers : Next_is(t)' => Next_is(t)
      BY <2>2, AppendedHeld, PlainApart
    <3>2. ResultFirst(box')
      BY <2>2, ResultStaysFirst, PlainApart, PlainNames DEF TaskType, PathInv, OpeningInv
    <3>3. TimerInv'
      BY <1>2, <3>1 DEF PathInv, TimerInv, Silence
    <3>4. StartInv'
      BY <1>2, <3>1, PlainApart, Names DEF PathInv, StartInv, Sckt, Comes, Pending
    <3>5. DownInv'
      BY <1>2, <3>1, PlainApart, Names DEF PathInv, DownInv, Silence, AllIdle, Sckt, Resw, Comes, Pending
    <3>6. OpeningInv'
      BY <1>2, <3>1, <3>2, PlainNames DEF PathInv, OpeningInv, Silence, AllIdle, Sckt, Resw
    <3>7. UpInv'
      BY DEF PathInv, UpInv, Sckt
    <3>8. QED
      BY <3>3, <3>4, <3>5, <3>6, <3>7 DEF PathInv
  <2>3. CASE Handle(SND_PRT) /\ box' = Tail(box) /\ pc' # "recv"
    BY <1>1, <2>3
  <2>4. QED
    BY <2>1, <2>2, <2>3
<1>3. QED
    BY <1>1, <1>2


LEMMA SocConKeepsPath ==
    ASSUME AInv, PathInv, AInv', SocCon
    PROVE  PathInv'
<1>1. TaskType /\ TaskType' /\ TimerInv /\ Handle(SOC_CON)
    BY DEF AInv, PathInv, SocCon
<1>2. /\ SOC_CON \in Holding(box) /\ Holding(box) = {SOC_CON} \cup Later
      /\ Holding(box') = Later \cup {SND_PRT} /\ Holding(box') \cap Timers = {}
    BY <1>1, HandledHeld, Names DEF SocCon
<1>3. SOC_CON \notin Later
    BY <1>1, ResultStaysFirst, PlainNames DEF PathInv, OpeningInv, TaskType, Handle, Later
<1>4. Sckt = "CONNECTING" /\ sock # "opening" /\ sock # "none" /\ ~ Comes(CONNECT) /\ ~ Comes(CON_INTVL)
    BY <1>1, <1>2, NoAttempt, PlainNames DEF PathInv, OpeningInv, Sckt
<1>5. sock' = sock /\ Sckt' = "ESTABLISH"
    BY DEF SocCon, net, Sckt, AInv, ControlInv, Control
<1>6. CONNECT \notin timers' /\ CON_INTVL \notin timers'
    BY <1>4, TimerNames DEF SocCon, Comes, Pending
<1>7. SOC_CON \notin Holding(box')
    BY <1>2, <1>3, PlainNames
<1>8. TimerInv' /\ \A t \in Timers : ~ Next_is(t)'
    BY <1>1, <1>2, NoTimeoutNext
<1>9. ResultFirst(box')
    BY <1>7 DEF ResultFirst, Holding
<1>10. StartInv' /\ DownInv' /\ OpeningInv' /\ UpInv'
  <2>1. CONNECT \notin Holding(box') /\ CON_INTVL \notin Holding(box') /\ CON_INTVL \in Timers
    BY <1>2, Names
  <2>2. sock' \in {"open", "dead"}
    BY <1>4, <1>5 DEF AInv, NetType
  <2>3. QED
    BY <1>4, <1>5, <1>6, <1>7, <1>8, <1>9, <2>1, <2>2
       DEF StartInv, DownInv, OpeningInv, UpInv, Sckt, Comes, Pending
<1>11. QED
    BY <1>8, <1>10 DEF PathInv

(* A connection is attempted while nothing is left from the last one. *)
LEMMA OpenSocketKeepsPath ==
    ASSUME AInv, PathInv, AInv', NEW m \in {CONNECT, CON_INTVL}, Handle(m), box' = Tail(box), OpenSocket,
           UNCHANGED <<pc, phase>>
    PROVE  PathInv'
<1>1. TaskType /\ TaskType' /\ TimerInv
    BY DEF AInv, PathInv
<1>2. /\ m \in Holding(box) /\ Holding(box') = Later /\ Next_is(m) /\ Later \cap Timers = {}
      /\ Holding(box) = {m} \cup Later
    BY <1>1, HandledHeld DEF TimerInv
<1>3. m \in Timers /\ pc = "wait"
    BY Names DEF Handle
<1>4. Sckt = "DISCONNECT" /\ Later \subseteq {SND_PRT} /\ ~ Resw /\ AllIdle
    BY <1>2, <1>3, Names DEF PathInv, StartInv, DownInv, Comes, Pending, Sckt, Resw
<1>5. CONNECT \notin timers /\ CON_INTVL \notin timers
  <2>1. CASE m = CONNECT
    BY <1>2, <2>1, TimerNames DEF PathInv, StartInv, Comes, Pending
  <2>2. CASE m = CON_INTVL
    BY <1>2, <2>2, NoAttempt, TimerNames, PlainApart, Names DEF PathInv, DownInv, AInv, Comes, Pending
  <2>3. QED
    BY <2>1, <2>2
<1>6. TimerInv' /\ (\A t \in Timers : ~ Next_is(t)') /\ Holding(box') \subseteq {SND_PRT}
    BY <1>1, <1>2, <1>4, PlainApart, NoTimeoutNext
<1>7. ResultFirst(box') /\ SOC_CON \notin Holding(box') /\ CONNECT \notin Holding(box') /\ CON_INTVL \notin Holding(box')
    BY <1>6, PlainNames, PlainApart, Names DEF ResultFirst, Holding
<1>8. Silence' /\ AllIdle' /\ ~ Resw'
  <2>1. Silence'
    BY <1>4 DEF OpenSocket, Silence, Sckt
  <2>2. AllIdle'
    BY <1>4 DEF AllIdle
  <2>3. ~ Resw'
    BY <1>4 DEF OpenSocket, Resw, AInv, ControlInv, Control
  <2>4. QED
    BY <2>1, <2>2, <2>3
<1>9. CASE Sckt' = "CONNECTING" /\ sock' = "opening" /\ timers' = timers \cup {CON_RES_WT}
    BY <1>3, <1>5, <1>6, <1>7, <1>8, <1>9, TimerNames DEF PathInv, StartInv, DownInv, OpeningInv, UpInv, Sckt, Resw, Comes,
                  Pending
<1>10. CASE Sckt' = "DISCONNECT" /\ sock' \in {"none", "dead"} /\ timers' = timers \cup {CON_INTVL}
    BY <1>3, <1>5, <1>6, <1>7, <1>8, <1>10, TimerNames, Names DEF PathInv, StartInv, DownInv, OpeningInv, UpInv, Sckt, Resw,
                  Comes, Pending
<1>11. pktctrl' = [pktctrl EXCEPT !.sckt = "CONNECTING"] => Sckt' = "CONNECTING"
    BY DEF AInv, ControlInv, Control, Sckt
<1>12. QED
    BY <1>4, <1>9, <1>10, <1>11 DEF OpenSocket, Sckt

LEMMA AttemptsKeepPath ==
    ASSUME AInv, PathInv, AInv', ConnectTimeout \/ ConIntvlTimeout
    PROVE  PathInv'
<1>1. CASE ConIntvlTimeout \/ (ConnectTimeout /\ OpenSocket)
  <2>1. PICK m \in {CONNECT, CON_INTVL} : Handle(m) /\ box' = Tail(box) /\ OpenSocket /\ UNCHANGED <<pc, phase>>
    BY <1>1 DEF ConnectTimeout, ConIntvlTimeout
  <2>2. QED
    BY <2>1, OpenSocketKeepsPath
<1>2. CASE ConnectTimeout /\ timers' = timers \cup {CONNECT} /\ UNCHANGED <<pktctrl, net>>
  <2>1. TaskType /\ TaskType' /\ TimerInv /\ Handle(CONNECT) /\ box' = Tail(box) /\ UNCHANGED <<pc, phase>>
    BY <1>2 DEF AInv, PathInv, ConnectTimeout
  <2>2. CONNECT \in Holding(box) /\ Holding(box') = Later /\ Next_is(CONNECT) /\ Later \cap Timers = {}
        /\ Holding(box) = {CONNECT} \cup Later
    BY <2>1, HandledHeld DEF TimerInv
  <2>3. Later \subseteq {SND_PRT} /\ timers = {} /\ pc # "recv" /\ sock = "none" /\ Sckt = "DISCONNECT"
    BY <2>2, Names DEF PathInv, StartInv, Comes, Pending, Sckt
  <2>4. TimerInv' /\ (\A t \in Timers : ~ Next_is(t)') /\ Holding(box') \subseteq {SND_PRT}
    BY <2>1, <2>2, <2>3, NoTimeoutNext
  <2>5. ResultFirst(box') /\ SOC_CON \notin Holding(box') /\ CONNECT \notin Holding(box') /\ CON_INTVL \notin Holding(box')
    BY <2>4, PlainNames, PlainApart, Names DEF ResultFirst, Holding
  <2>6. UNCHANGED <<Sckt, Resw, sock, down, up, jobs>>
    BY <1>2 DEF net, Sckt, Resw
  <2>7. StartInv'
    BY <1>2, <2>1, <2>3, <2>4, <2>6, Names DEF StartInv, Comes, Pending, Sckt
  <2>8. DownInv' /\ OpeningInv' /\ UpInv'
    BY <1>2, <2>1, <2>3, <2>4, <2>5, <2>6, TimerNames, Names
       DEF PathInv, DownInv, OpeningInv, UpInv, Sckt, Resw, Silence, AllIdle, Comes, Pending
  <2>9. QED
    BY <2>4, <2>7, <2>8 DEF PathInv
<1>3. QED
    BY <1>1, <1>2 DEF ConnectTimeout


LEMMA DisconnectKeepsPath ==
    ASSUME AInv, PathInv, AInv', RstPrt \/ ConResWtTimeout
    PROVE  PathInv' /\ AllIdle' /\ Silence' /\ ~ Resw'
<1>1. PICK m \in {RST_PRT, CON_RES_WT} : Handle(m)
    BY DEF RstPrt, ConResWtTimeout
<1>2. box' = Tail(box) /\ pc' = pc /\ sock' = "none" /\ Silence' /\ timers' = Reconnecting
    BY DEF RstPrt, ConResWtTimeout, Disconnect, Silence
<1>3. TaskType /\ TaskType' /\ TimerInv /\ pc = "wait"
    BY <1>1 DEF AInv, PathInv, Handle
<1>4. m # CONNECT /\ m # CON_INTVL /\ m # SND_PRT /\ m # SOC_CON /\ m # SOC_RCV
    BY PlainNames, PlainApart, TimerNames, Names
<1>5. /\ m \in Holding(box) /\ Holding(box') = Later /\ Holding(box) = {m} \cup Later
      /\ Holding(box') \cap Timers = {}
    BY <1>1, <1>2, <1>3, HandledHeld
<1>6. ~ Comes(CONNECT) /\ SOC_CON \notin Later
  <2>1. ~ Comes(CONNECT)
    BY <1>3, <1>4, <1>5, NoAttempt
  <2>2. SOC_CON \notin Holding(Tail(box))
    BY <1>1, <1>4, ResultStaysFirst DEF PathInv, OpeningInv, AInv, TaskType, Handle
  <2>3. QED
    BY <1>2, <1>5, <2>1, <2>2
<1>7. CONNECT \notin timers' /\ CONNECT \notin Holding(box') /\ CON_INTVL \notin Holding(box')
    BY <1>2, <1>5, <1>6, TimerNames, Names DEF Reconnecting, Comes, Pending
<1>8. AllIdle' /\ ~ Resw' /\ Sckt' = "DISCONNECT"
  <2>1. ~ Resw' /\ Sckt' = "DISCONNECT"
    BY DEF RstPrt, ConResWtTimeout, Resw, Sckt, AInv, ControlInv, Control
  <2>2. phase' = InPhaseNow(LogKinds \ InPhase("IDLE"), "IDLE")
    BY DEF RstPrt, ConResWtTimeout, Disconnect
  <2>3. AllIdle'
    BY <2>2, InPhaseNowIs DEF AllIdle, InPhase, AInv, LogInv, Phases
  <2>4. QED
    BY <2>1, <2>3
<1>9. TimerInv' /\ \A t \in Timers : ~ Next_is(t)'
    BY <1>3, <1>5, NoTimeoutNext
<1>10. StartInv' /\ DownInv' /\ OpeningInv' /\ UpInv'
    BY <1>2, <1>5, <1>6, <1>7, <1>8, <1>9, Names
       DEF StartInv, DownInv, OpeningInv, UpInv, ResultFirst, Holding, Sckt, Resw, Comes, Pending
<1>11. QED
    BY <1>2, <1>8, <1>9, <1>10 DEF PathInv

(* The handlers that leave the connection alone. *)
LEMMA QuietHandlersKeepPath ==
    ASSUME AInv, PathInv, AInv', KeepaliveTimeout \/ LogTimeout \/ ResWtTimeout \/ SocRcv
    PROVE  PathInv'
<1>1. PICK m : /\ Handle(m) /\ m \in (Timers \ {CONNECT, CON_INTVL, CON_RES_WT}) \cup {SOC_RCV}
               /\ KeepaliveTimeout => m = KEEPALIVE
               /\ ResWtTimeout => m = RES_WT
  <2>1. CASE KeepaliveTimeout
    BY <2>1, TimerNames, Names DEF KeepaliveTimeout, ResWtTimeout, Handle
  <2>2. CASE ResWtTimeout
    BY <2>2, TimerNames, Names DEF KeepaliveTimeout, ResWtTimeout, Handle
  <2>3. CASE ~ KeepaliveTimeout /\ ~ ResWtTimeout
    BY <2>3, TimerNames, Names DEF LogTimeout, SocRcv
  <2>4. QED
    BY <2>1, <2>2, <2>3
<1>2. TaskType /\ TaskType' /\ TimerInv
    BY DEF AInv, PathInv
<1>3. \/ box' = Tail(box)
      \/ \E x \in {SND_PRT, RST_PRT} : box' = Append(Tail(box), x)
    BY DEF KeepaliveTimeout, LogTimeout, ResWtTimeout, SocRcv
<1>4. /\ m \in Holding(box) /\ Next_is(m) /\ Holding(box) = {m} \cup Later
      /\ Holding(box') \subseteq Later \cup {SND_PRT, RST_PRT} /\ Holding(box') \cap Timers = {}
    BY <1>1, <1>2, <1>3, HandledHeld, Names
<1>5. m # CONNECT /\ m \notin {SND_PRT, SOC_CON, RST_PRT}
    BY <1>1, PlainApart, PlainNames, Names
<1>6. ~ Comes(CONNECT) /\ Sckt # "CONNECTING" /\ SOC_CON \notin Holding(box)
    BY <1>2, <1>4, <1>5, NoAttempt
<1>7. SOC_CON \notin Holding(box')
    BY <1>4, <1>6, PlainNames
<1>8. UNCHANGED <<sock, down, up, jobs>>
    BY DEF KeepaliveTimeout, LogTimeout, ResWtTimeout, SocRcv, net
<1>9. (CONNECT \in timers' => CONNECT \in timers) /\ (CON_INTVL \in timers' => CON_INTVL \in timers)
  <2>1. timers' \subseteq timers \cup {KEEPALIVE} \cup {RES(k) : k \in AllKinds}
    BY DEF KeepaliveTimeout, LogTimeout, ResWtTimeout, SocRcv
  <2>2. QED
    BY <2>1, TimerNames
<1>10. Sckt' = Sckt /\ (Sckt = "DISCONNECT" => UNCHANGED <<phase, Resw>>)
  <2>1. CASE KeepaliveTimeout
    BY <2>1 DEF KeepaliveTimeout, AInv, ControlInv, Control, Sckt, Resw
  <2>2. CASE LogTimeout \/ SocRcv
    BY <2>2 DEF LogTimeout, SocRcv, Sckt, Resw
  <2>3. CASE ResWtTimeout
    <3> DEFINE c == Retried([pktctrl EXCEPT !.res_wait = FALSE])
    <3>1. c \in Control /\ CountOK(c) /\ c.sckt = pktctrl.sckt
      BY RetriedIsOK DEF AInv, ControlInv
    <3>2. UNCHANGED <<pktctrl, phase>> \/ (Resw /\ (GiveUp(c, TRUE) \/ Resend(c)))
      BY <2>3 DEF ResWtTimeout, Resw
    <3>3. Sckt = "DISCONNECT" => ~ Resw
      BY DEF PathInv, DownInv, Sckt, Resw
    <3> HIDE DEF c
    <3>4. GiveUp(c, TRUE) \/ Resend(c) => pktctrl'.sckt = c.sckt
      BY <3>1, GiveUpIsOK, ResendIsOK DEF AInv
    <3>5. QED
      BY <3>1, <3>2, <3>3, <3>4 DEF Sckt, Resw
  <2>4. QED
    BY <2>1, <2>2, <2>3
<1>11. QED
    BY <1>2, <1>4, <1>6, <1>7, <1>8, <1>9, <1>10, PathStays

(* What is read comes over an established connection. *)
LEMMA ReceivingIsUp ==
    ASSUME AInv, PathInv, pc = "recv"
    PROVE  /\ Holding(box) \cap Timers = {} /\ Sckt # "CONNECTING" /\ SOC_CON \notin Holding(box)
           /\ ~ Comes(CONNECT)
           /\ sock = "open" => Sckt = "ESTABLISH"
<1>1. Holding(box) \cap Timers = {}
    BY NoTimeoutHeld DEF AInv, PathInv
<1>2. QED
    BY <1>1, NoAttempt DEF AInv, ControlInv, PathInv, OpeningInv, DownInv, Sckt

LEMMA ReceiveKeepsPath ==
    ASSUME AInv, PathInv, AInv', Receive \/ RcvGarbled
    PROVE  PathInv'
<1>1. /\ Holding(box) \cap Timers = {} /\ Sckt # "CONNECTING" /\ SOC_CON \notin Holding(box)
      /\ ~ Comes(CONNECT) /\ (sock = "open" => Sckt = "ESTABLISH") /\ TaskType /\ TaskType'
    BY ReceivingIsUp DEF Receive, RcvEnd, RcvUnexpected, RcvAck, RcvNak, RcvConfig, RcvResponse, Reads, RcvGarbled, AInv
<1>2. \/ UNCHANGED box
      \/ \E x \in {SND_PRT, RST_PRT} : box' = Append(box, x)
    BY DEF Receive, RcvEnd, RcvUnexpected, RcvAck, RcvNak, RcvConfig, RcvResponse, RcvGarbled
<1>3. Holding(box') \subseteq Holding(box) \cup {SND_PRT, RST_PRT}
  <2>1. CASE UNCHANGED box
    BY <2>1
  <2>2. CASE \E x \in {SND_PRT, RST_PRT} : box' = Append(box, x)
    BY <1>1, <2>2, AppendedHeld, PlainApart
  <2>3. QED
    BY <1>2, <2>1, <2>2
<1>4. Holding(box') \cap Timers = {} /\ SOC_CON \notin Holding(box')
    BY <1>1, <1>3, PlainApart, PlainNames
<1>5. CASE RcvEnd
    BY <1>1, <1>4, <1>5, PathStays DEF RcvEnd, net, Sckt, Resw
<1>6. CASE ~ RcvEnd
  <2>1. sock = "open" /\ sock' = sock /\ Sckt = "ESTABLISH"
    BY <1>1, <1>6 DEF Receive, RcvUnexpected, RcvAck, RcvNak, RcvConfig, RcvResponse, Reads, RcvGarbled
  <2>2. Sckt' = "ESTABLISH"
    <3>1. CASE RcvGarbled
      BY <3>1, GotIsOK DEF RcvGarbled, AInv, Control, Sckt
    <3>2. CASE RcvUnexpected
      BY <3>2, GotIsOK DEF RcvUnexpected, AInv, Sckt
    <3>3. CASE RcvAck \/ RcvNak \/ RcvConfig \/ RcvResponse
      BY <3>3, AnswersAreHeard DEF Sckt
    <3>4. QED
      BY <1>6, <3>1, <3>2, <3>3 DEF Receive
  <2>3. (CONNECT \in timers' => CONNECT \in timers) /\ (CON_INTVL \in timers' => CON_INTVL \in timers)
    <3>1. timers' \subseteq timers \cup {KEEPALIVE} \cup {RES(k) : k \in AllKinds} \cup {RESND(k) : k \in AllKinds}
      BY AnswersTimers, <1>6
    <3>2. QED
      BY <3>1, TimerNames
  <2>4. QED
    BY <1>1, <1>4, <2>1, <2>2, <2>3, PathStays
<1>7. QED
    BY <1>5, <1>6


(* Sending, when it does not fail on a connection that is there. *)
LEMMA TransmitKeepsPath ==
    ASSUME "shortsend" \notin Faults, AInv, PathInv, AInv', pc = "send", Sckt = "ESTABLISH",
           NEW c, c \in Control, CountOK(c), c.sckt = "ESTABLISH", NEW p, Transmit(c, p),
           UNCHANGED sock
    PROVE  PathInv' /\ (IF sock = "open" THEN Resw' ELSE Resw' = c.res_wait /\ down' = down)
<1> DEFINE d == IF kpalv_snd_intvl > 0 THEN Heard(c) ELSE c
<1>1. d \in Control /\ CountOK(d) /\ d.sckt = "ESTABLISH" /\ d.res_wait = c.res_wait
    BY HeardIsOK
<1>2. \/ sock = "open" /\ pktctrl' = [d EXCEPT !.res_wait = TRUE] /\ UNCHANGED box
      \/ sock # "open" /\ pktctrl' = d /\ UNCHANGED down /\ box' = Append(box, RST_PRT)
    BY DEF Transmit
<1>3. timers' \subseteq timers \cup {KEEPALIVE, RES_WT}
    BY DEF Transmit
<1> HIDE DEF d
<1>4. Sckt' = "ESTABLISH" /\ (IF sock = "open" THEN Resw' ELSE Resw' = c.res_wait /\ down' = down)
    BY <1>1, <1>2 DEF Sckt, Resw, Control
<1>5. TaskType /\ TaskType' /\ Holding(box) \cap Timers = {}
    BY NoTimeoutHeld DEF AInv, PathInv
<1>6. ~ Comes(CONNECT) /\ ~ Comes(CON_INTVL) /\ SOC_CON \notin Holding(box)
    BY <1>5, NoAttempt
<1>7. Holding(box') \subseteq Holding(box) \cup {RST_PRT}
  <2>1. CASE UNCHANGED box
    BY <2>1
  <2>2. CASE box' = Append(box, RST_PRT)
    BY <1>5, <2>2, AppendedHeld, PlainApart
  <2>3. QED
    BY <1>2, <2>1, <2>2
<1>8. Holding(box') \cap Timers = {} /\ SOC_CON \notin Holding(box')
    BY <1>5, <1>6, <1>7, PlainApart, PlainNames
<1>9. (CONNECT \in timers' => CONNECT \in timers) /\ (CON_INTVL \in timers' => CON_INTVL \in timers)
    BY <1>3, TimerNames
<1>10. PathInv'
    BY <1>4, <1>5, <1>6, <1>8, <1>9, PathStays
<1>11. QED
    BY <1>4, <1>10

LEMMA SendKeepsPath ==
    ASSUME "shortsend" \notin Faults, AInv, PathInv, AInv', Send
    PROVE  PathInv'
<1>1. CASE SendLog
  <2>1. /\ pc = "send" /\ Sckt = "ESTABLISH" /\ UNCHANGED sock
        /\ Transmit(pktctrl, [cmds |-> <<>>, recs |-> {Head(logs[First(Eligible)].unread)}])
    BY <1>1 DEF SendLog, CanSend, Sckt
  <2>2. pktctrl \in Control /\ CountOK(pktctrl)
    BY DEF AInv, ControlInv
  <2>3. QED
    BY <2>1, <2>2, TransmitKeepsPath DEF Sckt
<1>2. CASE SendCommands /\ NextPacket # <<>>
  <2> DEFINE c == [pktctrl EXCEPT !.buf_type = "S"]
             p == [cmds |-> NextPacket, recs |-> {}]
  <2>1. c \in Control /\ CountOK(c) /\ c.sckt = "ESTABLISH"
    BY <1>2 DEF SendCommands, CanSend, AInv, ControlInv, Control, CountOK
  <2>2. pc = "send" /\ Sckt = "ESTABLISH" /\ UNCHANGED sock /\ Transmit(c, p)
    BY <1>2 DEF SendCommands, CanSend, Sckt
  <2> HIDE DEF c, p
  <2>3. QED
    BY <2>1, <2>2, TransmitKeepsPath
<1>3. CASE (SendCommands /\ NextPacket = <<>>) \/ SendNothing
  <2>1. UNCHANGED <<timers, sock, down, up, jobs, phase, Sckt, Resw, box>> /\ pc' = "wait" /\ pc = "send"
    <3>1. CASE SendNothing
      BY <3>1 DEF SendNothing, net, Sckt, Resw
    <3>2. CASE SendCommands /\ NextPacket = <<>>
      BY <3>2 DEF SendCommands, AInv, ControlInv, Control, Sckt, Resw
    <3>3. QED
      BY <1>3, <3>1, <3>2
  <2>2. TaskType /\ TaskType'
    BY DEF AInv
  <2>3. QED
    BY <2>1, <2>2, CommandsApart
<1>4. QED
    BY <1>1, <1>2, <1>3 DEF Send

LEMMA OpeKeepsPath ==
    ASSUME AInv, PathInv, AInv', Ope \/ SndPrt \/ UNCHANGED vars
    PROVE  PathInv'
<1>1. TaskType /\ TaskType'
    BY DEF AInv
<1>2. UNCHANGED <<timers, sock, down, up, jobs, phase, Sckt, Resw>>
  <2>1. CASE OpeStarts \/ LcdStarted \/ ResetReqFlgSet
    BY <2>1 DEF OpeStarts, LcdStarted, ResetReqFlgSet, net, AInv, ControlInv, Control, Sckt, Resw
  <2>2. CASE (\E c \in Cmds : SetSendCommand(c)) \/ (\E r \in Recs : LogRegist(r)) \/ UNCHANGED vars
    BY <2>2 DEF SetSendCommand, LogRegist, net, vars, task, Sckt, Resw
  <2>3. CASE SndPrt
    BY <2>3 DEF SndPrt, net, AInv, ControlInv, Control, Sckt, Resw
  <2>4. QED
    BY <2>1, <2>2, <2>3 DEF Ope
<1>3. \/ pc' = pc /\ (UNCHANGED box \/ box' = Append(box, SND_PRT))
      \/ Handle(SND_PRT) /\ box' = Tail(box) /\ pc' # "recv"
    BY DEF Ope, OpeStarts, LcdStarted, ResetReqFlgSet, SetSendCommand, LogRegist, SndPrt, vars, task
<1>4. \/ (pc' = pc \/ (pc' = "wait" /\ pc # "recv")) /\ (UNCHANGED box \/ box' = Append(box, SND_PRT))
      \/ Handle(SND_PRT) /\ box' = Tail(box) /\ pc' # "recv"
    BY <1>3
<1>5. QED
    BY <1>1, <1>2, <1>4, CommandsApart, Zenon

(* The callbacks of the socket. *)
LEMMA ConnectedKeepsPath ==
    ASSUME AInv, PathInv, AInv', Connected
    PROVE  PathInv'
<1>1. /\ TaskType /\ TaskType' /\ sock = "opening" /\ sock' = "open" /\ box' = Append(box, SOC_CON)
      /\ UNCHANGED <<pc, timers, down, up, jobs, phase, Sckt, Resw>>
    BY DEF AInv, Connected, Sckt, Resw
<1>2. Sckt = "CONNECTING" /\ Holding(box) \subseteq {SND_PRT} /\ ~ Comes(CONNECT) /\ ~ Comes(CON_INTVL)
    BY <1>1, NoAttempt DEF PathInv, OpeningInv, Sckt
<1>3. Holding(box') = Holding(box) \cup {SOC_CON} /\ ResultFirst(box')
    BY <1>1, <1>2, AppendedHeld, ResultStaysFirst, PlainApart DEF TaskType, PathInv, OpeningInv
<1>4. TimerInv' /\ \A t \in Timers : ~ Next_is(t)'
    BY <1>1, <1>2, <1>3, NoTimeoutNext, PlainApart
<1>5. CONNECT \notin Holding(box') /\ CON_INTVL \notin Holding(box')
    BY <1>2, <1>3, PlainApart, Names
<1>6. StartInv' /\ DownInv' /\ UpInv'
    BY <1>1, <1>2, <1>4, <1>5, Names DEF StartInv, DownInv, UpInv, Sckt, Comes, Pending
<1>7. OpeningInv'
    BY <1>1, <1>2, <1>3 DEF PathInv, OpeningInv, Sckt, Resw, Silence, AllIdle
<1>8. QED
    BY <1>4, <1>6, <1>7 DEF PathInv

LEMMA BrokenKeepsPath ==
    ASSUME AInv, PathInv, AInv', Broken
    PROVE  PathInv' /\ Silence' /\ sock' = "dead" /\ UNCHANGED <<phase, Resw, logs, taken>>
<1>1. /\ TaskType /\ TaskType' /\ sock \in {"opening", "open"} /\ sock' = "dead" /\ Silence'
      /\ box' = Append(box, RST_PRT)
      /\ UNCHANGED <<pc, timers, phase, Sckt, Resw, logs, taken>>
    BY DEF AInv, Broken, Sckt, Resw, Silence
<1>2. Sckt # "DISCONNECT" /\ ~ Comes(CONNECT) /\ ~ Comes(CON_INTVL)
  <2>1. Sckt # "DISCONNECT"
    BY <1>1 DEF PathInv, DownInv, Sckt
  <2>2. QED
    BY <1>1, <2>1, NoAttempt
<1>3. /\ Holding(box') = Holding(box) \cup {RST_PRT} /\ RST_PRT \notin Timers
      /\ Later' \subseteq Later \cup {RST_PRT}
      /\ \A t \in Timers : Next_is(t)' => Next_is(t)
    BY <1>1, AppendedHeld, PlainApart
<1>4. ResultFirst(box')
    BY <1>1, ResultStaysFirst, PlainApart, PlainNames DEF TaskType, PathInv, OpeningInv
<1>5. TimerInv'
    BY <1>1, <1>3 DEF PathInv, TimerInv
<1>6. CONNECT \notin timers' /\ CONNECT \notin Holding(box') /\ CON_INTVL \notin timers' /\ CON_INTVL \notin Holding(box')
    BY <1>1, <1>2, <1>3, PlainApart, Names DEF Comes, Pending
<1>7. ~ Next_is(CON_INTVL)'
    BY <1>2, <1>3, Names DEF Comes, Pending, Next_is, Holding, TaskType
<1>8. StartInv' /\ DownInv' /\ UpInv'
    BY <1>1, <1>2, <1>6, <1>7 DEF StartInv, DownInv, UpInv, Sckt, Comes, Pending
<1>9. OpeningInv'
    BY <1>1, <1>3, <1>4, PlainNames DEF PathInv, OpeningInv, Sckt, Resw, AllIdle
<1>10. QED
    BY <1>1, <1>5, <1>8, <1>9 DEF PathInv

(* The LCD receives and answers over a connection that is up. *)
LEMMA LcdKeepsPath ==
    ASSUME AInv, PathInv, AInv', LcdReceive \/ LcdSilent \/ LcdRespond
    PROVE  PathInv' /\ Sckt = "ESTABLISH"
<1>1. /\ TaskType /\ TaskType' /\ ~ Silence /\ sock = "open" /\ sock' = sock
      /\ box' = Append(box, SOC_RCV) \/ UNCHANGED box
      /\ UNCHANGED <<pc, timers, phase, Sckt, Resw>>
    BY DEF AInv, LcdReceive, LcdSilent, LcdRespond, task, Sckt, Resw, Silence
<1>2. /\ Holding(box) \cap Timers = {} /\ Sckt = "ESTABLISH" /\ ~ Comes(CONNECT) /\ SOC_CON \notin Holding(box)
    BY <1>1, NoTimeoutHeld, NoAttempt DEF AInv, ControlInv, PathInv
<1>3. Holding(box') \subseteq Holding(box) \cup {SOC_RCV}
  <2>1. CASE UNCHANGED box
    BY <2>1
  <2>2. CASE box' = Append(box, SOC_RCV)
    BY <1>1, <2>2, AppendedHeld, PlainApart
  <2>3. QED
    BY <1>1, <2>1, <2>2
<1>4. Holding(box') \cap Timers = {} /\ SOC_CON \notin Holding(box')
    BY <1>2, <1>3, PlainApart, PlainNames
<1>5. QED
    BY <1>1, <1>2, <1>4, PathStays

(* A timer that runs out when nothing else is left to happen. *)
LEMMA ExpireKeepsPath ==
    ASSUME Late = {}, AInv, PathInv, AInv', NEW t \in Timers, Expire(t)
    PROVE  PathInv'
<1>1. /\ TaskType /\ TaskType' /\ t \in timers /\ Quiet /\ timers' = timers \ {t} /\ box' = Append(box, t)
      /\ UNCHANGED <<pc, sock, down, up, jobs, phase, Sckt, Resw>>
    BY DEF AInv, Expire, net, Sckt, Resw
<1>2. /\ Holding(box) = {} /\ Holding(box') = {t} /\ Later' = {}
      /\ \A u : Next_is(u)' <=> u = t
  <2>1. Holding(box) = {}
    BY <1>1 DEF Quiet, Holding
  <2>2. QED
    BY <1>1, <2>1, AppendedHeld DEF Quiet
<1>3. Sckt # "CONNECTING" /\ SOC_CON \notin Holding(box') /\ t # SOC_CON
    BY <1>1, <1>2, PlainApart DEF Quiet, PathInv, OpeningInv, Sckt
<1>4. TimerInv'
    BY <1>1, <1>2 DEF TimerInv, Quiet, Silence
<1>5. StartInv'
    BY <1>1, <1>2 DEF PathInv, StartInv, Comes, Pending, Sckt
<1>6. DownInv'
    BY <1>1, <1>2 DEF PathInv, DownInv, Comes, Pending, Sckt, Resw, Silence, AllIdle
<1>7. OpeningInv' /\ UpInv'
    BY <1>1, <1>3 DEF PathInv, OpeningInv, UpInv, Sckt, ResultFirst, Holding, Quiet
<1>8. QED
    BY <1>4, <1>5, <1>6, <1>7 DEF PathInv

LEMMA StepKeepsPath ==
    ASSUME Late = {}, "shortsend" \notin Faults, AInv, PathInv, [Next]_vars
    PROVE  PathInv'
<1>0. AInv'
    BY StepIsA
<1>1. CASE Handlers
    BY <1>0, <1>1, SocConKeepsPath, AttemptsKeepPath, DisconnectKeepsPath, QuietHandlersKeepPath, OpeKeepsPath
       DEF Handlers
<1>2. CASE Receive \/ RcvGarbled
    BY <1>0, <1>2, ReceiveKeepsPath
<1>3. CASE Send
    BY <1>0, <1>3, SendKeepsPath
<1>4. CASE Ope \/ UNCHANGED vars
    BY <1>0, <1>4, OpeKeepsPath
<1>5. CASE Lcd
    BY <1>0, <1>5, ConnectedKeepsPath, BrokenKeepsPath, LcdKeepsPath DEF Lcd
<1>6. CASE \E t \in Timers : Expire(t)
    BY <1>0, <1>6, ExpireKeepsPath
<1>7. QED
    BY <1>1, <1>2, <1>3, <1>4, <1>5, <1>6 DEF Next, PktTask


-----------------------------------------------------------------------------
(* A packet and its answer. *)

LEMMA AckTaken ==
    ASSUME NEW S, NEW s \in Seq(S), s # <<>>
    PROVE  /\ HasAck(Tail(s)) => HasAck(s)
           /\ Acked(Tail(s)) => Acked(s)
           /\ OneAck(s) => OneAck(Tail(s))
           /\ OneAck(s) /\ Head(s).what \in Acks => ~ HasAck(Tail(s))
           /\ Head(s).what \in Acks => HasAck(s)
           /\ Head(s).what = "ACK" => Acked(s)
<1> DEFINE t == Tail(s)
<1>1. /\ DOMAIN s = 1 .. Len(s) /\ Len(s) \in Nat /\ Len(s) >= 1 /\ Head(s) = s[1]
      /\ DOMAIN t = 1 .. Len(s) - 1
      /\ \A i \in 1 .. Len(s) - 1 : t[i] = s[i + 1]
    BY HeadTailProperties, LenProperties, EmptySeq
<1> HIDE DEF t
<1>2. \A i \in DOMAIN t : i + 1 \in DOMAIN s /\ t[i] = s[i + 1] /\ i + 1 # 1 /\ i \in Int
    BY <1>1
<1>3. 1 \in DOMAIN s
    BY <1>1
<1>4. (HasAck(t) => HasAck(s)) /\ (Acked(t) => Acked(s))
    BY <1>2 DEF HasAck, Acked
<1>5. OneAck(s) => OneAck(t)
  <2>1. \A i, j \in DOMAIN t : i + 1 = j + 1 => i = j
    BY <1>1
  <2>2. QED
    BY <1>2, <2>1 DEF OneAck
<1>6. OneAck(s) /\ Head(s).what \in Acks => ~ HasAck(t)
    BY <1>1, <1>2, <1>3 DEF OneAck, HasAck
<1>7. (Head(s).what \in Acks => HasAck(s)) /\ (Head(s).what = "ACK" => Acked(s))
    BY <1>1, <1>3 DEF HasAck, Acked
<1>8. QED
    BY <1>4, <1>5, <1>6, <1>7 DEF t

LEMMA AckAppended ==
    ASSUME NEW S, NEW s \in Seq(S), NEW a
    PROVE  /\ a.what \notin Acks => (HasAck(Append(s, a)) => HasAck(s))
           /\ a.what # "ACK" => (Acked(Append(s, a)) => Acked(s))
           /\ OneAck(s) /\ (a.what \notin Acks \/ ~ HasAck(s)) => OneAck(Append(s, a))
           /\ Acked(s) => HasAck(s)
<1> DEFINE t == Append(s, a)
<1>1. /\ DOMAIN s = 1 .. Len(s) /\ Len(s) \in Nat
      /\ DOMAIN t = 1 .. Len(s) + 1 /\ t[Len(s) + 1] = a
      /\ \A i \in 1 .. Len(s) : t[i] = s[i]
    BY LenProperties
<1> HIDE DEF t
<1>2. \A i \in DOMAIN t : (i \in DOMAIN s /\ t[i] = s[i]) \/ (i = Len(s) + 1 /\ t[i] = a)
    BY <1>1
<1>3. /\ a.what \notin Acks => (HasAck(t) => HasAck(s))
      /\ a.what # "ACK" => (Acked(t) => Acked(s))
    BY <1>2 DEF HasAck, Acked
<1>4. OneAck(s) /\ (a.what \notin Acks \/ ~ HasAck(s)) => OneAck(t)
    BY <1>2 DEF OneAck, HasAck
<1>5. Acked(s) => HasAck(s)
    BY DEF Acked, HasAck, Acks
<1>6. QED
    BY <1>3, <1>4, <1>5 DEF t

LEMMA AckConcat ==
    ASSUME NEW S, NEW s \in Seq(S), NEW t \in Seq(S), ~ HasAck(s), ~ HasAck(t)
    PROVE  ~ HasAck(s \o t)
<1> DEFINE u == s \o t
<1>1. /\ DOMAIN s = 1 .. Len(s) /\ Len(s) \in Nat /\ DOMAIN t = 1 .. Len(t) /\ Len(t) \in Nat
      /\ DOMAIN u = 1 .. Len(s) + Len(t)
      /\ \A i \in 1 .. Len(s) + Len(t) : u[i] = IF i <= Len(s) THEN s[i] ELSE t[i - Len(s)]
    BY LenProperties
<1> HIDE DEF u
<1>2. ASSUME NEW i \in DOMAIN u
      PROVE  (\E j \in DOMAIN s : u[i] = s[j]) \/ (\E j \in DOMAIN t : u[i] = t[j])
  <2>1. CASE i <= Len(s)
    BY <1>1, <2>1
  <2>2. CASE ~ (i <= Len(s))
    <3>1. u[i] = t[i - Len(s)] /\ i - Len(s) \in DOMAIN t
      BY <1>1, <2>2
    <3>2. QED
      BY <3>1
  <2>3. QED
    BY <2>1, <2>2
<1>3. ~ HasAck(u)
    BY <1>2 DEF HasAck
<1>4. QED
    BY <1>3 DEF u

(* Without a connection nothing is on its way. *)
LEMMA DownIsClear ==
    ASSUME PathInv', Sckt' # "ESTABLISH", AInv'
    PROVE  FlightInv' /\ RecordInv'
<1>1. Silence' /\ AllIdle'
    BY DEF PathInv, DownInv, OpeningInv, Sckt, AInv, ControlInv, Control
<1>2. FlightInv'
    BY <1>1 DEF FlightInv, Silence, HasAck, OneAck
<1>3. RecordInv'
    BY <1>1 DEF RecordInv, AckIsItsOwn, AllIdle, InPhase
<1>4. QED
    BY <1>2, <1>3

(* Once no ACK is awaited, what is to be shown is that each record whose response is *)
(* awaited was received.                                                             *)
LEMMA NoneAwaited ==
    ASSUME InPhase("WAIT_ACK")' = {},
           \A k \in LogKinds : phase'[k] = "WAIT_RES_CMD" => logs'[k].read \in taken'
    PROVE  RecordInv'
BY DEF RecordInv, AckIsItsOwn

(* A step that leaves the records that are awaited, and brings no new answer. *)
LEMMA RecordStays ==
    ASSUME RecordInv, UNCHANGED <<phase, Resw>>, \A k \in LogKinds : logs'[k].read = logs[k].read,
           taken \subseteq taken', sock' \in {sock, "dead"}, down' = down \/ down' = <<>>,
           Acked(up') => Acked(up)
    PROVE  RecordInv'
<1>1. InPhase("WAIT_ACK")' = InPhase("WAIT_ACK") /\ InPhase("WAIT_ACK") \subseteq LogKinds
    BY DEF InPhase
<1>2. \A k \in LogKinds : phase'[k] = "WAIT_RES_CMD" => logs'[k].read \in taken'
    BY DEF RecordInv, AckIsItsOwn
<1>3. QED
    BY <1>1, <1>2 DEF RecordInv, AckIsItsOwn, Resw

(* A record that stands back or is sent again is not awaited any more. *)
LEMMA StoodBack ==
    ASSUME LogInv, RecordInv, Resw, NEW c, NEW undo \in BOOLEAN, GiveUp(c, undo) \/ Resend(c), UNCHANGED taken
    PROVE  RecordInv'
<1>1. \A k \in InPhase("WAIT_ACK") : InPhase("WAIT_ACK") = {k}
    BY DEF RecordInv, Resw
<1>2. CASE InPhase("WAIT_ACK") = {}
  <2>1. logs' = logs /\ phase' \in {phase, Resumed}
    BY <1>2 DEF GiveUp, Resend
  <2>2. \A k \in LogKinds : phase'[k] = phase[k] \/ phase'[k] = "IDLE"
    BY <2>1, ResumedIs DEF LogInv
  <2>3. InPhase("WAIT_ACK")' = {}
    BY <1>2, <2>2 DEF InPhase
  <2>4. \A k \in LogKinds : phase'[k] = "WAIT_RES_CMD" => logs'[k].read \in taken'
    BY <2>1, <2>2 DEF RecordInv, AckIsItsOwn
  <2>5. QED
    BY <2>3, <2>4, NoneAwaited
<1>3. CASE InPhase("WAIT_ACK") # {}
  <2> DEFINE k == First(InPhase("WAIT_ACK"))
  <2>1. /\ k \in LogKinds /\ InPhase("WAIT_ACK") = {k}
        /\ \E p \in {"IDLE", "RESEND_CANCEL"} : phase' = [phase EXCEPT ![k] = p]
        /\ logs' = Undone({k}) \/ logs' = logs
    BY <1>1, <1>3, AwaitedIsOne DEF GiveUp, Resend
  <2> HIDE DEF k
  <2>2. \A j \in LogKinds : logs'[j].read = logs[j].read
    BY <2>1, UndoneIs DEF LogInv
  <2>3. phase'[k] \in {"IDLE", "RESEND_CANCEL"} /\ \A j \in LogKinds \ {k} : phase'[j] = phase[j]
    BY <2>1 DEF LogInv, LogType
  <2>4. InPhase("WAIT_ACK")' = {}
    BY <2>1, <2>3 DEF InPhase
  <2>5. \A j \in LogKinds : phase'[j] = "WAIT_RES_CMD" => logs'[j].read \in taken'
    BY <2>2, <2>3 DEF RecordInv, AckIsItsOwn
  <2>6. QED
    BY <2>4, <2>5, NoneAwaited
<1>4. QED
    BY <1>2, <1>3


(* Nothing is sent, read or received, and no wait begins or ends. *)
LEMMA NothingOnTheWay ==
    ASSUME FlightInv, RecordInv, UNCHANGED <<phase, Resw, sock, down, up, jobs, taken>>,
           \A k \in LogKinds : logs'[k].read = logs[k].read
    PROVE  FlightInv' /\ RecordInv'
<1>1. FlightInv'
    BY DEF FlightInv, Resw
<1>2. QED
    BY <1>1, RecordStays

LEMMA HandlersKeepLink ==
    ASSUME Late = {}, "shortsend" \notin Faults, AInv, LinkInv, AInv', PathInv', Handlers
    PROVE  FlightInv' /\ RecordInv'
<1> USE DEF LinkInv
<1>1. CASE SocCon
  <2>1. TaskType /\ TimerInv /\ Handle(SOC_CON) /\ SOC_CON \in Plain
    BY <1>1, Names DEF AInv, PathInv, SocCon
  <2>2. SOC_CON \in Holding(box)
    BY <1>1, <2>1, HandledHeld, Names DEF SocCon
  <2>3. Silence /\ AllIdle
    BY <2>2 DEF PathInv, OpeningInv
  <2>4. Silence' /\ AllIdle'
    BY <1>1, <2>3 DEF SocCon, Silence, AllIdle, net
  <2>5. QED
    BY <2>4 DEF FlightInv, RecordInv, AckIsItsOwn, Silence, AllIdle, InPhase, HasAck, OneAck
<1>2. CASE ConnectTimeout \/ ConIntvlTimeout
  <2>1. PICK m \in {CONNECT, CON_INTVL} : Handle(m) /\ box' = Tail(box)
    BY <1>2 DEF ConnectTimeout, ConIntvlTimeout
  <2>2. m \in Holding(box)
    BY <2>1, HandledHeld DEF AInv, PathInv
  <2>3. Sckt = "DISCONNECT"
    BY <2>1, <2>2 DEF PathInv, StartInv, DownInv, Comes, Pending, Sckt
  <2>4. Sckt' # "ESTABLISH"
    BY <1>2, <2>3 DEF ConnectTimeout, ConIntvlTimeout, OpenSocket, AInv, ControlInv, Control, Sckt
  <2>5. QED
    BY <2>4, DownIsClear
<1>3. CASE RstPrt \/ ConResWtTimeout
  <2>1. Sckt' = "DISCONNECT"
    BY <1>3 DEF RstPrt, ConResWtTimeout, Sckt, AInv, ControlInv, Control
  <2>2. QED
    BY <2>1, DownIsClear
<1>4. CASE KeepaliveTimeout \/ SndPrt \/ LogTimeout \/ SocRcv
  <2>1. UNCHANGED <<phase, sock, down, up, jobs, taken, logs>>
    BY <1>4 DEF KeepaliveTimeout, SndPrt, LogTimeout, SocRcv, net, aux
  <2>2. Resw' = Resw
    BY <1>4 DEF KeepaliveTimeout, SndPrt, LogTimeout, SocRcv, Resw, AInv, ControlInv, Control
  <2>3. QED
    BY <2>1, <2>2, NothingOnTheWay
<1>5. CASE ResWtTimeout
  <2>1. UNCHANGED <<sock, down, up, jobs, taken>> /\ Handle(RES_WT) /\ box' = Tail(box)
    BY <1>5 DEF ResWtTimeout, net, aux
  <2>2. CASE ~ Resw
    BY <1>5, <2>1, <2>2, NothingOnTheWay DEF ResWtTimeout, Resw
  <2>3. CASE Resw
    <3>1. Silence
      BY <2>1, HandledHeld, Names DEF AInv, PathInv, TimerInv
    <3>2. FlightInv'
      BY <2>1, <3>1 DEF FlightInv, Silence, HasAck, OneAck
    <3>3. \E c : GiveUp(c, TRUE) \/ Resend(c)
      BY <1>5, <2>3 DEF ResWtTimeout, Resw
    <3>4. RecordInv'
      BY <2>1, <2>3, <3>3, StoodBack DEF AInv
    <3>5. QED
      BY <3>2, <3>4
  <2>4. QED
    BY <2>2, <2>3
<1>6. QED
    BY <1>1, <1>2, <1>3, <1>4, <1>5 DEF Handlers

(* A packet that is read: the answers that are left. *)
LEMMA ReadsOne ==
    ASSUME FlightInv, up \in Seq(Answers), up # <<>>, up' = Tail(up)
    PROVE  /\ HasAck(up') => HasAck(up)
           /\ Acked(up') => Acked(up)
           /\ OneAck(up')
           /\ Head(up).what \in Acks => Resw /\ ~ HasAck(up') /\ down = <<>>
           /\ Head(up).what = "ACK" => Acked(up)
           /\ down # <<>> => ~ HasAck(up')
BY AckTaken DEF FlightInv, Resw

LEMMA ReceiveKeepsLink ==
    ASSUME AInv, LinkInv, AInv', Receive \/ RcvGarbled
    PROVE  FlightInv' /\ RecordInv'
<1> USE DEF LinkInv
<1>1. CASE RcvEnd
  <2>1. UNCHANGED <<phase, Resw, sock, down, up, jobs, taken, logs>>
    BY <1>1 DEF RcvEnd, net, aux, Resw
  <2>2. QED
    BY <2>1, NothingOnTheWay
<1>2. ASSUME NEW what, Reads(what)
      PROVE  /\ up # <<>> /\ up' = Tail(up) /\ up \in Seq(Answers) /\ Head(up).what \in what
             /\ UNCHANGED <<sock, down, jobs, taken>>
    BY <1>2 DEF Reads, AInv, NetType, aux
<1>3. CASE RcvUnexpected
  <2>1. Reads({"ACK", "FORCED", "NAK"}) /\ ~ Resw
    BY <1>3 DEF RcvUnexpected, Resw
  <2>2. Head(up).what \in Acks
    BY <1>2, <2>1 DEF Acks
  <2>3. QED
    BY <1>2, <2>1, <2>2, ReadsOne
<1>4. CASE RcvAck \/ RcvNak
  <2>1. PICK what \in SUBSET Acks : Reads(what)
    BY <1>4 DEF RcvAck, RcvNak, Acks
  <2>2. Resw /\ ~ HasAck(up') /\ down = <<>> /\ OneAck(up') /\ (Head(up).what = "ACK" => Acked(up))
    BY <1>2, <2>1, ReadsOne
  <2>3. FlightInv'
    BY <1>2, <2>1, <2>2 DEF FlightInv
  <2>4. CASE RcvNak
    <3>1. \E c : GiveUp(c, FALSE) \/ Resend(c)
      BY <2>4 DEF RcvNak
    <3>2. RecordInv'
      BY <1>2, <2>1, <2>2, <3>1, StoodBack DEF AInv
    <3>3. QED
      BY <2>3, <3>2
  <2>5. CASE RcvAck
    <3> DEFINE k == First(InPhase("WAIT_ACK"))
    <3>1. \/ /\ InPhase("WAIT_ACK") # {} /\ Normal(Head(up))
             /\ phase' = [phase EXCEPT ![k] = "WAIT_RES_CMD"] /\ logs' = logs
          \/ /\ InPhase("WAIT_ACK") # {}
             /\ phase' = [phase EXCEPT ![k] = "IDLE"] /\ logs' = Undone({k})
          \/ InPhase("WAIT_ACK") = {} /\ phase' = Resumed /\ logs' = logs
      BY <2>5 DEF RcvAck
    <3>2. InPhase("WAIT_ACK") # {} => k \in LogKinds /\ InPhase("WAIT_ACK") = {k}
      BY <2>2, AwaitedIsOne DEF RecordInv, Resw
    <3> HIDE DEF k
    <3>3. LogType /\ UNCHANGED taken
      BY <1>2, <2>1 DEF AInv, LogInv
    <3>4. CASE InPhase("WAIT_ACK") # {}
      <4>1. /\ \A j \in LogKinds \ {k} : phase'[j] = phase[j]
            /\ (phase'[k] = "WAIT_RES_CMD" /\ Normal(Head(up))) \/ phase'[k] = "IDLE"
            /\ \A j \in LogKinds : logs'[j].read = logs[j].read
        BY <3>1, <3>2, <3>3, <3>4, UndoneIs DEF LogType
      <4>2. phase'[k] = "WAIT_RES_CMD" => logs[k].read \in taken
        BY <2>2, <3>2, <3>4, <4>1 DEF RecordInv, Normal, Resw
      <4>3. InPhase("WAIT_ACK")' = {}
        BY <3>2, <3>4, <4>1 DEF InPhase
      <4>4. \A j \in LogKinds : phase'[j] = "WAIT_RES_CMD" => logs'[j].read \in taken'
        BY <3>3, <4>1, <4>2 DEF RecordInv, AckIsItsOwn
      <4>5. QED
        BY <2>3, <4>3, <4>4, NoneAwaited
    <3>5. CASE InPhase("WAIT_ACK") = {}
      <4>1. \A j \in LogKinds : phase'[j] = phase[j] \/ phase'[j] = "IDLE"
        BY <3>1, <3>3, <3>5, ResumedIs
      <4>2. InPhase("WAIT_ACK")' = {}
        BY <3>5, <4>1 DEF InPhase
      <4>3. \A j \in LogKinds : phase'[j] = "WAIT_RES_CMD" => logs'[j].read \in taken'
        BY <3>1, <3>3, <3>5, <4>1 DEF RecordInv, AckIsItsOwn
      <4>4. QED
        BY <2>3, <4>2, <4>3, NoneAwaited
    <3>6. QED
      BY <3>4, <3>5
  <2>6. QED
    BY <1>4, <2>4, <2>5
<1>5. CASE RcvConfig
  <2>1. Reads({"CFG"}) /\ UNCHANGED <<phase, logs>> /\ Resw' = Resw
    BY <1>5, AnswersAreHeard DEF RcvConfig, Resw
  <2>2. FlightInv' /\ (Acked(up') => Acked(up))
    BY <1>2, <2>1, ReadsOne DEF FlightInv, Resw
  <2>3. QED
    BY <1>2, <2>1, <2>2, RecordStays
<1>6. CASE RcvResponse \/ RcvGarbled
  <2>1. /\ \/ up # <<>> /\ up' = Tail(up)
           \/ UNCHANGED up
        /\ up \in Seq(Answers) /\ UNCHANGED <<sock, down, jobs, taken>>
    BY <1>2, <1>6 DEF RcvResponse, RcvGarbled, AInv, NetType
  <2>2. Resw' = Resw
    <3>1. CASE RcvResponse
      BY <3>1, AnswersAreHeard DEF Resw
    <3>2. CASE RcvGarbled
      BY <3>2 DEF RcvGarbled, Got, Resw, AInv, ControlInv, Control
    <3>3. QED
      BY <1>6, <3>1, <3>2
  <2>3. FlightInv' /\ (Acked(up') => Acked(up))
    BY <2>1, <2>2, ReadsOne DEF FlightInv, Resw
  <2>4. PICK S \in SUBSET InPhase("WAIT_RES_CMD") : phase' = InPhaseNow(S, "IDLE") \/ phase' = phase
    BY <1>6 DEF RcvResponse, RcvGarbled
  <2>5. \A k \in LogKinds : phase'[k] = phase[k] \/ (phase[k] = "WAIT_RES_CMD" /\ phase'[k] = "IDLE")
    BY <2>4, InPhaseNowIs DEF AInv, LogInv, Phases, InPhase
  <2>6. \A k \in LogKinds : logs'[k].read = logs[k].read
    <3>1. CASE RcvGarbled
      BY <3>1, ConsumedIs DEF RcvGarbled, AInv
    <3>2. CASE RcvResponse
      <4> DEFINE a == Head(up)
                 met == {k \in Cases(KindOf[a.rec]) \cap InPhase("WAIT_RES_CMD") :
                            IdOf[logs[k].read] = IdOf[a.rec]}
                 done == {k \in met : a.result \in Settling(k)}
      <4>1. logs' = [k \in LogKinds |-> IF k \in done THEN Consumed(done)[k] ELSE Undone(met)[k]]
        BY <3>2 DEF RcvResponse
      <4> HIDE DEF met, done
      <4>2. QED
        BY <4>1, ConsumedIs, UndoneIs DEF AInv, LogInv
    <3>3. QED
      BY <1>6, <3>1, <3>2
  <2>7. InPhase("WAIT_ACK")' = InPhase("WAIT_ACK") /\ InPhase("WAIT_ACK") \subseteq LogKinds
    BY <2>5 DEF InPhase
  <2>8. RecordInv'
    BY <2>1, <2>2, <2>3, <2>5, <2>6, <2>7 DEF RecordInv, AckIsItsOwn, Resw
  <2>9. QED
    BY <2>3, <2>8
<1>7. QED
    BY <1>1, <1>3, <1>4, <1>5, <1>6 DEF Receive


LEMMA SendKeepsLink ==
    ASSUME "shortsend" \notin Faults, AInv, LinkInv, AInv', Send
    PROVE  FlightInv' /\ RecordInv'
<1> USE DEF LinkInv
<1>1. CASE SendLog
  <2> DEFINE k == First(Eligible)
             r == Head(logs[k].unread)
             p == [cmds |-> <<>>, recs |-> {r}]
  <2>1. /\ pc = "send" /\ Sckt = "ESTABLISH" /\ ~ Resw /\ UNCHANGED <<sock, up, jobs, taken>>
        /\ Transmit(pktctrl, p)
        /\ logs' = [logs EXCEPT ![k].void_read = 1, ![k].read = r]
        /\ phase' = [phase EXCEPT ![k] = "WAIT_ACK"]
    BY <1>1 DEF SendLog, CanSend, Sckt, Resw
  <2>2. k \in LogKinds /\ phase[k] = "IDLE" /\ r \in Recs
    BY <1>1, EligibleIsOne DEF SendLog, AInv
  <2>3. pktctrl \in Control /\ CountOK(pktctrl) /\ down \in Seq(Packets)
    BY DEF AInv, ControlInv, NetType
  <2>4. down = <<>> /\ ~ HasAck(up) /\ sock \in {"open", "dead"}
    BY <2>1 DEF FlightInv, PathInv, UpInv, Sckt, Resw
  <2>5. IF sock = "open" THEN Resw' /\ down' = Append(down, p) ELSE ~ Resw' /\ down' = down
    <3>1. IF sock = "open" THEN Resw' ELSE Resw' = pktctrl.res_wait /\ down' = down
      BY <2>1, <2>3, TransmitKeepsPath DEF Sckt
    <3>2. sock = "open" => down' = Append(down, p)
      BY <2>1 DEF Transmit
    <3>3. QED
      BY <2>1, <3>1, <3>2 DEF Resw
  <2>6. sock = "open" => down' = <<p>> /\ down' # <<>> /\ Len(down') = 1 /\ Head(down').recs = {r}
    BY <2>4, <2>5
  <2> HIDE DEF k, r, p
  <2>7. /\ logs'[k].read = r /\ phase'[k] = "WAIT_ACK"
        /\ \A j \in LogKinds \ {k} : logs'[j] = logs[j] /\ phase'[j] = phase[j]
    BY <2>1, <2>2, VoidReadIs DEF AInv, LogInv, LogType
  <2>8. FlightInv'
    BY <2>1, <2>4, <2>5, <2>6 DEF FlightInv, Resw
  <2>9. \A j \in LogKinds : phase'[j] = "WAIT_RES_CMD" => logs'[j].read \in taken'
    <3>1. SUFFICES ASSUME NEW j \in LogKinds, phase'[j] = "WAIT_RES_CMD"
                   PROVE  logs'[j].read \in taken'
      OBVIOUS
    <3>2. j # k
      BY <2>7, <3>1
    <3>3. phase[j] = "WAIT_RES_CMD" /\ logs'[j] = logs[j]
      BY <2>7, <3>1, <3>2
    <3>4. logs[j].read \in taken /\ taken' = taken
      BY <2>1, <3>3 DEF RecordInv, AckIsItsOwn
    <3>5. QED
      BY <3>3, <3>4
  <2>10. sock = "open" => InPhase("WAIT_ACK")' = {k}
    <3>1. sock = "open" => InPhase("WAIT_ACK") = {}
      BY <2>1 DEF RecordInv, Resw
    <3>2. QED
      BY <2>2, <2>7, <3>1 DEF InPhase
  <2>11. ~ Acked(up)
    BY <2>4 DEF Acked, HasAck, Acks
  <2>12. CASE sock = "open"
    BY <2>1, <2>5, <2>6, <2>7, <2>8, <2>9, <2>10, <2>11, <2>12 DEF RecordInv, AckIsItsOwn, Resw
  <2>13. CASE sock # "open"
    BY <2>1, <2>4, <2>5, <2>8, <2>9, <2>13 DEF RecordInv, AckIsItsOwn, Resw
  <2>14. QED
    BY <2>12, <2>13
<1>2. CASE SendCommands /\ NextPacket # <<>>
  <2> DEFINE c == [pktctrl EXCEPT !.buf_type = "S"]
             p == [cmds |-> NextPacket, recs |-> {}]
  <2>1. c \in Control /\ CountOK(c) /\ c.sckt = "ESTABLISH" /\ ~ c.res_wait
    BY <1>2 DEF SendCommands, CanSend, AInv, ControlInv, Control, CountOK
  <2>2. /\ pc = "send" /\ Sckt = "ESTABLISH" /\ ~ Resw /\ UNCHANGED <<sock, up, jobs, taken, phase, logs>>
        /\ Transmit(c, p)
    BY <1>2 DEF SendCommands, CanSend, Sckt, Resw
  <2>3. down = <<>> /\ ~ HasAck(up) /\ sock \in {"open", "dead"}
    BY <2>2 DEF FlightInv, PathInv, UpInv, Sckt, Resw
  <2> HIDE DEF c
  <2>4. IF sock = "open" THEN Resw' /\ down' = Append(down, p) ELSE ~ Resw' /\ down' = down
    <3>1. IF sock = "open" THEN Resw' ELSE Resw' = c.res_wait /\ down' = down
      BY <2>1, <2>2, TransmitKeepsPath
    <3>2. sock = "open" => down' = Append(down, p)
      BY <2>2 DEF Transmit
    <3>3. QED
      BY <2>1, <3>1, <3>2
  <2>5. sock = "open" => down' = <<p>> /\ down' # <<>> /\ Len(down') = 1
    BY <2>3, <2>4
  <2> HIDE DEF p
  <2>6. FlightInv'
    BY <2>2, <2>3, <2>4, <2>5 DEF FlightInv, Resw
  <2>7. CASE sock = "open"
    <3>1. InPhase("WAIT_ACK")' = {}
      BY <2>2, <2>7 DEF RecordInv, Resw, InPhase
    <3>2. \A k \in LogKinds : phase'[k] = "WAIT_RES_CMD" => logs'[k].read \in taken'
      BY <2>2 DEF RecordInv, AckIsItsOwn
    <3>3. QED
      BY <2>6, <3>1, <3>2, NoneAwaited
  <2>8. CASE sock # "open"
    <3>1. Resw' = Resw
      BY <2>2, <2>4, <2>8 DEF AInv, ControlInv, Control, Resw
    <3>2. QED
      BY <2>2, <2>4, <2>6, <2>8, <3>1, RecordStays
  <2>9. QED
    BY <2>7, <2>8
<1>3. CASE (SendCommands /\ NextPacket = <<>>) \/ SendNothing
  <2>1. UNCHANGED <<phase, Resw, sock, down, up, jobs, taken, logs>>
    <3>1. CASE SendNothing
      BY <3>1 DEF SendNothing, net, aux, Resw
    <3>2. CASE SendCommands /\ NextPacket = <<>>
      BY <3>2 DEF SendCommands, AInv, ControlInv, Control, Resw
    <3>3. QED
      BY <1>3, <3>1, <3>2
  <2>2. QED
    BY <2>1, NothingOnTheWay
<1>4. QED
    BY <1>1, <1>2, <1>3 DEF Send

LEMMA OpeKeepsLink ==
    ASSUME AInv, LinkInv, AInv', Ope \/ UNCHANGED vars \/ (\E t \in Timers : Expire(t))
    PROVE  FlightInv' /\ RecordInv'
<1>1. UNCHANGED <<phase, Resw, sock, down, up, jobs, taken>>
  <2>1. CASE OpeStarts \/ LcdStarted \/ ResetReqFlgSet
    BY <2>1 DEF OpeStarts, LcdStarted, ResetReqFlgSet, net, aux, AInv, ControlInv, Control, Resw
  <2>2. CASE (\E c \in Cmds : SetSendCommand(c)) \/ (\E r \in Recs : LogRegist(r)) \/ UNCHANGED vars
    BY <2>2 DEF SetSendCommand, LogRegist, net, vars, task, aux, Resw
  <2>3. CASE \E t \in Timers : Expire(t)
    BY <2>3 DEF Expire, net, Resw
  <2>4. QED
    BY <2>1, <2>2, <2>3 DEF Ope
<1>2. \A k \in LogKinds : logs'[k].read = logs[k].read
  <2>1. CASE \E r \in Recs : LogRegist(r)
    BY <2>1 DEF LogRegist, AInv, LogInv, LogType, Logs
  <2>2. CASE ~ \E r \in Recs : LogRegist(r)
    BY <2>2 DEF Ope, OpeStarts, LcdStarted, ResetReqFlgSet, SetSendCommand, Expire, vars, task
  <2>3. QED
    BY <2>1, <2>2
<1>3. QED
    BY <1>1, <1>2, NothingOnTheWay DEF LinkInv

LEMMA LcdKeepsLink ==
    ASSUME AInv, LinkInv, AInv', Lcd
    PROVE  FlightInv' /\ RecordInv'
<1> USE DEF LinkInv
<1>1. CASE Connected
  <2>1. UNCHANGED <<phase, Resw, down, up, jobs, taken, logs>> /\ sock = "opening"
    BY <1>1 DEF Connected, aux, Resw
  <2>2. FlightInv'
    BY <2>1 DEF FlightInv, Resw
  <2>3. AllIdle'
    BY <2>1 DEF PathInv, OpeningInv, AllIdle
  <2>4. RecordInv'
    BY <2>3 DEF RecordInv, AckIsItsOwn, AllIdle, InPhase
  <2>5. QED
    BY <2>2, <2>4
<1>2. CASE Broken
  <2>1. Silence' /\ sock' = "dead" /\ UNCHANGED <<phase, Resw, logs, taken>>
    BY <1>2, BrokenKeepsPath
  <2>2. FlightInv' /\ ~ Acked(up') /\ down' = <<>>
    BY <2>1 DEF FlightInv, Silence, HasAck, OneAck, Acked
  <2>3. QED
    BY <2>1, <2>2, RecordStays
<1>3. CASE LcdReceive
  <2> DEFINE p == Head(down)
  <2>1. /\ down # <<>> /\ down' = Tail(down) /\ down \in Seq(Packets) /\ up \in Seq(Answers) /\ jobs \in Seq(Answers)
        /\ p \in Packets /\ UNCHANGED <<phase, Resw, logs, sock>>
    BY <1>3, HeadTailProperties DEF LcdReceive, AInv, NetType, Resw
  <2>2. Resw /\ Len(down) = 1 /\ ~ HasAck(up) /\ ~ HasAck(jobs) /\ OneAck(up) /\ Resw'
    BY <2>1 DEF FlightInv, Resw
  <2>3. down' = <<>>
    BY <2>1, <2>2, HeadTailProperties, EmptySeq
  <2> HIDE DEF p
  <2>4. PICK a : /\ up' = Append(up, a)
                 /\ \/ taken' = taken \cup p.recs /\ jobs' = jobs \o Responses(p)
                    \/ a.what # "ACK" /\ UNCHANGED <<taken, jobs>>
    <3>1. Answer("NAK").what # "ACK" /\ Answer("FORCED").what # "ACK"
      BY DEF Answer
    <3>2. QED
      BY <1>3, <3>1 DEF LcdReceive, LcdAccepts, p
  <2>5. OneAck(up') /\ (a.what # "ACK" => ~ Acked(up')) /\ ~ HasAck(jobs')
    <3>1. OneAck(up') /\ (a.what # "ACK" => ~ Acked(up'))
      <4>1. ~ Acked(up)
        BY <2>2 DEF Acked, HasAck, Acks
      <4>2. QED
        BY <2>1, <2>2, <2>4, <4>1, AckAppended
    <3>2. Responses(p) \in Seq(Answers) /\ ~ HasAck(Responses(p))
      BY <2>1, ResponsesAre DEF HasAck, Acks
    <3>3. ~ HasAck(jobs \o Responses(p))
      BY <2>1, <2>2, <3>2, AckConcat
    <3>4. QED
      BY <2>2, <2>4, <3>1, <3>3
  <2>6. FlightInv'
    BY <2>2, <2>3, <2>5 DEF FlightInv, Resw
  <2>7. /\ InPhase("WAIT_ACK")' = InPhase("WAIT_ACK") /\ taken \subseteq taken'
        /\ \A k \in InPhase("WAIT_ACK") : InPhase("WAIT_ACK") = {k} /\ p.recs = {logs[k].read}
    BY <2>1, <2>2, <2>4 DEF InPhase, RecordInv, Resw, p
  <2>8. RecordInv'
    <3>1. ASSUME NEW k \in InPhase("WAIT_ACK"), Acked(up')
          PROVE  logs'[k].read \in taken'
      <4>1. a.what = "ACK"
        BY <2>5, <3>1
      <4>2. taken' = taken \cup p.recs /\ p.recs = {logs[k].read}
        BY <2>4, <2>7, <3>1, <4>1
      <4>3. QED
        BY <2>1, <4>2
    <3>2. \A k \in LogKinds : phase'[k] = "WAIT_RES_CMD" => logs'[k].read \in taken'
      BY <2>1, <2>7 DEF RecordInv, AckIsItsOwn
    <3>3. QED
      BY <2>2, <2>3, <2>7, <3>1, <3>2 DEF RecordInv, AckIsItsOwn, Resw
  <2>9. QED
    BY <2>6, <2>8
<1>4. CASE LcdSilent
  <2>1. /\ down # <<>> /\ down' = Tail(down) /\ down \in Seq(Packets)
        /\ taken \subseteq taken' /\ UNCHANGED <<phase, Resw, logs, sock, up, jobs>>
    BY <1>4 DEF LcdSilent, LcdAccepts, AInv, NetType, task, Resw
  <2>2. down' = <<>>
    BY <2>1, HeadTailProperties, EmptySeq DEF FlightInv
  <2>3. FlightInv'
    BY <2>1, <2>2 DEF FlightInv, Resw
  <2>4. QED
    BY <2>1, <2>2, <2>3, RecordStays
<1>5. CASE LcdRespond
  <2>1. /\ jobs # <<>> /\ jobs' = Tail(jobs) /\ jobs \in Seq(Answers) /\ up \in Seq(Answers)
        /\ UNCHANGED <<phase, Resw, logs, sock, down, taken>>
    BY <1>5 DEF LcdRespond, AInv, NetType, Resw
  <2>2. Head(jobs).what \notin Acks /\ ~ HasAck(jobs')
    BY <2>1, AckTaken DEF FlightInv
  <2>3. PICK a : up' = Append(up, a) /\ a.what = Head(jobs).what
    <3>1. Head(jobs) \in Answers
      BY <2>1, HeadTailProperties
    <3>2. \A n \in 1 .. 2 : [Head(jobs) EXCEPT !.result = n].what = Head(jobs).what
      BY <3>1 DEF Answers
    <3>3. QED
      BY <1>5, <3>2 DEF LcdRespond
  <2>4. (HasAck(up') => HasAck(up)) /\ (Acked(up') => Acked(up)) /\ OneAck(up')
    <3>1. a.what # "ACK" /\ a.what \notin Acks
      BY <2>2, <2>3 DEF Acks
    <3>2. QED
      BY <2>1, <2>3, <3>1, AckAppended DEF FlightInv
  <2>5. FlightInv'
    BY <2>1, <2>2, <2>4 DEF FlightInv, Resw
  <2>6. QED
    BY <2>1, <2>4, <2>5, RecordStays
<1>6. QED
    BY <1>1, <1>2, <1>3, <1>4, <1>5 DEF Lcd

LEMMA InitIsLink == Init => LinkInv
<1> SUFFICES ASSUME Init
             PROVE  LinkInv
    OBVIOUS
<1>1. Holding(box) = {} /\ box = <<>> /\ CONNECT # CON_INTVL /\ Silence
    BY TimerNames DEF Init, Holding, Silence
<1>2. TimerInv /\ StartInv /\ DownInv /\ UpInv
    BY <1>1 DEF Init, TimerInv, StartInv, DownInv, UpInv, Later, Next_is, Comes, Pending, AllIdle
<1>3. OpeningInv
    BY <1>1 DEF Init, OpeningInv, ResultFirst
<1>4. FlightInv /\ RecordInv
    BY DEF Init, FlightInv, RecordInv, AckIsItsOwn, HasAck, OneAck, InPhase
<1>5. QED
    BY <1>2, <1>3, <1>4 DEF LinkInv, PathInv

LEMMA StepIsLink ==
    ASSUME Late = {}, "shortsend" \notin Faults
    PROVE  AInv /\ LinkInv /\ [Next]_vars => LinkInv'
<1> SUFFICES ASSUME AInv, LinkInv, [Next]_vars
             PROVE  LinkInv'
    OBVIOUS
<1>1. AInv' /\ PathInv'
    BY StepIsA, StepKeepsPath DEF LinkInv
<1>2. FlightInv' /\ RecordInv'
    BY <1>1, HandlersKeepLink, ReceiveKeepsLink, SendKeepsLink, OpeKeepsLink, LcdKeepsLink DEF Next, PktTask
<1>3. QED
    BY <1>1, <1>2 DEF LinkInv

(* As long as sending does not fail on a connection that is there, and no timer runs *)
(* out while something else is still to happen, the ACK that starts the wait for the *)
(* response to a record is the ACK of that record.                                   *)
THEOREM AckIsRight ==
    ASSUME Late = {}, "shortsend" \notin Faults
    PROVE  Spec => []AckIsItsOwn
<1>1. LinkInv => AckIsItsOwn
    BY DEF LinkInv, RecordInv
<1>2. QED
    BY <1>1, AlwaysA, InitIsLink, StepIsLink, PTL DEF Spec


-----------------------------------------------------------------------------
(* No record leaves its log before the LCD has it. *)

Unread(k) == Holding(logs[k].unread)

LEMMA RecordsKept ==
    ASSUME LogKept, taken \subseteq taken',
           \A r \in Recs \cap todo : r \in todo' \/ \E k \in LogKinds : r \in Unread(k)',
           \A k \in LogKinds : Unread(k) \subseteq Unread(k)' \cup taken'
    PROVE  LogKept'
<1>1. Unconsumed = todo \cup UNION {Unread(k) : k \in LogKinds}
    BY DEF Unconsumed, Unread, Holding
<1>2. Unconsumed' = todo' \cup UNION {Unread(k)' : k \in LogKinds}
    BY DEF Unconsumed, Unread, Holding
<1>3. QED
    BY <1>1, <1>2 DEF LogKept

(* What is consumed behind the wait for a response was received. *)
LEMMA ConsumedWasTaken ==
    ASSUME AInv, AckIsItsOwn, NEW S, S \subseteq InPhase("WAIT_RES_CMD"), NEW k \in LogKinds
    PROVE  Unread(k) \subseteq Holding(Consumed(S)[k].unread) \cup taken
<1>1. CASE k \in S /\ logs[k].void_read = 1
  <2>1. logs[k].unread \in Seq(Recs) /\ logs[k].unread # <<>> /\ Head(logs[k].unread) = logs[k].read
    BY <1>1 DEF AInv, LogInv, LogType, Logs, ReadInv
  <2>2. logs[k].read \in taken
    BY <1>1 DEF InPhase, AckIsItsOwn
  <2>3. Unread(k) = {Head(logs[k].unread)} \cup Holding(Tail(logs[k].unread))
    BY <2>1, HeldTail DEF Unread
  <2>4. Consumed(S)[k].unread = Tail(logs[k].unread)
    BY <1>1, ConsumedIs DEF AInv
  <2>5. QED
    BY <2>1, <2>2, <2>3, <2>4
<1>2. CASE ~ (k \in S /\ logs[k].void_read = 1)
  <2>1. Consumed(S)[k] = logs[k]
    BY <1>2, ConsumedIs DEF AInv
  <2>2. QED
    BY <2>1 DEF Unread
<1>3. QED
    BY <1>1, <1>2

(* Giving up and sending again leave the records where they are. *)
LEMMA RetriesKeepRecords ==
    ASSUME AInv, NEW c, NEW undo, GiveUp(c, undo) \/ Resend(c), NEW k \in LogKinds
    PROVE  logs'[k].unread = logs[k].unread
<1>1. logs' = logs \/ \E S : logs' = Undone(S)
    BY DEF GiveUp, Resend
<1>2. ASSUME NEW S, logs' = Undone(S)
      PROVE  logs'[k].unread = logs[k].unread
    BY <1>2, UndoneIs DEF AInv, LogInv
<1>3. QED
    BY <1>1, <1>2

LEMMA StepKeepsRecords ==
    ASSUME AInv, AckIsItsOwn, LogKept, [Next]_vars
    PROVE  LogKept'
<1>0. LogInv /\ LogType
    BY DEF AInv, LogInv
<1>1. ASSUME UNCHANGED <<todo, taken>>, \A k \in LogKinds : logs'[k].unread = logs[k].unread
      PROVE  LogKept'
    BY <1>1, RecordsKept DEF Unread
<1>2. CASE Handlers
  <2>1. UNCHANGED <<todo, taken>>
    BY <1>2 DEF Handlers, SocCon, ConnectTimeout, ConIntvlTimeout, RstPrt, ConResWtTimeout, KeepaliveTimeout, SndPrt,
                LogTimeout, ResWtTimeout, SocRcv, Disconnect, aux
  <2>2. CASE RstPrt \/ ConResWtTimeout
    <3>1. \E S : logs' = Undone(S)
      BY <2>2 DEF RstPrt, ConResWtTimeout, Disconnect
    <3>2. QED
      BY <1>0, <1>1, <2>1, <3>1, UndoneIs
  <2>3. CASE ResWtTimeout
    <3>1. logs' = logs \/ \E c : GiveUp(c, TRUE) \/ Resend(c)
      BY <2>3 DEF ResWtTimeout
    <3>2. QED
      BY <1>1, <2>1, <3>1, RetriesKeepRecords
  <2>4. CASE ~ (RstPrt \/ ConResWtTimeout \/ ResWtTimeout)
    <3>1. UNCHANGED logs
      BY <1>2, <2>4 DEF Handlers, SocCon, ConnectTimeout, ConIntvlTimeout, KeepaliveTimeout, SndPrt, LogTimeout, SocRcv
    <3>2. QED
      BY <1>1, <2>1, <3>1
  <2>5. QED
    BY <2>2, <2>3, <2>4
<1>3. CASE Receive \/ RcvGarbled
  <2>1. UNCHANGED <<todo, taken>>
    BY <1>3 DEF Receive, RcvEnd, RcvUnexpected, RcvAck, RcvNak, RcvConfig, RcvResponse, RcvGarbled, Reads, aux
  <2>2. CASE RcvNak
    <3>1. \E c : GiveUp(c, FALSE) \/ Resend(c)
      BY <2>2 DEF RcvNak
    <3>2. QED
      BY <1>1, <2>1, <3>1, RetriesKeepRecords
  <2>3. CASE RcvAck
    <3>1. logs' = logs \/ \E S : logs' = Undone(S)
      BY <2>3 DEF RcvAck
    <3>2. QED
      BY <1>0, <1>1, <2>1, <3>1, UndoneIs
  <2>4. CASE RcvResponse \/ RcvGarbled
    <3>1. \A k \in LogKinds : \/ logs'[k].unread = logs[k].unread
                              \/ \E S \in SUBSET InPhase("WAIT_RES_CMD") : logs'[k] = Consumed(S)[k]
      <4>1. CASE RcvGarbled
        BY <4>1 DEF RcvGarbled
      <4>2. CASE RcvResponse
        <5> DEFINE a == Head(up)
                   met == {k \in Cases(KindOf[a.rec]) \cap InPhase("WAIT_RES_CMD") :
                              IdOf[logs[k].read] = IdOf[a.rec]}
                   done == {k \in met : a.result \in Settling(k)}
        <5>1. logs' = [k \in LogKinds |-> IF k \in done THEN Consumed(done)[k] ELSE Undone(met)[k]]
          BY <4>2 DEF RcvResponse
        <5>2. done \in SUBSET InPhase("WAIT_RES_CMD")
          OBVIOUS
        <5> HIDE DEF met, done
        <5>3. QED
          BY <1>0, <5>1, <5>2, UndoneIs
      <4>3. QED
        BY <2>4, <4>1, <4>2
    <3>2. \A k \in LogKinds : Unread(k) \subseteq Unread(k)' \cup taken'
      BY <2>1, <3>1, ConsumedWasTaken DEF Unread
    <3>3. QED
      BY <2>1, <3>2, RecordsKept
  <2>5. CASE RcvEnd \/ RcvUnexpected \/ RcvConfig
    BY <1>1, <2>1, <2>5 DEF RcvEnd, RcvUnexpected, RcvConfig
  <2>6. QED
    BY <1>3, <2>2, <2>3, <2>4, <2>5 DEF Receive
<1>4. CASE Send
  <2>1. UNCHANGED <<todo, taken>>
    BY <1>4 DEF Send, SendLog, SendCommands, SendNothing, aux
  <2>2. CASE SendLog
    <3> DEFINE k == First(Eligible)
               r == Head(logs[k].unread)
    <3>1. k \in LogKinds /\ r \in Recs /\ logs' = [logs EXCEPT ![k].void_read = 1, ![k].read = r]
      BY <1>0, <2>2, EligibleIsOne DEF SendLog
    <3> HIDE DEF k, r
    <3>2. logs'[k].unread = logs[k].unread /\ \A j \in LogKinds \ {k} : logs'[j] = logs[j]
      BY <1>0, <3>1, VoidReadIs DEF LogType
    <3>3. QED
      BY <1>1, <2>1, <3>2
  <2>3. CASE SendCommands \/ SendNothing
    BY <1>1, <2>1, <2>3 DEF SendCommands, SendNothing
  <2>4. QED
    BY <1>4, <2>2, <2>3 DEF Send
<1>5. CASE \E r \in Recs : LogRegist(r)
  <2>1. PICK r \in Recs : LogRegist(r)
    BY <1>5
  <2> DEFINE k == KindOf[r]
  <2>2. k \in LogKinds /\ logs[k] \in Logs /\ logs[k].unread \in Seq(Recs)
    BY <1>0, <2>1, LinkAssumption DEF LogType, Logs
  <2>3. /\ logs' = [logs EXCEPT ![k].unread = Append(@, r)] /\ todo' = todo \ {r} /\ taken' = taken
    BY <2>1 DEF LogRegist
  <2> HIDE DEF k
  <2>4. /\ logs'[k].unread = Append(logs[k].unread, r)
        /\ \A j \in LogKinds \ {k} : logs'[j] = logs[j]
    BY <1>0, <2>2, <2>3 DEF LogType, Logs
  <2>5. Unread(k)' = Unread(k) \cup {r}
    BY <2>2, <2>4, HeldAppend DEF Unread
  <2>6. \A j \in LogKinds : Unread(j) \subseteq Unread(j)'
    BY <2>4, <2>5 DEF Unread
  <2>7. QED
    BY <2>2, <2>3, <2>5, <2>6, RecordsKept
<1>6. CASE Ope /\ ~ \E r \in Recs : LogRegist(r)
  <2>1. UNCHANGED <<logs, taken>>
    BY <1>6 DEF Ope, OpeStarts, LcdStarted, ResetReqFlgSet, SetSendCommand, aux
  <2>2. \A r \in Recs \cap todo : r \in todo'
    BY <1>6, LinkAssumption DEF Ope, OpeStarts, LcdStarted, ResetReqFlgSet, SetSendCommand, aux
  <2>3. QED
    BY <2>1, <2>2, RecordsKept DEF Unread
<1>7. CASE Lcd \/ (\E t \in Timers : Expire(t)) \/ UNCHANGED vars
  <2>1. UNCHANGED <<logs, todo>> /\ taken \subseteq taken'
    BY <1>7 DEF Lcd, Connected, Broken, LcdReceive, LcdSilent, LcdRespond, LcdAccepts, Expire, vars, task, aux
  <2>2. QED
    BY <2>1, RecordsKept DEF Unread
<1>8. QED
    BY <1>2, <1>3, <1>4, <1>5, <1>6, <1>7 DEF Next, PktTask

(* Under the same conditions no record leaves its log before the LCD received it, *)
(* whatever connections break, packets are refused and answers are forced.        *)
THEOREM NoRecordLost ==
    ASSUME Late = {}, "shortsend" \notin Faults
    PROVE  Spec => []LogKept
<1>1. Init => LogKept
    BY DEF Init, LogKept, Unconsumed
<1>2. LinkInv => AckIsItsOwn
    BY DEF LinkInv, RecordInv
<1>3. QED
    BY <1>1, <1>2, AlwaysA, InitIsLink, StepIsLink, StepKeepsRecords, PTL DEF Spec

-----------------------------------------------------------------------------
(* The commands, as long as a connection lasts and fewer packets go wrong than are *)
(* repeated.                                                                       *)

(* With keepalive off nothing ends a connection that does not break. *)
StaysUp == Late = {} /\ kpalv_snd_intvl = 0 /\ {"shortsend", "break"} \cap Faults = {}

(* Packets are refused or lost, but less often than they are repeated; no ACK is forced. *)
EnoughRetries == "forced" \notin Faults /\ MAX_FAULTS <= snd_rtry_cnt

OpenInv ==
    /\ Sckt = "ESTABLISH" \/ SOC_CON \in Holding(box) => sock = "open" /\ RST_PRT \notin Holding(box)
    /\ Sckt = "ESTABLISH" => ~ Comes(CON_RES_WT)

Type == pktctrl.buf_type
InRing(s) == Holding(s) \cap Cmds

(* The resend ring holds the commands of the packet that is awaited or is to be *)
(* repeated; behind an ACK the LCD has them.                                    *)
RingInv ==
    /\ rsnd_add_cmd # <<>> => Type = "A" \/ (Resw /\ InPhase("WAIT_ACK") = {})
    /\ Type = "A" => ~ Resw /\ InPhase("WAIT_ACK") = {}
    /\ down # <<>> => Head(down).cmds = rsnd_add_cmd
    /\ Acked(up) => InRing(rsnd_add_cmd) \subseteq Arrived
    /\ \A i \in DOMAIN up : up[i].what # "FORCED"

(* Each retry, and a packet that will not be acknowledged, cost a fault. *)
Owed == Resw /\ down = <<>> /\ ~ Acked(up)
CountInv == pktctrl.rtry_cnt + (IF Owed THEN 1 ELSE 0) <= faults

Before(q, c, d) == \E m, n \in DOMAIN q : m < n /\ q[m] = c /\ q[n] = d
Ordered(q, s) == \A i, j \in DOMAIN s : i < j /\ s[i] \in Cmds /\ s[j] \in Cmds => Before(q, s[i], s[j])

(* The commands that were set are received, in the resend ring or in the send ring, *)
(* in the order in which they were set.                                             *)
LineInv ==
    /\ Holding(issued) = Cmds \ todo
    /\ Arrived \cup InRing(rsnd_add_cmd) \cup InRing(snd_buf) = Cmds \ todo
    /\ Ordered(issued, rsnd_add_cmd) /\ Ordered(issued, snd_buf)
    /\ InRing(rsnd_add_cmd) \subseteq Arrived \/ InRing(rsnd_add_cmd) \cap Arrived = {}
    /\ InRing(snd_buf) \cap (Arrived \cup InRing(rsnd_add_cmd)) = {}
    /\ \A c \in Arrived, d \in InRing(rsnd_add_cmd) \cup InRing(snd_buf) : d \in Arrived \/ Before(issued, c, d)
    /\ \A c \in InRing(rsnd_add_cmd), d \in InRing(snd_buf) : Before(issued, c, d)
    /\ InOrder

CmdInv == OpenInv /\ RingInv /\ CountInv /\ LineInv

-----------------------------------------------------------------------------
(* A step that leaves the connection as it is. *)
LEMMA OpenStays ==
    ASSUME OpenInv, Sckt' = Sckt, sock' = sock,
           SOC_CON \in Holding(box') => SOC_CON \in Holding(box),
           RST_PRT \in Holding(box') => RST_PRT \in Holding(box),
           Comes(CON_RES_WT)' => Comes(CON_RES_WT)
    PROVE  OpenInv'
BY DEF OpenInv

(* A step that leaves the rings, the wait and the connection's packets as they are. *)
LEMMA RingStays ==
    ASSUME RingInv, Type' = Type, Resw' = Resw, rsnd_add_cmd' = rsnd_add_cmd,
           InPhase("WAIT_ACK")' = InPhase("WAIT_ACK"), Arrived' = Arrived,
           down' = down \/ down' = <<>>, Acked(up') => Acked(up),
           \A i \in DOMAIN up' : up'[i].what # "FORCED"
    PROVE  RingInv'
BY DEF RingInv

LEMMA CountStays ==
    ASSUME AInv, AInv', CountInv, pktctrl'.rtry_cnt = pktctrl.rtry_cnt, faults <= faults', Owed' => Owed
    PROVE  CountInv'
<1> DEFINE n == pktctrl.rtry_cnt
<1>1. n \in Nat /\ faults \in Nat /\ faults' \in Nat
    BY Settings, Fields DEF AInv, ControlInv, AuxType
<1>2. n + (IF Owed THEN 1 ELSE 0) <= faults /\ pktctrl'.rtry_cnt = n
    BY DEF CountInv
<1> HIDE DEF n
<1>3. n + (IF Owed' THEN 1 ELSE 0) <= faults'
    BY <1>1, <1>2
<1>4. QED
    BY <1>2, <1>3 DEF CountInv

LEMMA BeforeAppended ==
    ASSUME NEW q \in Seq(Cmds), NEW x \in Cmds
    PROVE  /\ \A c, d : Before(q, c, d) => Before(Append(q, x), c, d)
           /\ \A c \in Holding(q) : Before(Append(q, x), c, x)
<1> DEFINE p == Append(q, x)
           l == Len(q)
<1>1. /\ DOMAIN q = 1 .. l /\ l \in Nat
      /\ DOMAIN p = 1 .. l + 1 /\ p[l + 1] = x
      /\ \A i \in 1 .. l : p[i] = q[i]
    BY LenProperties
<1> HIDE DEF p, l
<1>2. \A i \in DOMAIN q : i \in DOMAIN p /\ p[i] = q[i] /\ i < l + 1
    BY <1>1
<1>3. l + 1 \in DOMAIN p
    BY <1>1
<1>4. \A c, d : Before(q, c, d) => Before(p, c, d)
    BY <1>2 DEF Before
<1>5. \A c \in Holding(q) : Before(p, c, x)
    BY <1>1, <1>2, <1>3 DEF Before, Holding
<1>6. QED
    BY <1>4, <1>5 DEF p

LEMMA OrderedAppended ==
    ASSUME NEW q, NEW s \in Seq(Commands), NEW x \in Commands, Ordered(q, s),
           x \in Cmds => \A c \in InRing(s) : Before(q, c, x)
    PROVE  Ordered(q, Append(s, x))
<1> DEFINE p == Append(s, x)
           l == Len(s)
<1>1. /\ DOMAIN s = 1 .. l /\ l \in Nat
      /\ DOMAIN p = 1 .. l + 1 /\ p[l + 1] = x
      /\ \A i \in 1 .. l : p[i] = s[i]
    BY LenProperties
<1> HIDE DEF p, l
<1>2. SUFFICES ASSUME NEW i \in DOMAIN p, NEW j \in DOMAIN p, i < j, p[i] \in Cmds, p[j] \in Cmds
               PROVE  Before(q, p[i], p[j])
    BY DEF Ordered, p
<1>3. i \in DOMAIN s /\ p[i] = s[i]
    BY <1>1, <1>2
<1>4. CASE j \in DOMAIN s
  <2>1. p[j] = s[j]
    BY <1>1, <1>4
  <2>2. QED
    BY <1>2, <1>3, <1>4, <2>1 DEF Ordered
<1>5. CASE j \notin DOMAIN s
  <2>1. p[j] = x
    BY <1>1, <1>5
  <2>2. s[i] \in InRing(s)
    BY <1>2, <1>3 DEF InRing, Holding
  <2>3. QED
    BY <1>2, <1>3, <2>1, <2>2
<1>6. QED
    BY <1>4, <1>5

(* What an append does to the commands of a ring. *)
LEMMA RingAppended ==
    ASSUME NEW s \in Seq(Commands), NEW x \in Commands
    PROVE  /\ Append(s, x) \in Seq(Commands)
           /\ InRing(Append(s, x)) = IF x \in Cmds THEN InRing(s) \cup {x} ELSE InRing(s)
<1>1. Holding(Append(s, x)) = Holding(s) \cup {x} /\ Append(s, x) \in Seq(Commands)
    BY HeldAppend
<1>2. QED
    BY <1>1 DEF InRing

(* A step that sets no command and brings none to the LCD. *)
LEMMA LineStays ==
    ASSUME AInv, LineInv, UNCHANGED <<issued, rcvd, rsnd_add_cmd>>, Cmds \ todo' = Cmds \ todo,
           snd_buf' = snd_buf \/ \E x \in {CONFIG, RST_REQ} : snd_buf' = Append(snd_buf, x)
    PROVE  LineInv'
<1>1. Arrived' = Arrived
    BY DEF Arrived
<1>2. InRing(snd_buf') = InRing(snd_buf) /\ Ordered(issued, snd_buf')
  <2>1. CASE snd_buf' = snd_buf
    BY <2>1 DEF LineInv
  <2>2. ASSUME NEW x \in {CONFIG, RST_REQ}, snd_buf' = Append(snd_buf, x)
        PROVE  InRing(snd_buf') = InRing(snd_buf) /\ Ordered(issued, snd_buf')
    <3>1. x \in Commands /\ x \notin Cmds /\ snd_buf \in Seq(Commands)
      BY LinkAssumption DEF Commands, AInv, RingType
    <3>2. QED
      BY <2>2, <3>1, OrderedAppended, RingAppended DEF LineInv
  <2>3. QED
    BY <2>1, <2>2
<1>3. InOrder' <=> InOrder
    BY DEF InOrder
<1>4. QED
    BY <1>1, <1>2, <1>3 DEF LineInv

(* The LCD takes a packet with the commands of the resend ring. *)
LEMMA LineTaken ==
    ASSUME AInv, LineInv, NEW p, p.cmds = rsnd_add_cmd, LcdAccepts(p),
           UNCHANGED <<todo, issued, rsnd_add_cmd, snd_buf>>
    PROVE  LineInv' /\ Arrived \subseteq Arrived' /\ InRing(rsnd_add_cmd) \subseteq Arrived'
<1> DEFINE s == rsnd_add_cmd
           R == InRing(s)
<1>1. /\ rcvd \in [Cmds -> SUBSET Cmds]
      /\ rcvd' = [c \in Cmds |-> IF c \in Arrived \/ UpTo(c, s) = {} THEN rcvd[c] ELSE Arrived \cup UpTo(c, s)]
    BY DEF AInv, AuxType, LcdAccepts
<1>2. s \in Seq(Commands) /\ DOMAIN s = 1 .. Len(s) /\ Len(s) \in Nat
    BY LenProperties DEF AInv, RingType
<1>3. \A c \in Cmds : c \in R => c \in UpTo(c, s)
    BY <1>2 DEF InRing, Holding, UpTo
<1>4. \A c \in Cmds : UpTo(c, s) # {} => c \in R
    BY DEF InRing, Holding, UpTo
<1>5. ASSUME NEW c \in Cmds, NEW d \in UpTo(c, s), d # c
      PROVE  d \in R /\ Before(issued, d, c)
  <2>1. PICK i \in DOMAIN s, j \in DOMAIN s : i <= j /\ s[i] = d /\ s[j] = c /\ d \in Cmds
    BY <1>5 DEF UpTo
  <2>2. i < j
    BY <1>2, <1>5, <2>1
  <2>3. QED
    BY <2>1, <2>2 DEF LineInv, Ordered, InRing, Holding
<1>6. \A c \in Cmds : \/ (c \in Arrived \/ c \notin R) /\ rcvd'[c] = rcvd[c]
                      \/ c \notin Arrived /\ c \in R /\ rcvd'[c] = Arrived \cup UpTo(c, s)
    BY <1>1, <1>3, <1>4
<1>7. R \subseteq Cmds /\ Arrived \subseteq Cmds
    BY DEF InRing, Arrived
<1>8. Arrived' = Arrived \cup R
  <2>1. \A c \in Cmds : rcvd'[c] # {} <=> c \in Arrived \cup R
    BY <1>3, <1>6 DEF Arrived
  <2>2. QED
    BY <1>7, <2>1 DEF Arrived
<1>9. InOrder'
  <2>1. SUFFICES ASSUME NEW d \in Cmds, NEW c \in rcvd'[d], c # d
                 PROVE  Before(issued, c, d)
    BY DEF InOrder, Before
  <2>2. CASE rcvd'[d] = rcvd[d]
    BY <2>1, <2>2 DEF LineInv, InOrder, Before
  <2>3. CASE d \notin Arrived /\ d \in R /\ rcvd'[d] = Arrived \cup UpTo(d, s)
    <3>1. CASE c \in UpTo(d, s)
      BY <1>5, <2>1, <3>1
    <3>2. CASE c \in Arrived
      BY <2>3, <3>2 DEF LineInv
    <3>3. QED
      BY <2>1, <2>3, <3>1, <3>2
  <2>4. QED
    BY <1>6, <2>2, <2>3
<1>10. \A c \in Arrived', d \in R \cup InRing(snd_buf) : d \in Arrived' \/ Before(issued, c, d)
    BY <1>8 DEF LineInv
<1> HIDE DEF R
<1>11. LineInv'
    BY <1>8, <1>9, <1>10 DEF LineInv, R
<1>12. QED
    BY <1>8, <1>11 DEF R

(* What waits in the send ring goes to the resend ring, which is empty. *)
LEMMA LineMoved ==
    ASSUME AInv, LineInv, rsnd_add_cmd = <<>>, rsnd_add_cmd' = snd_buf, snd_buf' = <<>>,
           UNCHANGED <<todo, issued, rcvd>>
    PROVE  LineInv'
<1>1. InRing(<<>>) = {} /\ \A q : Ordered(q, <<>>)
    BY DEF InRing, Holding, Ordered
<1>2. Arrived' = Arrived /\ (InOrder' <=> InOrder)
    BY DEF Arrived, InOrder
<1>3. QED
    BY <1>1, <1>2 DEF LineInv

(* The resend ring is cleared once the LCD has what is in it. *)
LEMMA LineCleared ==
    ASSUME AInv, LineInv, InRing(rsnd_add_cmd) \subseteq Arrived, rsnd_add_cmd' = <<>>,
           UNCHANGED <<snd_buf, todo, issued, rcvd>>
    PROVE  LineInv'
<1>1. InRing(<<>>) = {} /\ \A q : Ordered(q, <<>>)
    BY DEF InRing, Holding, Ordered
<1>2. Arrived' = Arrived /\ (InOrder' <=> InOrder)
    BY DEF Arrived, InOrder
<1>3. QED
    BY <1>1, <1>2 DEF LineInv

(* The payment dialogue sets a command. *)
LEMMA LineGrows ==
    ASSUME AInv, LineInv, NEW x \in Cmds, SetSendCommand(x)
    PROVE  LineInv'
<1>1. /\ x \in todo /\ todo' = todo \ {x} /\ issued' = Append(issued, x) /\ snd_buf' = Append(snd_buf, x)
      /\ UNCHANGED <<rsnd_add_cmd, rcvd>>
    BY DEF SetSendCommand
<1>2. issued \in Seq(Cmds) /\ snd_buf \in Seq(Commands) /\ x \in Commands
    BY DEF AInv, AuxType, RingType, Commands
<1>3. /\ \A c, d : Before(issued, c, d) => Before(issued', c, d)
      /\ \A c \in Holding(issued) : Before(issued', c, x)
      /\ Holding(issued') = Holding(issued) \cup {x}
    BY <1>1, <1>2, BeforeAppended, HeldAppend
<1>4. InRing(snd_buf') = InRing(snd_buf) \cup {x}
    BY <1>1, <1>2, RingAppended
<1>5. Arrived' = Arrived
    BY <1>1 DEF Arrived
<1>6. Arrived \cup InRing(rsnd_add_cmd) \cup InRing(snd_buf) = Holding(issued) /\ x \notin Holding(issued)
    BY <1>1 DEF LineInv
<1>7. \A s : Ordered(issued, s) => Ordered(issued', s)
    BY <1>3 DEF Ordered
<1>8. Ordered(issued', rsnd_add_cmd) /\ Ordered(issued', snd_buf')
    BY <1>1, <1>2, <1>3, <1>6, <1>7, OrderedAppended DEF LineInv
<1>9. InOrder'
    BY <1>1, <1>3 DEF LineInv, InOrder, Before
<1>10. Holding(issued') = Cmds \ todo'
    BY <1>1, <1>3 DEF LineInv
<1>11. InRing(snd_buf') \cap (Arrived \cup InRing(rsnd_add_cmd)) = {}
    BY <1>4, <1>6 DEF LineInv
<1>12. \A c \in Arrived, d \in InRing(rsnd_add_cmd) \cup InRing(snd_buf') : d \in Arrived \/ Before(issued', c, d)
    BY <1>3, <1>4, <1>6 DEF LineInv
<1>13. \A c \in InRing(rsnd_add_cmd), d \in InRing(snd_buf') : Before(issued', c, d)
    BY <1>3, <1>4, <1>6 DEF LineInv
<1>14. Arrived \cup InRing(rsnd_add_cmd) \cup InRing(snd_buf') = Cmds \ todo'
    BY <1>3, <1>4, <1>6, <1>10
<1>15. QED
    BY <1>1, <1>5, <1>8, <1>9, <1>10, <1>11, <1>12, <1>13, <1>14 DEF LineInv

-----------------------------------------------------------------------------
(* The connection stays up. *)

(* While the task reads, or a packet is on its way, the connection is up. *)
LEMMA UpIsOpen ==
    ASSUME AInv, PathInv, OpenInv
    PROVE  /\ Sckt = "ESTABLISH" => sock = "open"
           /\ Sckt # "ESTABLISH" => Silence /\ ~ Resw /\ AllIdle /\ InPhase("WAIT_ACK") = {}
           /\ sock = "open" /\ pc = "recv" => Sckt = "ESTABLISH"
<1>1. Sckt \in {"DISCONNECT", "CONNECTING", "ESTABLISH"}
    BY Fields DEF AInv, ControlInv, Sckt
<1>2. Sckt # "ESTABLISH" => Silence /\ ~ Resw /\ AllIdle
    BY <1>1 DEF PathInv, DownInv, OpeningInv, Sckt, Resw
<1>3. AllIdle => InPhase("WAIT_ACK") = {}
    BY DEF AllIdle, InPhase
<1>4. QED
    BY <1>2, <1>3, ReceivingIsUp DEF OpenInv

(* With keepalive off the keepalive timer only runs the send section, or has the *)
(* LCD reset.                                                                    *)
LEMMA KeepaliveIsOff ==
    ASSUME StaysUp, pktctrl \in Control, KeepaliveTimeout
    PROVE  /\ box' = Tail(box) \/ box' = Append(Tail(box), SND_PRT)
           /\ rsnd_add_cmd' = rsnd_add_cmd
           /\ snd_buf' = snd_buf \/ snd_buf' = Append(snd_buf, RST_REQ)
           /\ timers' = timers \cup {KEEPALIVE}
           /\ Sckt' = Sckt /\ Type' = Type /\ Resw' = Resw /\ pktctrl'.rtry_cnt = pktctrl.rtry_cnt
<1>1. ~ (kpalv_snd_intvl > 0)
    BY DEF StaysUp
<1>2. CASE pktctrl.reset_req
    BY <1>1, <1>2 DEF KeepaliveTimeout, Sckt, Type, Resw, Control
<1>3. CASE ~ pktctrl.reset_req
    BY <1>1, <1>3 DEF KeepaliveTimeout, Sckt, Type, Resw, Control
<1>4. QED
    BY <1>2, <1>3

(* A message that ends a connection comes only while there is none. *)
LEMMA HandlersKeepOpen ==
    ASSUME StaysUp, AInv, PathInv, OpenInv, AInv', PathInv', Handlers
    PROVE  OpenInv'
<1> USE DEF Sckt
<1>0. TaskType /\ TimerInv /\ pktctrl \in Control /\ TaskType'
    BY DEF AInv, ControlInv, PathInv
<1>1. CASE SocCon
  <2>1. /\ Handle(SOC_CON) /\ box' = Append(Tail(box), SND_PRT) /\ SND_PRT \in Plain
        /\ timers' = (timers \ {CON_RES_WT, RES_WT}) \cup {KEEPALIVE} /\ sock' = sock
    BY <1>1, Names DEF SocCon, net
  <2>2. /\ SOC_CON \in Holding(box) /\ Later \subseteq Holding(box)
        /\ Holding(box') = Later \cup {SND_PRT} /\ Holding(box') \cap Timers = {}
    BY <1>0, <2>1, HandledHeld
  <2>3. sock = "open" /\ RST_PRT \notin Holding(box)
    BY <2>2 DEF OpenInv
  <2>4. CON_RES_WT \notin timers' /\ CON_RES_WT \in Timers
    BY <2>1, Names, TimerNames
  <2>5. QED
    BY <2>1, <2>2, <2>3, <2>4, PlainNames DEF OpenInv, Comes, Pending
<1>2. CASE ConnectTimeout \/ ConIntvlTimeout
  <2>1. PICK m \in {CONNECT, CON_INTVL} : Handle(m) /\ box' = Tail(box)
    BY <1>2 DEF ConnectTimeout, ConIntvlTimeout
  <2>2. m \in Holding(box) /\ Holding(box') \subseteq Holding(box)
    BY <1>0, <2>1, HandledHeld
  <2>3. Sckt = "DISCONNECT"
    BY <2>1, <2>2 DEF PathInv, StartInv, DownInv, Comes, Pending
  <2>4. Sckt' # "ESTABLISH"
    BY <1>0, <1>2, <2>3 DEF ConnectTimeout, ConIntvlTimeout, OpenSocket, Control
  <2>5. SOC_CON \notin Holding(box')
    BY <2>2, <2>3 DEF PathInv, OpeningInv
  <2>6. QED
    BY <2>4, <2>5 DEF OpenInv
<1>3. CASE RstPrt \/ ConResWtTimeout
  <2>1. Sckt' = "DISCONNECT"
    BY <1>0, <1>3 DEF RstPrt, ConResWtTimeout, Control
  <2>2. SOC_CON \notin Holding(box')
    BY <2>1 DEF PathInv, OpeningInv
  <2>3. QED
    BY <2>1, <2>2 DEF OpenInv
<1>4. CASE KeepaliveTimeout \/ SndPrt \/ LogTimeout \/ ResWtTimeout \/ SocRcv
  <2>1. /\ sock' = sock
        /\ timers' \subseteq timers \cup {KEEPALIVE} \cup {RES(k) : k \in AllKinds}
    BY <1>4 DEF KeepaliveTimeout, SndPrt, LogTimeout, ResWtTimeout, SocRcv, net, InPhase
  <2>2. Sckt' = Sckt
    <3>1. CASE ResWtTimeout
      <4>1. \/ pktctrl' = pktctrl
            \/ \E c : c = Retried([pktctrl EXCEPT !.res_wait = FALSE]) /\ (GiveUp(c, TRUE) \/ Resend(c))
        BY <3>1 DEF ResWtTimeout
      <4>2. ASSUME NEW c, c = Retried([pktctrl EXCEPT !.res_wait = FALSE]), GiveUp(c, TRUE) \/ Resend(c)
            PROVE  Sckt' = Sckt
        <5>1. c \in Control /\ c.sckt = Sckt
          BY <1>0, <4>2, RetriedIsOK DEF AInv, ControlInv
        <5>2. pktctrl'.sckt = c.sckt
          BY <4>2, <5>1 DEF GiveUp, Resend, Control
        <5>3. QED
          BY <5>1, <5>2
      <4>3. QED
        BY <4>1, <4>2
    <3>2. CASE ~ ResWtTimeout
      BY <1>0, <1>4, <3>2 DEF KeepaliveTimeout, SndPrt, LogTimeout, SocRcv, Control
    <3>3. QED
      BY <3>1, <3>2
  <2>3. PICK m : /\ Handle(m)
                 /\ box' = Tail(box) \/ \E x \in {SND_PRT, RST_PRT} : box' = Append(Tail(box), x)
                 /\ KeepaliveTimeout => m = KEEPALIVE
    BY <1>4 DEF KeepaliveTimeout, SndPrt, LogTimeout, ResWtTimeout, SocRcv
  <2>4. box' = Tail(box) \/ box' = Append(Tail(box), SND_PRT)
    BY <1>0, <1>4, KeepaliveIsOff DEF SndPrt, LogTimeout, ResWtTimeout, SocRcv
  <2>5. Holding(box') \subseteq Holding(box) \cup {SND_PRT} /\ SND_PRT \in Plain
    BY <1>0, <2>3, <2>4, HandledHeld, Names
  <2>6. \A k \in AllKinds : RES(k) # CON_RES_WT
    BY TimerNames
  <2>7. CON_RES_WT # KEEPALIVE /\ CON_RES_WT # SND_PRT
    BY TimerNames, PlainApart, Names
  <2>8. Comes(CON_RES_WT)' => Comes(CON_RES_WT)
    BY <2>1, <2>5, <2>6, <2>7 DEF Comes, Pending
  <2>9. QED
    BY <2>1, <2>2, <2>5, <2>8, OpenStays, PlainNames
<1>5. QED
    BY <1>1, <1>2, <1>3, <1>4 DEF Handlers

LEMMA ReceiveKeepsOpen ==
    ASSUME AInv, PathInv, OpenInv, AInv', Receive \/ RcvGarbled
    PROVE  OpenInv'
<1>0. TaskType /\ pktctrl \in Control /\ pc = "recv"
    BY DEF AInv, ControlInv, Receive, RcvEnd, RcvUnexpected, RcvAck, RcvNak, RcvConfig, RcvResponse, RcvGarbled, Reads
<1>1. SOC_CON \notin Holding(box) /\ Holding(box) \cap Timers = {}
    BY <1>0, ReceivingIsUp
<1>2. CASE RcvEnd
  <2>1. /\ Sckt' = Sckt /\ sock' = sock /\ timers' = timers
        /\ box' = box \/ (sock # "open" /\ box' = Append(box, RST_PRT))
    BY <1>2 DEF RcvEnd, net, Sckt
  <2>2. box' # box => Holding(box') = Holding(box) \cup {RST_PRT}
    BY <1>0, <2>1, AddedStays, PlainApart
  <2>3. CASE box' = box
    BY <2>1, <2>3, OpenStays DEF Comes, Pending
  <2>4. CASE box' # box
    <3>1. Sckt # "ESTABLISH"
      BY <2>1, <2>4 DEF OpenInv
    <3>2. SOC_CON \notin Holding(box')
      BY <1>1, <2>2, <2>4, PlainNames
    <3>3. QED
      BY <2>1, <3>1, <3>2 DEF OpenInv
  <2>5. QED
    BY <2>3, <2>4
<1>3. CASE ~ RcvEnd
  <2>1. sock = "open" /\ sock' = sock /\ box' \in {box, Append(box, SND_PRT)}
    BY <1>3 DEF Receive, RcvUnexpected, RcvAck, RcvNak, RcvConfig, RcvResponse, RcvGarbled, Reads
  <2>2. Sckt = "ESTABLISH"
    BY <1>0, <2>1, UpIsOpen
  <2>3. Sckt' = Sckt
    <3>1. CASE RcvUnexpected \/ RcvGarbled
      BY <1>0, <2>2, <3>1 DEF RcvUnexpected, RcvGarbled, Got, Sckt, Control
    <3>2. CASE ~ (RcvUnexpected \/ RcvGarbled)
      BY <1>3, <2>2, <3>2, AnswersAreHeard DEF Receive, Sckt
    <3>3. QED
      BY <3>1, <3>2
  <2>4. Holding(box') \subseteq Holding(box) \cup {SND_PRT}
    BY <1>0, <2>1, AddedStays, PlainApart
  <2>5. timers' \subseteq timers \cup {KEEPALIVE} \cup {RES(k) : k \in AllKinds} \cup {RESND(k) : k \in AllKinds}
    BY <1>3, AnswersTimers
  <2>6. \A k \in AllKinds : RES(k) # CON_RES_WT /\ RESND(k) # CON_RES_WT
    BY TimerNames
  <2>7. CON_RES_WT # KEEPALIVE /\ CON_RES_WT # SND_PRT
    BY TimerNames, PlainApart, Names
  <2>8. Comes(CON_RES_WT)' => Comes(CON_RES_WT)
    BY <2>4, <2>5, <2>6, <2>7 DEF Comes, Pending
  <2>9. QED
    BY <2>1, <2>3, <2>4, <2>8, OpenStays, PlainNames
<1>4. QED
    BY <1>2, <1>3

(* On a connection that is up sending does not fail. *)
LEMMA SentOnOpen ==
    ASSUME StaysUp, AInv, PathInv, OpenInv, Sckt = "ESTABLISH",
           NEW c, NEW p, c \in Control, c.sckt = "ESTABLISH", Transmit(c, p)
    PROVE  /\ down' = Append(down, p) /\ box' = box /\ faults' = faults /\ Resw'
           /\ timers' \subseteq timers \cup {KEEPALIVE, RES_WT}
           /\ \E d \in {c, Heard(c)} : pktctrl' = [d EXCEPT !.res_wait = TRUE]
           /\ pktctrl'.sckt = "ESTABLISH" /\ pktctrl'.buf_type = c.buf_type /\ pktctrl'.rtry_cnt = c.rtry_cnt
<1>1. sock = "open" /\ "shortsend" \notin Faults
    BY UpIsOpen DEF StaysUp
<1>2. PICK d \in {c, Heard(c)} : pktctrl' = [d EXCEPT !.res_wait = TRUE]
    BY <1>1 DEF Transmit
<1>3. /\ down' = Append(down, p) /\ box' = box /\ faults' = faults
      /\ timers' \subseteq timers \cup {KEEPALIVE, RES_WT}
    BY <1>1 DEF Transmit
<1>4. pktctrl'.sckt = c.sckt /\ pktctrl'.buf_type = c.buf_type /\ pktctrl'.rtry_cnt = c.rtry_cnt /\ Resw'
    BY <1>2 DEF Heard, Control, Resw
<1>5. QED
    BY <1>2, <1>3, <1>4

LEMMA SendKeepsOpen ==
    ASSUME StaysUp, AInv, PathInv, OpenInv, AInv', Send
    PROVE  OpenInv'
<1>0. pktctrl \in Control
    BY DEF AInv, ControlInv
<1>1. CASE SendNothing \/ (SendCommands /\ NextPacket = <<>>)
  <2>1. Sckt' = Sckt /\ UNCHANGED <<sock, box, timers>>
    BY <1>0, <1>1 DEF SendNothing, SendCommands, net, Sckt, Control
  <2>2. QED
    BY <2>1, OpenStays DEF Comes, Pending
<1>2. CASE SendLog \/ (SendCommands /\ NextPacket # <<>>)
  <2>1. Sckt = "ESTABLISH" /\ sock' = sock
    BY <1>2 DEF SendLog, SendCommands, CanSend, Sckt
  <2>2. PICK c, p : c \in {pktctrl, [pktctrl EXCEPT !.buf_type = "S"]} /\ Transmit(c, p)
    BY <1>2 DEF SendLog, SendCommands
  <2>3. c \in Control /\ c.sckt = "ESTABLISH"
    BY <1>0, <2>1, <2>2 DEF Control, Sckt
  <2>4. box' = box /\ Sckt' = Sckt /\ timers' \subseteq timers \cup {KEEPALIVE, RES_WT}
    BY <2>1, <2>2, <2>3, SentOnOpen DEF Sckt
  <2>5. QED
    BY <2>1, <2>4, OpenStays, TimerNames DEF Comes, Pending
<1>3. QED
    BY <1>1, <1>2 DEF Send

LEMMA OthersKeepOpen ==
    ASSUME StaysUp, AInv, PathInv, OpenInv, AInv', Ope \/ Lcd \/ (\E t \in Timers : Expire(t)) \/ UNCHANGED vars
    PROVE  OpenInv'
<1>0. TaskType /\ pktctrl \in Control
    BY DEF AInv, ControlInv
<1>1. CASE Connected
  <2>1. /\ sock = "opening" /\ sock' = "open" /\ box' = Append(box, SOC_CON) /\ Sckt' = Sckt
    BY <1>1 DEF Connected, Sckt
  <2>2. Sckt = "CONNECTING" /\ Holding(box) \subseteq {SND_PRT}
    BY <2>1 DEF PathInv, OpeningInv, Sckt
  <2>3. Holding(box') = Holding(box) \cup {SOC_CON}
    BY <1>0, <2>1, AddedStays, PlainApart
  <2>4. RST_PRT \notin Holding(box')
    BY <2>2, <2>3, PlainNames
  <2>5. QED
    BY <2>1, <2>2, <2>4 DEF OpenInv
<1>2. CASE Broken
  <2>1. sock = "opening" /\ box' = Append(box, RST_PRT) /\ Sckt' = Sckt
    BY <1>2 DEF Broken, Fault, StaysUp, Sckt
  <2>2. Sckt = "CONNECTING" /\ Holding(box) \subseteq {SND_PRT}
    BY <2>1 DEF PathInv, OpeningInv, Sckt
  <2>3. Holding(box') = Holding(box) \cup {RST_PRT}
    BY <1>0, <2>1, AddedStays, PlainApart
  <2>4. SOC_CON \notin Holding(box')
    BY <2>2, <2>3, PlainNames
  <2>5. QED
    BY <2>1, <2>2, <2>4 DEF OpenInv
<1>3. CASE ~ Connected /\ ~ Broken
  <2>1. PICK x \in {SND_PRT, SOC_RCV} \cup Timers :
             /\ box' = box \/ box' = Append(box, x)
             /\ sock' = sock /\ timers' \subseteq timers /\ (x \in Timers => x \in timers)
    <3>1. CASE \E t \in Timers : Expire(t)
      BY <3>1 DEF Expire, net
    <3>2. CASE (Ope \/ UNCHANGED vars) /\ ~ \E c \in Cmds : SetSendCommand(c)
      <4>1. box' = box /\ sock' = sock /\ timers' = timers
        BY <3>2 DEF Ope, OpeStarts, LcdStarted, ResetReqFlgSet, LogRegist, vars, task, net
      <4>2. QED
        BY <4>1, PlainApart
    <3>3. CASE \E c \in Cmds : SetSendCommand(c)
      BY <3>3, PlainApart DEF SetSendCommand, net
    <3>4. CASE LcdReceive \/ LcdRespond
      BY <3>4, PlainApart DEF LcdReceive, LcdRespond
    <3>5. CASE LcdSilent
      <4>1. box' = box /\ sock' = sock /\ timers' = timers
        BY <3>5 DEF LcdSilent, task
      <4>2. QED
        BY <4>1, PlainApart
    <3>6. QED
      BY <1>3, <3>1, <3>2, <3>3, <3>4, <3>5 DEF Lcd
  <2>2. Sckt' = Sckt
    BY <1>0, <1>3 DEF Ope, OpeStarts, LcdStarted, ResetReqFlgSet, SetSendCommand, LogRegist, Lcd, LcdReceive, LcdSilent,
                LcdRespond, Expire, vars, task, Sckt, Control
  <2>3. Holding(box') \subseteq Holding(box) \cup {x}
    BY <1>0, <2>1, AddedStays, PlainApart
  <2>4. x # SOC_CON /\ x # RST_PRT /\ (x \notin timers => x # CON_RES_WT)
    BY <2>1, PlainApart, PlainNames, Names
  <2>5. QED
    BY <2>1, <2>2, <2>3, <2>4, OpenStays DEF Comes, Pending
<1>4. QED
    BY <1>1, <1>2, <1>3

-----------------------------------------------------------------------------
(* The packet that is awaited, and the retries. *)

(* A packet that will not be acknowledged is repeated, at the cost of its fault. *)
LEMMA Repeated ==
    ASSUME EnoughRetries, AInv, RingInv, CountInv, Owed,
           NEW x \in Control, CountOK(x), x.rtry_cnt = pktctrl.rtry_cnt,
           NEW c, c = Retried([x EXCEPT !.res_wait = FALSE]), NEW undo \in BOOLEAN,
           IF Over /\ ~ Persist THEN GiveUp(c, undo) ELSE Resend(c),
           down' = <<>>, ~ Acked(up'), \A i \in DOMAIN up' : up'[i].what # "FORCED",
           UNCHANGED <<rcvd, faults>>
    PROVE  RingInv' /\ CountInv' /\ rsnd_add_cmd' = rsnd_add_cmd
<1>1. /\ pktctrl.rtry_cnt \in Nat /\ faults \in Nat /\ faults <= MAX_FAULTS /\ MAX_FAULTS \in Nat
      /\ snd_rtry_cnt \in Nat
    BY Settings, Fields DEF AInv, ControlInv, AuxType
<1>2. pktctrl.rtry_cnt + 1 <= faults
    BY DEF CountInv
<1>3. ~ Over
  <2> DEFINE n == pktctrl.rtry_cnt
  <2>1. n \in Nat /\ n + 1 <= faults /\ MAX_FAULTS <= snd_rtry_cnt
    BY <1>1, <1>2 DEF EnoughRetries
  <2> HIDE DEF n
  <2>2. ~ (n + 1 > snd_rtry_cnt)
    BY <1>1, <2>1
  <2>3. QED
    BY <2>2 DEF Over, n
<1>4. Resend(c)
    BY <1>3
<1>5. c \in Control /\ c.res_wait = FALSE
    BY RetriedIsOK DEF AInv
<1>6. c.rtry_cnt = pktctrl.rtry_cnt + 1
    BY <1>3, <1>5 DEF Retried, Control
<1>7. \E t \in {"S", "A"} : pktctrl' = [c EXCEPT !.buf_type = t]
    BY <1>4 DEF Resend
<1>8. ~ Resw' /\ pktctrl'.rtry_cnt = pktctrl.rtry_cnt + 1
    BY <1>5, <1>6, <1>7 DEF Control, Resw
<1>9. rsnd_add_cmd' = rsnd_add_cmd
    BY <1>4 DEF Resend
<1>10. CountInv'
  <2> DEFINE n == pktctrl.rtry_cnt + 1
  <2>1. ~ Owed'
    BY <1>8 DEF Owed
  <2>2. n <= faults' /\ n \in Nat /\ pktctrl'.rtry_cnt = n
    BY <1>1, <1>2, <1>8
  <2> HIDE DEF n
  <2>3. n + (IF Owed' THEN 1 ELSE 0) <= faults'
    BY <2>1, <2>2
  <2>4. QED
    BY <2>2, <2>3 DEF CountInv
<1>11. RingInv'
  <2>1. CASE InPhase("WAIT_ACK") = {}
    <3>1. Type' = "A" /\ InPhase("WAIT_ACK")' = {}
      BY <1>4, <1>5, <2>1 DEF Resend, Control, Type, InPhase
    <3>2. QED
      BY <1>8, <3>1 DEF RingInv
  <2>2. CASE InPhase("WAIT_ACK") # {}
    <3>1. Type' = "S"
      BY <1>4, <1>5, <2>2 DEF Resend, Control, Type
    <3>2. rsnd_add_cmd = <<>>
      BY <2>2 DEF RingInv, Owed
    <3>3. QED
      BY <1>9, <3>1, <3>2 DEF RingInv
  <2>3. QED
    BY <2>1, <2>2
<1>12. QED
    BY <1>9, <1>10, <1>11

(* Nothing about the packet changes. *)
LEMMA PacketStays ==
    ASSUME AInv, AInv', RingInv, CountInv, UNCHANGED <<phase, Resw, Type, rsnd_add_cmd, rcvd, down, up, faults>>,
           pktctrl'.rtry_cnt = pktctrl.rtry_cnt
    PROVE  RingInv' /\ CountInv'
<1>1. InPhase("WAIT_ACK")' = InPhase("WAIT_ACK") /\ Arrived' = Arrived
    BY DEF InPhase, Arrived
<1>2. RingInv'
    BY <1>1, RingStays DEF RingInv
<1>3. faults <= faults' /\ (Owed' => Owed)
    BY Settings DEF AInv, AuxType, Owed
<1>4. QED
    BY <1>2, <1>3, CountStays

(* Without a connection before and behind a step, nothing is awaited. *)
LEMMA PacketRests ==
    ASSUME AInv, AInv', RingInv, CountInv, UNCHANGED <<Type, rsnd_add_cmd, rcvd>>, faults <= faults',
           pktctrl'.rtry_cnt = pktctrl.rtry_cnt, Silence', ~ Resw', ~ Resw,
           InPhase("WAIT_ACK") = {}, InPhase("WAIT_ACK")' = {}
    PROVE  RingInv' /\ CountInv'
<1>1. down' = <<>> /\ DOMAIN up' = {} /\ ~ Acked(up') /\ Arrived' = Arrived
    BY DEF Silence, Acked, Arrived
<1>2. RingInv'
    BY <1>1 DEF RingInv
<1>3. QED
    BY <1>2, CountStays DEF Owed

LEMMA HandlersKeepRing ==
    ASSUME StaysUp, EnoughRetries, AInv, LinkInv, OpenInv, RingInv, CountInv, AInv', PathInv', OpenInv', Handlers
    PROVE  RingInv' /\ CountInv' /\ rsnd_add_cmd' = rsnd_add_cmd
<1>0. /\ TaskType /\ TimerInv /\ PathInv /\ pktctrl \in Control /\ pktctrl' \in Control /\ faults <= faults
      /\ CountOK(pktctrl)
    BY Settings DEF AInv, ControlInv, LinkInv, PathInv, AuxType
<1>1. CASE SocCon
  <2>1. Handle(SOC_CON) /\ SND_PRT \in Plain /\ box' = Append(Tail(box), SND_PRT)
    BY <1>1, Names DEF SocCon
  <2>2. SOC_CON \in Holding(box)
    BY <1>0, <2>1, HandledHeld
  <2>3. Sckt = "CONNECTING"
    BY <2>2 DEF LinkInv, PathInv, OpeningInv, Sckt
  <2>4. ~ Resw
    BY <1>0, <2>3, UpIsOpen
  <2>5. /\ UNCHANGED <<phase, rsnd_add_cmd, rcvd, down, up, faults, Type>> /\ ~ Resw'
        /\ pktctrl'.rtry_cnt = pktctrl.rtry_cnt
    BY <1>0, <1>1 DEF SocCon, net, aux, Control, Type, Resw
  <2>6. Resw' = Resw
    BY <1>0, <2>4, <2>5 DEF Control, Resw
  <2>7. QED
    BY <2>5, <2>6, PacketStays
<1>2. CASE ConnectTimeout \/ ConIntvlTimeout
  <2>1. PICK m \in {CONNECT, CON_INTVL} : Handle(m) /\ box' = Tail(box)
    BY <1>2 DEF ConnectTimeout, ConIntvlTimeout
  <2>2. m \in Holding(box)
    BY <1>0, <2>1, HandledHeld
  <2>3. Sckt = "DISCONNECT"
    BY <2>1, <2>2 DEF LinkInv, PathInv, StartInv, DownInv, Comes, Pending, Sckt
  <2>4. Sckt' # "ESTABLISH"
    BY <1>0, <1>2, <2>3 DEF ConnectTimeout, ConIntvlTimeout, OpenSocket, Control, Sckt
  <2>5. Silence' /\ ~ Resw' /\ InPhase("WAIT_ACK")' = {} /\ ~ Resw /\ InPhase("WAIT_ACK") = {}
    <3>1. ~ Resw /\ InPhase("WAIT_ACK") = {}
      BY <1>0, <2>3, UpIsOpen
    <3>2. Silence' /\ AllIdle' /\ ~ Resw'
      BY <1>0, <2>4, Fields DEF PathInv, DownInv, OpeningInv, Sckt, Resw
    <3>3. QED
      BY <3>1, <3>2 DEF AllIdle, InPhase
  <2>6. UNCHANGED <<Type, rsnd_add_cmd, rcvd>> /\ pktctrl'.rtry_cnt = pktctrl.rtry_cnt
    BY <1>0, <1>2 DEF ConnectTimeout, ConIntvlTimeout, OpenSocket, Control, Type
  <2>7. faults' = faults \/ faults' = faults + 1
    BY <1>2 DEF ConnectTimeout, ConIntvlTimeout, OpenSocket, Fault
  <2>8. faults <= faults'
    BY <2>7, Settings DEF AInv, AuxType
  <2>9. QED
    BY <2>5, <2>6, <2>8, PacketRests
<1>3. CASE RstPrt \/ ConResWtTimeout
  <2>1. PICK m \in {RST_PRT, CON_RES_WT} : Handle(m) /\ box' = Tail(box)
    BY <1>3 DEF RstPrt, ConResWtTimeout, Disconnect
  <2>2. m \in Holding(box)
    BY <1>0, <2>1, HandledHeld
  <2>3. Sckt # "ESTABLISH"
    BY <2>1, <2>2 DEF OpenInv, Comes, Pending
  <2>4. ~ Resw /\ InPhase("WAIT_ACK") = {}
    BY <1>0, <2>3, UpIsOpen
  <2>5. AllIdle' /\ Silence' /\ ~ Resw'
    BY <1>0, <1>3, DisconnectKeepsPath
  <2>6. UNCHANGED <<Type, rsnd_add_cmd, rcvd, faults>> /\ pktctrl'.rtry_cnt = pktctrl.rtry_cnt
    BY <1>0, <1>3 DEF RstPrt, ConResWtTimeout, Disconnect, aux, Control, Type
  <2>7. InPhase("WAIT_ACK")' = {}
    BY <2>5 DEF AllIdle, InPhase
  <2>8. QED
    BY <1>0, <2>4, <2>5, <2>6, <2>7, PacketRests
<1>4. CASE KeepaliveTimeout
  <2>1. UNCHANGED <<phase, rcvd, down, up, faults>>
    BY <1>4 DEF KeepaliveTimeout, net, aux
  <2>2. QED
    BY <1>0, <1>4, <2>1, KeepaliveIsOff, PacketStays
<1>5. CASE SndPrt \/ LogTimeout \/ SocRcv
  <2>1. /\ UNCHANGED <<phase, Resw, Type, rsnd_add_cmd, rcvd, down, up, faults>>
        /\ pktctrl'.rtry_cnt = pktctrl.rtry_cnt
    BY <1>0, <1>5 DEF SndPrt, LogTimeout, SocRcv, net, aux, Control, Resw, Type
  <2>2. QED
    BY <2>1, PacketStays
<1>6. CASE ResWtTimeout
  <2>1. UNCHANGED <<rcvd, down, up, faults>> /\ Handle(RES_WT) /\ box' = Tail(box)
    BY <1>6 DEF ResWtTimeout, net, aux
  <2>2. CASE ~ Resw
    <3>1. UNCHANGED <<phase, pktctrl, rsnd_add_cmd>>
      BY <1>6, <2>2 DEF ResWtTimeout, Resw
    <3>2. UNCHANGED <<Resw, Type>> /\ pktctrl'.rtry_cnt = pktctrl.rtry_cnt
      BY <3>1 DEF Resw, Type
    <3>3. QED
      BY <2>1, <3>1, <3>2, PacketStays
  <2>3. CASE Resw
    <3>1. Silence
      BY <1>0, <2>1, HandledHeld, Names DEF TimerInv
    <3>2. down = <<>> /\ ~ Acked(up) /\ Owed /\ down' = <<>> /\ up' = <<>>
      BY <2>1, <2>3, <3>1 DEF Silence, Acked, Owed
    <3>3. ~ Acked(up') /\ \A i \in DOMAIN up' : up'[i].what # "FORCED"
      BY <3>2 DEF Acked
    <3>4. PICK c : /\ c = Retried([pktctrl EXCEPT !.res_wait = FALSE])
                   /\ IF Over /\ ~ Persist THEN GiveUp(c, TRUE) ELSE Resend(c)
      BY <1>6, <2>3 DEF ResWtTimeout, Resw
    <3>5. QED
      BY <1>0, <2>1, <3>2, <3>3, <3>4, Repeated
  <2>4. QED
    BY <2>2, <2>3
<1>7. QED
    BY <1>1, <1>2, <1>3, <1>4, <1>5, <1>6 DEF Handlers

(* Reading an answer that is neither ACK nor NAK. *)
LEMMA AnswersRead ==
    ASSUME NEW S, NEW s \in Seq(S), s # <<>>
    PROVE  /\ (\A i \in DOMAIN s : s[i].what # "FORCED") =>
                 Head(s).what # "FORCED" /\ \A i \in DOMAIN Tail(s) : Tail(s)[i].what # "FORCED"
           /\ Acked(s) /\ Head(s).what # "ACK" => Acked(Tail(s))
           /\ OneAck(s) /\ Head(s).what = "NAK" => ~ Acked(s)
<1> DEFINE t == Tail(s)
           l == Len(s)
<1>1. /\ t \in Seq(S) /\ Len(t) = l - 1 /\ l \in Nat /\ l >= 1
      /\ \A i \in 1 .. Len(t) : t[i] = s[i + 1]
    BY HeadTailProperties, EmptySeq, LenProperties
<1>2. DOMAIN s = 1 .. l /\ DOMAIN t = 1 .. l - 1
    BY <1>1, LenProperties
<1>3. Head(s) = s[1]
    OBVIOUS
<1> HIDE DEF t, l
<1>4. 1 \in DOMAIN s /\ \A i \in DOMAIN t : i + 1 \in DOMAIN s /\ t[i] = s[i + 1]
    BY <1>1, <1>2
<1>5. \A i \in DOMAIN s : i = 1 \/ (i - 1 \in DOMAIN t /\ s[i] = t[i - 1])
    BY <1>1, <1>2
<1>6. Acked(s) /\ Head(s).what # "ACK" => Acked(t)
    BY <1>3, <1>5 DEF Acked
<1>7. OneAck(s) /\ Head(s).what = "NAK" => ~ Acked(s)
    BY <1>3, <1>4 DEF OneAck, Acked, Acks
<1>8. (\A i \in DOMAIN s : s[i].what # "FORCED") =>
         Head(s).what # "FORCED" /\ \A i \in DOMAIN t : t[i].what # "FORCED"
    BY <1>3, <1>4
<1>9. QED
    BY <1>6, <1>7, <1>8 DEF t

(* The packet and its ACK are as they were. *)
LEMMA PacketIsHeard ==
    ASSUME AInv, AInv', RingInv, CountInv, UNCHANGED <<Resw, Type, rsnd_add_cmd, rcvd, down>>,
           InPhase("WAIT_ACK")' = InPhase("WAIT_ACK"), faults <= faults',
           pktctrl'.rtry_cnt = pktctrl.rtry_cnt,
           up # <<>>, Head(up).what \in {"CFG", "RESPONSE"}, up' = up \/ up' = Tail(up)
    PROVE  RingInv' /\ CountInv'
<1>1. up \in Seq(Answers) /\ Head(up).what # "ACK" /\ Arrived' = Arrived
    BY DEF AInv, NetType, Arrived
<1>2. (Acked(up') <=> Acked(up)) /\ \A i \in DOMAIN up' : up'[i].what # "FORCED"
    BY <1>1, AnswersRead, AckTaken DEF RingInv
<1>3. RingInv'
    BY <1>1, <1>2, RingStays
<1>4. Owed' => Owed
    BY <1>2 DEF Owed
<1>5. QED
    BY <1>3, <1>4, CountStays

(* The ACK of the packet: the LCD has the commands of the resend ring, which is cleared. *)
LEMMA AckClears ==
    ASSUME AInv, AInv', LinkInv, RingInv, RcvAck
    PROVE  RingInv' /\ CountInv' /\ rsnd_add_cmd' = <<>> /\ InRing(rsnd_add_cmd) \subseteq Arrived
<1>0. pktctrl \in Control /\ up \in Seq(Answers) /\ faults' \in Nat
    BY Settings DEF AInv, ControlInv, NetType, AuxType
<1>1. /\ Resw /\ up # <<>> /\ up' = Tail(up) /\ Head(up).what \in {"ACK", "FORCED"}
      /\ UNCHANGED <<rcvd, down>> /\ rsnd_add_cmd' = <<>>
    BY DEF RcvAck, Reads, aux, Resw
<1>2. Head(up).what = "ACK" /\ \A i \in DOMAIN up' : up'[i].what # "FORCED"
    BY <1>0, <1>1, AnswersRead DEF RingInv
<1>3. Acked(up) /\ down = <<>> /\ ~ HasAck(up')
    BY <1>0, <1>1, <1>2, ReadsOne DEF LinkInv, Acks
<1>4. InRing(rsnd_add_cmd) \subseteq Arrived /\ ~ Acked(up')
    BY <1>3 DEF RingInv, HasAck, Acked, Acks
<1>5. Type = "S"
    BY <1>0, <1>1, Fields DEF RingInv, Type
<1>6. Type' = "S" /\ ~ Resw' /\ pktctrl'.rtry_cnt = 0
  <2> DEFINE c == [Heard(Got) EXCEPT !.res_wait = FALSE, !.rtry_cnt = 0]
  <2>1. c \in Control /\ c.buf_type = "S" /\ c.res_wait = FALSE /\ c.rtry_cnt = 0
    BY <1>0, <1>5, Settings DEF Heard, Got, Control, Type
  <2>2. ResumedType(c) = "S"
    BY <2>1 DEF ResumedType
  <2>3. \/ pktctrl' = c \/ pktctrl' = [c EXCEPT !.buf_type = "S"]
        \/ pktctrl' = [c EXCEPT !.sent = Wrap(@ + 1), !.reset_req = FALSE, !.buf_type = ResumedType(c)]
    BY DEF RcvAck
  <2> HIDE DEF c
  <2>4. QED
    BY <2>1, <2>2, <2>3 DEF Control, Type, Resw
<1>7. RingInv'
  <2>1. InRing(<<>>) = {}
    BY DEF InRing, Holding
  <2>2. QED
    BY <1>1, <1>2, <1>3, <1>4, <1>6, <2>1 DEF RingInv
<1>8. CountInv'
  <2>1. ~ Owed'
    BY <1>6 DEF Owed
  <2>2. 0 + (IF Owed' THEN 1 ELSE 0) <= faults'
    BY <1>0, <2>1
  <2>3. QED
    BY <1>6, <2>2 DEF CountInv
<1>9. QED
    BY <1>1, <1>4, <1>7, <1>8

LEMMA ReceiveKeepsRing ==
    ASSUME EnoughRetries, AInv, LinkInv, RingInv, CountInv, AInv', Receive \/ RcvGarbled
    PROVE  /\ RingInv' /\ CountInv'
           /\ rsnd_add_cmd' = rsnd_add_cmd \/ (rsnd_add_cmd' = <<>> /\ InRing(rsnd_add_cmd) \subseteq Arrived)
<1>0. /\ pktctrl \in Control /\ CountOK(pktctrl) /\ LogInv /\ LogType /\ up \in Seq(Answers) /\ faults \in Nat
      /\ ControlInv
    BY Settings DEF AInv, ControlInv, LogInv, NetType, AuxType
<1>1. CASE RcvEnd
  <2>1. /\ UNCHANGED <<phase, Resw, Type, rsnd_add_cmd, rcvd, down, up, faults>>
        /\ pktctrl'.rtry_cnt = pktctrl.rtry_cnt
    BY <1>1 DEF RcvEnd, net, aux, Resw, Type
  <2>2. QED
    BY <2>1, PacketStays
<1>2. CASE RcvUnexpected
  <2>1. ~ Resw /\ up # <<>> /\ up' = Tail(up) /\ Head(up).what \in Acks
    BY <1>2 DEF RcvUnexpected, Reads, Acks, Resw
  <2>2. QED
    BY <1>0, <2>1, ReadsOne DEF LinkInv
<1>3. CASE RcvAck
    BY <1>3, AckClears
<1>4. CASE RcvNak
  <2>1. /\ Resw /\ up # <<>> /\ up' = Tail(up) /\ Head(up).what = "NAK"
        /\ UNCHANGED <<rcvd, down, faults>>
    BY <1>4 DEF RcvNak, Reads, aux, Resw
  <2>2. down = <<>> /\ ~ Acked(up)
    BY <1>0, <2>1, ReadsOne, AnswersRead DEF LinkInv, FlightInv, Acks
  <2>3. Owed /\ down' = <<>> /\ ~ Acked(up') /\ \A i \in DOMAIN up' : up'[i].what # "FORCED"
    BY <1>0, <2>1, <2>2, AckTaken, AnswersRead DEF Owed, RingInv
  <2>4. PICK c : /\ c = Retried([Heard(Got) EXCEPT !.res_wait = FALSE])
                 /\ IF Over /\ ~ Persist THEN GiveUp(c, FALSE) ELSE Resend(c)
    BY <1>4 DEF RcvNak
  <2>5. Heard(Got) \in Control /\ CountOK(Heard(Got)) /\ Heard(Got).rtry_cnt = pktctrl.rtry_cnt
    BY <1>0, GotIsOK, HeardIsOK
  <2>6. QED
    BY <2>1, <2>3, <2>4, <2>5, Repeated
<1>5. CASE RcvConfig \/ RcvResponse \/ RcvGarbled
  <2>1. /\ up # <<>> /\ Head(up).what \in {"CFG", "RESPONSE"} /\ up' \in {up, Tail(up)}
        /\ UNCHANGED <<rsnd_add_cmd, rcvd, down>> /\ faults' \in {faults, faults + 1}
    BY <1>5 DEF RcvConfig, RcvResponse, RcvGarbled, Reads, aux, Fault
  <2>2. UNCHANGED <<Resw, Type>> /\ pktctrl'.rtry_cnt = pktctrl.rtry_cnt
    BY <1>0, <1>5 DEF RcvConfig, RcvResponse, RcvGarbled, Heard, Got, Control, Resw, Type
  <2>3. phase' = phase \/ \E S \in SUBSET InPhase("WAIT_RES_CMD") : phase' = InPhaseNow(S, "IDLE")
    <3>1. CASE RcvConfig \/ RcvGarbled
      BY <3>1 DEF RcvConfig, RcvGarbled
    <3>2. CASE RcvResponse
      <4> DEFINE a == Head(up)
                 met == {k \in Cases(KindOf[a.rec]) \cap InPhase("WAIT_RES_CMD") : IdOf[logs[k].read] = IdOf[a.rec]}
      <4>1. phase' = InPhaseNow(met, "IDLE") /\ met \in SUBSET InPhase("WAIT_RES_CMD")
        BY <3>2 DEF RcvResponse
      <4>2. QED
        BY <4>1
    <3>3. QED
      BY <1>5, <3>1, <3>2
  <2>4. InPhase("WAIT_ACK")' = InPhase("WAIT_ACK")
    <3>1. CASE phase' = phase
      BY <3>1 DEF InPhase
    <3>2. ASSUME NEW S \in SUBSET InPhase("WAIT_RES_CMD"), phase' = InPhaseNow(S, "IDLE")
          PROVE  InPhase("WAIT_ACK")' = InPhase("WAIT_ACK")
      <4>1. "IDLE" \in Phases
        BY DEF Phases
      <4>2. \A k \in LogKinds : phase'[k] = IF k \in S THEN "IDLE" ELSE phase[k]
        BY <1>0, <3>2, <4>1, InPhaseNowIs
      <4>3. \A k \in S : phase[k] = "WAIT_RES_CMD"
        BY DEF InPhase
      <4>4. QED
        BY <4>2, <4>3 DEF InPhase
    <3>3. QED
      BY <2>3, <3>1, <3>2
  <2>5. faults <= faults'
    BY <1>0, <2>1
  <2>6. QED
    BY <2>1, <2>2, <2>4, <2>5, PacketIsHeard
<1>6. QED
    BY <1>1, <1>2, <1>3, <1>4, <1>5 DEF Receive

-----------------------------------------------------------------------------
(* Sending. *)

(* A packet goes out while nothing is awaited: it carries what the resend ring then holds. *)
LEMMA PacketSent ==
    ASSUME StaysUp, AInv, AInv', LinkInv, OpenInv, RingInv, CountInv, CanSend,
           NEW c \in {pktctrl, [pktctrl EXCEPT !.buf_type = "S"]}, c.buf_type = "S",
           NEW p, p.cmds = rsnd_add_cmd', Transmit(c, p),
           UNCHANGED <<up, rcvd>>, rsnd_add_cmd' = <<>> \/ InPhase("WAIT_ACK")' = {}
    PROVE  RingInv' /\ CountInv'
<1>0. pktctrl \in Control /\ Sckt = "ESTABLISH" /\ ~ Resw /\ PathInv
    BY DEF CanSend, AInv, ControlInv, LinkInv, Sckt, Resw
<1>1. c \in Control /\ c.sckt = "ESTABLISH" /\ c.rtry_cnt = pktctrl.rtry_cnt
    BY <1>0 DEF Control, Sckt
<1>2. /\ down' = Append(down, p) /\ faults' = faults /\ Resw'
      /\ pktctrl'.buf_type = "S" /\ pktctrl'.rtry_cnt = pktctrl.rtry_cnt
    BY <1>0, <1>1, SentOnOpen
<1>3. down = <<>> /\ ~ HasAck(up)
    BY <1>0 DEF LinkInv, FlightInv, Resw
<1>4. ~ Acked(up') /\ \A i \in DOMAIN up' : up'[i].what # "FORCED"
    BY <1>3 DEF RingInv, HasAck, Acked, Acks
<1>5. down' # <<>> /\ Head(down') = p
    BY <1>2, <1>3
<1>6. RingInv'
    BY <1>2, <1>4, <1>5 DEF RingInv, Type
<1>7. ~ Owed'
    BY <1>5 DEF Owed
<1>8. faults <= faults' /\ (Owed' => Owed)
    BY <1>2, <1>7, Settings DEF AInv, AuxType
<1>9. CountInv'
    BY <1>2, <1>8, CountStays
<1>10. QED
    BY <1>6, <1>9

(* Nothing is awaited, and nothing was repeated. *)
LEMMA RingIsEmpty ==
    ASSUME AInv, LinkInv, OpenInv, RingInv, CanSend
    PROVE  /\ InPhase("WAIT_ACK") = {}
           /\ Type = "A" \/ (Type = "S" /\ rsnd_add_cmd = <<>>)
           /\ \A s \in Seq(Commands) : <<>> \o s = s
<1>0. pktctrl \in Control /\ Sckt = "ESTABLISH" /\ ~ Resw /\ PathInv
    BY DEF CanSend, AInv, ControlInv, LinkInv, Sckt, Resw
<1>1. sock = "open"
    BY <1>0, UpIsOpen
<1>2. InPhase("WAIT_ACK") = {}
    BY <1>0, <1>1 DEF LinkInv, RecordInv, Resw
<1>3. Type = "A" \/ (Type = "S" /\ rsnd_add_cmd = <<>>)
    BY <1>0, Fields DEF RingInv, Type
<1>4. QED
    BY <1>2, <1>3, ConcatEmptySeq

LEMMA SendKeepsRing ==
    ASSUME StaysUp, AInv, LinkInv, OpenInv, RingInv, CountInv, AInv', Send
    PROVE  /\ RingInv' /\ CountInv'
           /\ \/ UNCHANGED <<rsnd_add_cmd, snd_buf>>
              \/ rsnd_add_cmd = <<>> /\ rsnd_add_cmd' = snd_buf /\ snd_buf' = <<>>
<1>0. pktctrl \in Control /\ snd_buf \in Seq(Commands)
    BY DEF AInv, ControlInv, RingType
<1>1. CASE SendNothing
  <2>1. /\ UNCHANGED <<phase, Resw, Type, rsnd_add_cmd, rcvd, down, up, faults, snd_buf>>
        /\ pktctrl'.rtry_cnt = pktctrl.rtry_cnt
    BY <1>1 DEF SendNothing, net, aux, Resw, Type
  <2>2. QED
    BY <2>1, PacketStays
<1>2. CASE SendLog
  <2> DEFINE p == [cmds |-> <<>>, recs |-> {Head(logs[First(Eligible)].unread)}]
  <2>1. CanSend /\ Type # "A" /\ Transmit(pktctrl, p) /\ UNCHANGED <<up, rcvd, rsnd_add_cmd, snd_buf>>
    BY <1>2 DEF SendLog, Eligible, Type
  <2>2. pktctrl.buf_type = "S" /\ rsnd_add_cmd = <<>>
    BY <2>1, RingIsEmpty DEF Type
  <2>3. p.cmds = rsnd_add_cmd'
    BY <2>1, <2>2
  <2> HIDE DEF p
  <2>4. QED
    BY <2>1, <2>2, <2>3, PacketSent
<1>3. CASE SendCommands
  <2>1. CanSend /\ InPhase("WAIT_ACK") = {} /\ UNCHANGED <<phase, up, rcvd>>
    BY <1>3, RingIsEmpty DEF SendCommands
  <2>2. InPhase("WAIT_ACK")' = {}
    BY <2>1 DEF InPhase
  <2>3. /\ rsnd_add_cmd' = NextPacket
        /\ \/ UNCHANGED <<rsnd_add_cmd, snd_buf>>
           \/ rsnd_add_cmd = <<>> /\ rsnd_add_cmd' = snd_buf /\ snd_buf' = <<>>
    <3>1. CASE Type = "A"
      BY <1>3, <3>1 DEF SendCommands, NextPacket, Remaining, Type
    <3>2. CASE Type # "A"
      <4>1. Type = "S" /\ rsnd_add_cmd = <<>> /\ rsnd_add_cmd \o snd_buf = snd_buf
        BY <1>0, <2>1, <3>2, RingIsEmpty
      <4>2. rsnd_add_cmd' = rsnd_add_cmd \o snd_buf /\ snd_buf' = <<>> /\ NextPacket = snd_buf
        BY <1>3, <4>1 DEF SendCommands, NextPacket, Remaining, Type
      <4>3. QED
        BY <4>1, <4>2
    <3>3. QED
      BY <3>1, <3>2
  <2>4. CASE NextPacket # <<>>
    <3> DEFINE c == [pktctrl EXCEPT !.buf_type = "S"]
               p == [cmds |-> NextPacket, recs |-> {}]
    <3>1. Transmit(c, p)
      BY <1>3, <2>4 DEF SendCommands
    <3>2. c.buf_type = "S" /\ p.cmds = rsnd_add_cmd' /\ c \in {pktctrl, [pktctrl EXCEPT !.buf_type = "S"]}
      BY <1>0, <2>3 DEF Control
    <3> HIDE DEF c, p
    <3>3. QED
      BY <2>1, <2>2, <2>3, <3>1, <3>2, PacketSent
  <2>5. CASE NextPacket = <<>>
    <3>1. /\ pktctrl' = [pktctrl EXCEPT !.buf_type = "S", !.sent = pktctrl.commited]
          /\ UNCHANGED <<down, faults>>
      BY <1>3, <2>5 DEF SendCommands
    <3>2. Type' = "S" /\ Resw' = Resw /\ pktctrl'.rtry_cnt = pktctrl.rtry_cnt /\ ~ Resw
      BY <1>0, <2>1, <3>1 DEF Control, Type, Resw, CanSend
    <3>3. down = <<>> /\ ~ HasAck(up)
      BY <3>2 DEF LinkInv, FlightInv, Resw
    <3>4. ~ Acked(up')
      BY <2>1, <3>3 DEF HasAck, Acked, Acks
    <3>5. RingInv'
      BY <2>1, <2>3, <2>5, <3>1, <3>2, <3>3, <3>4 DEF RingInv
    <3>6. faults <= faults' /\ (Owed' => Owed)
      BY <3>1, <3>2, Settings DEF AInv, AuxType, Owed
    <3>7. QED
      BY <2>3, <3>2, <3>5, <3>6, CountStays
  <2>6. QED
    BY <2>4, <2>5
<1>4. QED
    BY <1>1, <1>2, <1>3 DEF Send

-----------------------------------------------------------------------------
(* The LCD, the payment dialogue and the timers. *)

LEMMA AnswerAppended ==
    ASSUME NEW S, NEW s \in Seq(S), NEW a, a.what # "FORCED", \A i \in DOMAIN s : s[i].what # "FORCED"
    PROVE  /\ \A i \in DOMAIN Append(s, a) : Append(s, a)[i].what # "FORCED"
           /\ Acked(s) => Acked(Append(s, a))
<1> DEFINE p == Append(s, a)
           l == Len(s)
<1>1. /\ DOMAIN s = 1 .. l /\ l \in Nat
      /\ DOMAIN p = 1 .. l + 1 /\ p[l + 1] = a
      /\ \A i \in 1 .. l : p[i] = s[i]
    BY LenProperties
<1> HIDE DEF p, l
<1>2. \A i \in DOMAIN s : i \in DOMAIN p /\ p[i] = s[i]
    BY <1>1
<1>3. \A i \in DOMAIN p : p[i] = a \/ (i \in DOMAIN s /\ p[i] = s[i])
    BY <1>1
<1>4. Acked(s) => Acked(p)
    BY <1>2 DEF Acked
<1>5. \A i \in DOMAIN p : p[i].what # "FORCED"
    BY <1>3
<1>6. QED
    BY <1>4, <1>5 DEF p

(* A packet that is refused or lost costs a fault. *)
LEMMA FaultIsPaid ==
    ASSUME AInv, AInv', CountInv, ~ Owed, pktctrl'.rtry_cnt = pktctrl.rtry_cnt, faults' = faults + 1
    PROVE  CountInv'
<1> DEFINE n == pktctrl.rtry_cnt
<1>1. n \in Nat /\ faults \in Nat
    BY Settings, Fields DEF AInv, ControlInv, AuxType
<1>2. n + (IF Owed THEN 1 ELSE 0) <= faults /\ pktctrl'.rtry_cnt = n
    BY DEF CountInv
<1> HIDE DEF n
<1>3. n <= faults
    BY <1>1, <1>2
<1>4. n + (IF Owed' THEN 1 ELSE 0) <= faults'
    BY <1>1, <1>3
<1>5. QED
    BY <1>2, <1>4 DEF CountInv

LEMMA LcdKeepsRing ==
    ASSUME StaysUp, EnoughRetries, AInv, LinkInv, RingInv, CountInv, LineInv, AInv',
           LcdReceive \/ LcdSilent \/ LcdRespond
    PROVE  RingInv' /\ CountInv'
<1>0. /\ faults \in Nat /\ up \in Seq(Answers) /\ jobs \in Seq(Answers)
      /\ UNCHANGED <<phase, pktctrl, rsnd_add_cmd, snd_buf, todo, issued>>
    BY Settings DEF AInv, NetType, AuxType, LcdReceive, LcdSilent, LcdRespond, task
<1>1. UNCHANGED <<Resw, Type, rsnd_add_cmd>> /\ InPhase("WAIT_ACK")' = InPhase("WAIT_ACK")
      /\ pktctrl'.rtry_cnt = pktctrl.rtry_cnt
    BY <1>0 DEF Resw, Type, InPhase
<1>2. CASE LcdRespond
  <2>1. /\ jobs # <<>> /\ UNCHANGED <<down, rcvd>> /\ faults' \in {faults, faults + 1}
    BY <1>2 DEF LcdRespond, Fault
  <2>2. PICK a : up' = Append(up, a) /\ a.what = Head(jobs).what
    <3>1. Head(jobs) \in Answers
      BY <1>0, <2>1, HeadTailProperties
    <3>2. \A n \in 1 .. 2 : [Head(jobs) EXCEPT !.result = n].what = Head(jobs).what
      BY <3>1 DEF Answers
    <3>3. QED
      BY <1>2, <3>2 DEF LcdRespond
  <2>3. a.what \notin Acks
    BY <1>0, <2>1, <2>2, AckTaken DEF LinkInv, FlightInv
  <2>4. (Acked(up') <=> Acked(up)) /\ \A i \in DOMAIN up' : up'[i].what # "FORCED"
    BY <1>0, <2>2, <2>3, AnswerAppended, AckAppended DEF RingInv, Acks
  <2>5. Arrived' = Arrived /\ faults <= faults'
    BY <1>0, <2>1 DEF Arrived
  <2>6. RingInv'
    BY <1>1, <2>1, <2>4, <2>5, RingStays
  <2>7. Owed' => Owed
    BY <1>1, <2>1, <2>4 DEF Owed
  <2>8. QED
    BY <1>1, <2>5, <2>6, <2>7, CountStays
<1>3. CASE LcdReceive \/ LcdSilent
  <2> DEFINE p == Head(down)
  <2>1. down # <<>> /\ down' = Tail(down) /\ down \in Seq(Packets)
    BY <1>3 DEF LcdReceive, LcdSilent, AInv, NetType
  <2>2. down' = <<>> /\ ~ HasAck(up) /\ Resw /\ ~ Owed /\ p.cmds = rsnd_add_cmd
    BY <2>1, HeadTailProperties, EmptySeq DEF LinkInv, FlightInv, Resw, Owed, RingInv
  <2>3. ~ Acked(up)
    BY <2>2 DEF HasAck, Acked, Acks
  <2>4. LcdAccepts(p) => Arrived \subseteq Arrived' /\ InRing(rsnd_add_cmd) \subseteq Arrived'
    BY <1>0, <2>2, LineTaken
  <2>5. ASSUME LcdAccepts(p), up' = Append(up, Answer("ACK")), UNCHANGED faults
        PROVE  RingInv' /\ CountInv'
    <3>1. \A i \in DOMAIN up' : up'[i].what # "FORCED"
      BY <1>0, <2>5, AnswerAppended DEF RingInv, Answer
    <3>2. Acked(up')
      <4>1. Len(up') \in DOMAIN up' /\ up'[Len(up')] = Answer("ACK")
        BY <1>0, <2>5, AppendProperties, LenProperties
      <4>2. QED
        BY <4>1 DEF Acked, Answer
    <3>3. RingInv'
      BY <1>1, <2>2, <2>4, <2>5, <3>1 DEF RingInv
    <3>4. ~ Owed' /\ faults <= faults'
      BY <1>0, <2>5, <3>2 DEF Owed
    <3>5. QED
      BY <1>1, <3>3, <3>4, CountStays
  <2>6. ASSUME up' = up \/ up' = Append(up, Answer("NAK")), faults' = faults + 1
        PROVE  RingInv' /\ CountInv'
    <3>1. \A i \in DOMAIN up' : up'[i].what # "FORCED"
      BY <1>0, <2>6, AnswerAppended DEF RingInv, Answer
    <3>2. ~ Acked(up')
      BY <1>0, <2>3, <2>6, AckAppended DEF Answer
    <3>3. RingInv'
      BY <1>1, <2>2, <3>1, <3>2 DEF RingInv
    <3>4. CountInv'
      BY <1>1, <2>2, <2>6, FaultIsPaid
    <3>5. QED
      BY <3>3, <3>4
  <2>7. \/ LcdAccepts(p) /\ up' = Append(up, Answer("ACK")) /\ UNCHANGED faults
        \/ (up' = up \/ up' = Append(up, Answer("NAK"))) /\ faults' = faults + 1
    BY <1>3 DEF LcdReceive, LcdSilent, Fault, EnoughRetries
  <2>8. QED
    BY <2>5, <2>6, <2>7
<1>4. QED
    BY <1>2, <1>3

LEMMA OthersKeepRing ==
    ASSUME StaysUp, EnoughRetries, AInv, LinkInv, OpenInv, RingInv, CountInv, LineInv, AInv', PathInv',
           Ope \/ Lcd \/ (\E t \in Timers : Expire(t)) \/ UNCHANGED vars
    PROVE  RingInv' /\ CountInv'
<1>0. pktctrl \in Control /\ faults \in Nat /\ PathInv
    BY Settings DEF AInv, ControlInv, AuxType, LinkInv
<1>1. CASE LcdReceive \/ LcdSilent \/ LcdRespond
    BY <1>1, LcdKeepsRing
<1>2. CASE Broken
  <2>1. /\ sock = "opening" /\ UNCHANGED <<phase, pktctrl, rsnd_add_cmd, rcvd>> /\ faults' = faults + 1
        /\ down' = <<>> /\ up' = <<>> /\ jobs' = <<>>
    BY <1>2 DEF Broken, Fault, StaysUp
  <2>2. Sckt = "CONNECTING"
    BY <1>0, <2>1 DEF PathInv, OpeningInv, Sckt
  <2>3. ~ Resw /\ InPhase("WAIT_ACK") = {}
    BY <1>0, <2>2, UpIsOpen
  <2>4. /\ UNCHANGED <<Type, Resw>> /\ pktctrl'.rtry_cnt = pktctrl.rtry_cnt /\ Silence'
        /\ InPhase("WAIT_ACK")' = InPhase("WAIT_ACK") /\ faults <= faults'
    BY <1>0, <2>1 DEF Type, Resw, Silence, InPhase
  <2>5. QED
    BY <2>1, <2>3, <2>4, PacketRests
<1>3. CASE ~ (LcdReceive \/ LcdSilent \/ LcdRespond \/ Broken)
  <2>1. UNCHANGED <<phase, rsnd_add_cmd, rcvd, down, up>> /\ faults' \in {faults, faults + 1}
    BY <1>3 DEF Ope, OpeStarts, LcdStarted, ResetReqFlgSet, SetSendCommand, LogRegist, Lcd, Connected, Expire, Fault,
                vars, task, net, aux
  <2>2. UNCHANGED <<Resw, Type>> /\ pktctrl'.rtry_cnt = pktctrl.rtry_cnt
    BY <1>0, <1>3 DEF Ope, OpeStarts, LcdStarted, ResetReqFlgSet, SetSendCommand, LogRegist, Lcd, Connected, Expire,
                vars, task, Control, Resw, Type
  <2>3. InPhase("WAIT_ACK")' = InPhase("WAIT_ACK") /\ Arrived' = Arrived /\ faults <= faults' /\ (Owed' => Owed)
    BY <1>0, <2>1, <2>2 DEF InPhase, Arrived, Owed
  <2>4. RingInv'
    BY <2>1, <2>2, <2>3, RingStays DEF RingInv
  <2>5. QED
    BY <2>2, <2>3, <2>4, CountStays
<1>4. QED
    BY <1>1, <1>2, <1>3

-----------------------------------------------------------------------------
(* The line of commands, and all of it. *)

LEMMA StepKeepsLine ==
    ASSUME AInv, LinkInv, RingInv, LineInv, [Next]_vars, StaysUp,
           Handlers => rsnd_add_cmd' = rsnd_add_cmd,
           Receive \/ RcvGarbled => \/ rsnd_add_cmd' = rsnd_add_cmd
                                    \/ rsnd_add_cmd' = <<>> /\ InRing(rsnd_add_cmd) \subseteq Arrived,
           Send => \/ UNCHANGED <<rsnd_add_cmd, snd_buf>>
                   \/ rsnd_add_cmd = <<>> /\ rsnd_add_cmd' = snd_buf /\ snd_buf' = <<>>
    PROVE  LineInv'
<1>0. pktctrl \in Control /\ down \in Seq(Packets)
    BY DEF AInv, ControlInv, NetType
<1>1. CASE Handlers
  <2>1. UNCHANGED <<issued, rcvd, todo>>
    BY <1>1 DEF Handlers, SocCon, ConnectTimeout, ConIntvlTimeout, RstPrt, ConResWtTimeout, KeepaliveTimeout, SndPrt,
                LogTimeout, ResWtTimeout, SocRcv, Disconnect, aux
  <2>2. snd_buf' = snd_buf \/ \E x \in {CONFIG, RST_REQ} : snd_buf' = Append(snd_buf, x)
    BY <1>1 DEF Handlers, SocCon, ConnectTimeout, ConIntvlTimeout, RstPrt, ConResWtTimeout, KeepaliveTimeout, SndPrt,
                LogTimeout, ResWtTimeout, SocRcv, Disconnect, Request
  <2>3. QED
    BY <1>1, <2>1, <2>2, LineStays
<1>2. CASE Receive \/ RcvGarbled
  <2>1. UNCHANGED <<issued, rcvd, todo, snd_buf>>
    BY <1>2 DEF Receive, RcvEnd, RcvUnexpected, RcvAck, RcvNak, RcvConfig, RcvResponse, RcvGarbled, Reads, aux
  <2>2. QED
    BY <1>2, <2>1, LineStays, LineCleared
<1>3. CASE Send
  <2>1. UNCHANGED <<issued, rcvd, todo>>
    BY <1>3 DEF Send, SendLog, SendCommands, SendNothing, aux
  <2>2. QED
    BY <1>3, <2>1, LineStays, LineMoved
<1>4. CASE \E x \in Cmds : SetSendCommand(x)
    BY <1>4, LineGrows
<1>5. CASE \E r \in Recs : LogRegist(r)
  <2>1. UNCHANGED <<issued, rcvd, rsnd_add_cmd, snd_buf>> /\ \E r \in Recs : todo' = todo \ {r}
    BY <1>5 DEF LogRegist
  <2>2. Cmds \ todo' = Cmds \ todo
    BY <2>1, LinkAssumption
  <2>3. QED
    BY <2>1, <2>2, LineStays
<1>6. CASE LcdReceive \/ LcdSilent
  <2>1. UNCHANGED <<todo, issued, rsnd_add_cmd, snd_buf>>
    BY <1>6 DEF LcdReceive, LcdSilent, task
  <2>2. (down # <<>> /\ LcdAccepts(Head(down))) \/ UNCHANGED rcvd
    BY <1>6 DEF LcdReceive, LcdSilent
  <2>3. CASE down # <<>> /\ LcdAccepts(Head(down))
    BY <2>1, <2>3, LineTaken DEF RingInv
  <2>4. CASE UNCHANGED rcvd
    BY <2>1, <2>4, LineStays
  <2>5. QED
    BY <2>2, <2>3, <2>4
<1>7. CASE OpeStarts \/ LcdStarted \/ ResetReqFlgSet \/ Connected \/ Broken \/ LcdRespond
              \/ (\E t \in Timers : Expire(t)) \/ UNCHANGED vars
  <2>1. UNCHANGED <<issued, rcvd, todo, rsnd_add_cmd, snd_buf>>
    BY <1>7 DEF OpeStarts, LcdStarted, ResetReqFlgSet, Connected, Broken, LcdRespond, Expire, vars, task, aux
  <2>2. QED
    BY <2>1, LineStays
<1>8. QED
    BY <1>1, <1>2, <1>3, <1>4, <1>5, <1>6, <1>7 DEF Next, PktTask, Ope, Lcd

LEMMA InitIsCmd == Init => CmdInv
<1> SUFFICES ASSUME Init
             PROVE  CmdInv
    OBVIOUS
<1>1. /\ Holding(<<>>) = {} /\ InRing(<<>>) = {} /\ \A q : Ordered(q, <<>>)
      /\ ~ Acked(<<>>) /\ Arrived = {}
    BY DEF Init, Holding, InRing, Ordered, Acked, Arrived
<1>2. OpenInv
    BY <1>1, TimerNames DEF Init, OpenInv, Sckt, Comes, Pending
<1>3. RingInv
    BY <1>1 DEF Init, RingInv, Type
<1>4. CountInv
  <2>1. ~ Owed /\ pktctrl.rtry_cnt = 0 /\ faults = 0
    BY DEF Init, Owed, Resw
  <2>2. 0 + (IF Owed THEN 1 ELSE 0) <= 0
    BY <2>1
  <2>3. QED
    BY <2>1, <2>2 DEF CountInv
<1>5. LineInv
  <2>1. Cmds \ todo = {} /\ issued = <<>> /\ rsnd_add_cmd = <<>> /\ snd_buf = <<>>
    BY DEF Init
  <2>2. InOrder
    BY DEF Init, InOrder
  <2>3. QED
    BY <1>1, <2>1, <2>2 DEF LineInv
<1>6. QED
    BY <1>2, <1>3, <1>4, <1>5 DEF CmdInv

LEMMA StepIsCmd ==
    ASSUME StaysUp, EnoughRetries
    PROVE  AInv /\ LinkInv /\ CmdInv /\ [Next]_vars => CmdInv'
<1> SUFFICES ASSUME AInv, LinkInv, CmdInv, [Next]_vars
             PROVE  CmdInv'
    OBVIOUS
<1>1. Late = {} /\ "shortsend" \notin Faults
    BY DEF StaysUp
<1>2. AInv' /\ LinkInv' /\ PathInv' /\ PathInv
    BY <1>1, StepIsA, StepIsLink DEF LinkInv
<1>3. OpenInv /\ RingInv /\ CountInv /\ LineInv
    BY DEF CmdInv
<1>4. OpenInv'
    BY <1>2, <1>3, HandlersKeepOpen, ReceiveKeepsOpen, SendKeepsOpen, OthersKeepOpen DEF Next, PktTask
<1>5. Handlers => RingInv' /\ CountInv' /\ rsnd_add_cmd' = rsnd_add_cmd
    BY <1>2, <1>3, <1>4, HandlersKeepRing
<1>6. Receive \/ RcvGarbled => /\ RingInv' /\ CountInv'
                               /\ \/ rsnd_add_cmd' = rsnd_add_cmd
                                  \/ rsnd_add_cmd' = <<>> /\ InRing(rsnd_add_cmd) \subseteq Arrived
    BY <1>2, <1>3, ReceiveKeepsRing
<1>7. Send => /\ RingInv' /\ CountInv'
              /\ \/ UNCHANGED <<rsnd_add_cmd, snd_buf>>
                 \/ rsnd_add_cmd = <<>> /\ rsnd_add_cmd' = snd_buf /\ snd_buf' = <<>>
    BY <1>2, <1>3, SendKeepsRing
<1>8. Ope \/ Lcd \/ (\E t \in Timers : Expire(t)) \/ UNCHANGED vars => RingInv' /\ CountInv'
    BY <1>2, <1>3, OthersKeepRing
<1>9. RingInv' /\ CountInv'
    BY <1>5, <1>6, <1>7, <1>8 DEF Next, PktTask
<1>10. LineInv'
    BY <1>3, <1>5, <1>6, <1>7, StepKeepsLine
<1>11. QED
    BY <1>4, <1>9, <1>10 DEF CmdInv

(* With keepalive off and no connection that breaks, no ACK that is forced and fewer *)
(* refusals and losses than a packet is repeated, the LCD sees the commands in the   *)
(* order in which they were set.                                                     *)
THEOREM CommandsInOrder ==
    ASSUME StaysUp, EnoughRetries
    PROVE  Spec => []InOrder
<1>1. CmdInv => InOrder
    BY DEF CmdInv, LineInv
<1>2. AInv /\ LinkInv /\ [Next]_vars => LinkInv'
    BY StepIsLink DEF StaysUp
<1>3. QED
    BY <1>1, <1>2, AlwaysA, InitIsLink, InitIsCmd, StepIsCmd, PTL DEF Spec

(* Under the same conditions a command stays in the send or in the resend ring until *)
(* the LCD received it.                                                              *)
THEOREM CommandsKept ==
    ASSUME StaysUp, EnoughRetries
    PROVE  Spec => []CommandKept
<1>1. CmdInv => CommandKept
    BY DEF CmdInv, LineInv, CommandKept, InRing
<1>2. AInv /\ LinkInv /\ [Next]_vars => LinkInv'
    BY StepIsLink DEF StaysUp
<1>3. QED
    BY <1>1, <1>2, AlwaysA, InitIsLink, InitIsCmd, StepIsCmd, PTL DEF Spec
=============================================================================
