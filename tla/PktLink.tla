------------------------------ MODULE PktLink ------------------------------
(***************************************************************************)
(* The session of the packet task with the LCD board (pkt/pkttask.c):      *)
(* connecting, sending commands and log records, the answers and retries,  *)
(* keepalive, and recovery.                                                *)
(*                                                                         *)
(* The task takes a message from its mailbox, handles it, reading packets  *)
(* while there are any, and then runs its send section.  These are three   *)
(* places where it lets other tasks run.  Timers send messages.  One       *)
(* packet waits for its ACK or NAK at a time.  A log record is read        *)
(* without being consumed (void read); it is consumed when the response to *)
(* it arrives.  The command rings are sequences here (PktBuffer has the    *)
(* bytes), the LCD board is external: it acknowledges packets, answers a   *)
(* configuration request and every log record, and can fail.               *)
(***************************************************************************)
EXTENDS Integers, Sequences, FiniteSets

CONSTANTS
    Kinds,          \* the log kinds in use, in the order the send section tries them
    PAY, RECEIPT, QR, LANE,   \* all log kinds
    Recs,           \* log records
    KindOf, IdOf,   \* kind of a record, and the id it is answered with
    Cmds,           \* commands of the payment dialogue, each set once
    CONFIG, RST_REQ,          \* configuration request (keepalive), request to reset the LCD
    snd_rtry_cnt, rcv_rtry_cnt, rsnd_rtry_ov,   \* settings of the link
    kpalv_snd_intvl, kpalv_rtry_cnt,
    SENT_MAX,       \* where the counts of packets wrap (9999)
    Late,           \* timers that can run out while the answer is on its way, at the cost of a fault
    Faults,         \* what can go wrong
    MAX_FAULTS,     \* how often
    NONE

AllKinds == {PAY, RECEIPT, QR, LANE}
LogKinds == {Kinds[i] : i \in DOMAIN Kinds}
Commands == Cmds \cup {CONFIG, RST_REQ}
FaultKinds == {"break", "refuse", "nosocket", "shortsend", "nak", "forced", "silent", "ng", "garble", "reset"}

ASSUME LinkAssumption ==
    /\ Kinds \in Seq(AllKinds)
    /\ \A i, j \in DOMAIN Kinds : Kinds[i] = Kinds[j] => i = j
    /\ KindOf \in [Recs -> LogKinds]
    /\ DOMAIN IdOf = Recs
    /\ {CONFIG, RST_REQ} \cap Cmds = {} /\ CONFIG # RST_REQ /\ Cmds \cap Recs = {}
    /\ rsnd_rtry_ov \in BOOLEAN
    /\ {snd_rtry_cnt, rcv_rtry_cnt, kpalv_snd_intvl, kpalv_rtry_cnt, MAX_FAULTS} \subseteq Nat
    /\ SENT_MAX \in Nat \ {0}
    /\ Faults \subseteq FaultKinds

(* Messages of the mailbox; a timer is named by the message it sends. *)
Plain == {<<m, NONE>> : m \in {"SOC_CON", "SOC_RCV", "SND_PRT", "RST_PRT"}}
CONNECT == <<"CONNECT", NONE>>
CON_INTVL == <<"CON_INTVL", NONE>>
CON_RES_WT == <<"CON_RES_WT", NONE>>
RES_WT == <<"RES_WT", NONE>>
KEEPALIVE == <<"KEEPALIVE", NONE>>
RES(k) == <<"RES", k>>          \* waiting for the response to a log record
RESND(k) == <<"RESND", k>>      \* waiting before a refused record is sent again
Timers == {CONNECT, CON_INTVL, CON_RES_WT, RES_WT, KEEPALIVE}
             \cup {RES(k) : k \in AllKinds} \cup {RESND(k) : k \in AllKinds}
Waking == {CONNECT, CON_INTVL, CON_RES_WT, RES_WT, KEEPALIVE}
SOC_CON == <<"SOC_CON", NONE>>
SOC_RCV == <<"SOC_RCV", NONE>>
SND_PRT == <<"SND_PRT", NONE>>
RST_PRT == <<"RST_PRT", NONE>>

VARIABLES
    pc,       \* "wait", "recv" or "send": where the task is
    box,      \* its mailbox
    timers,   \* running timers
    pktctrl,  \* its control block
    phase,    \* RT_LogSend, RECEIPT_LogSend, QR_LogSend, LANE_LogSend
    logs,     \* per kind: unread records, void_read, id of the record read last
    snd_buf, rsnd_add_cmd,    \* commands in the send and in the resend ring
    sock,     \* PKT_Socket and the state of its connection
    down, up, \* packets on their way to and from the LCD
    jobs,     \* external: responses the LCD has still to send
    todo,     \* commands and records the payment dialogue has still to issue
    issued,   \* auxiliary: commands in the order in which they were set
    rcvd,     \* auxiliary: for a command the LCD received, the commands received no later
    taken,    \* auxiliary: records the LCD received
    faults    \* how often something went wrong

task == <<pc, box, timers, pktctrl, phase, logs, snd_buf, rsnd_add_cmd>>
net  == <<sock, down, up, jobs>>
aux  == <<todo, issued, rcvd, taken, faults>>
vars == <<task, net, aux>>

Packets == [cmds : Seq(Commands), recs : SUBSET Recs]
Answers == [what : {"ACK", "FORCED", "NAK", "CFG"}, rec : {NONE}, result : {0}]
             \cup [what : {"RESPONSE"}, rec : Recs, result : 0 .. 2]

Control == [sckt : {"DISCONNECT", "CONNECTING", "ESTABLISH"}, buf_type : {"S", "A"},
            res_wait : BOOLEAN, rtry_cnt : 0 .. snd_rtry_cnt,
            sent : Nat, commited : 0 .. SENT_MAX,
            keepalive_timer : 0 .. kpalv_snd_intvl, keepalive : 0 .. kpalv_rtry_cnt + 1,
            usNackRetryNum : Nat, start_up : {0, 1, 2}, reset_req : BOOLEAN]
Phases == {"IDLE", "WAIT_ACK", "RESEND_CANCEL", "WAIT_RES_CMD"}
Logs == [unread : Seq(Recs), void_read : {0, 1}, read : Recs \cup {NONE}]

TypeOK ==
    /\ pc \in {"wait", "recv", "send"}
    /\ box \in Seq(Plain \cup Timers)
    /\ timers \subseteq Timers
    /\ pktctrl \in Control
    /\ phase \in [LogKinds -> Phases]
    /\ logs \in [LogKinds -> Logs]
    /\ snd_buf \in Seq(Commands) /\ rsnd_add_cmd \in Seq(Commands)
    /\ sock \in {"none", "opening", "open", "dead"}
    /\ down \in Seq(Packets) /\ up \in Seq(Answers) /\ jobs \in Seq(Answers)
    /\ todo \subseteq Cmds \cup Recs
    /\ issued \in Seq(Cmds) /\ rcvd \in [Cmds -> SUBSET Cmds] /\ taken \subseteq Recs
    /\ faults \in 0 .. MAX_FAULTS

Init ==
    /\ pc = "wait" /\ box = <<>> /\ timers = {CONNECT}
    /\ pktctrl = [sckt |-> "DISCONNECT", buf_type |-> "S", res_wait |-> FALSE, rtry_cnt |-> 0,
                  sent |-> 0, commited |-> 0, keepalive_timer |-> 0, keepalive |-> 0,
                  usNackRetryNum |-> 0, start_up |-> 0, reset_req |-> FALSE]
    /\ phase = [k \in LogKinds |-> "IDLE"]
    /\ logs = [k \in LogKinds |-> [unread |-> <<>>, void_read |-> 0, read |-> NONE]]
    /\ snd_buf = <<>> /\ rsnd_add_cmd = <<>>
    /\ sock = "none" /\ down = <<>> /\ up = <<>> /\ jobs = <<>>
    /\ todo = Cmds \cup Recs
    /\ issued = <<>> /\ rcvd = [c \in Cmds |-> {}] /\ taken = {} /\ faults = 0

-----------------------------------------------------------------------------
InPhase(p) == {k \in LogKinds : phase[k] = p}

(* The kind an if / else if chain over the kinds finds first. *)
First(S) == Kinds[CHOOSE i \in DOMAIN Kinds :
                     Kinds[i] \in S /\ \A j \in 1 .. i - 1 : Kinds[j] \notin S]

Undone_Skips(S) == [k \in LogKinds |-> IF k \in S /\ logs[k].void_read = 1
                                       THEN [logs[k] EXCEPT !.unread = Tail(@), !.void_read = 0]
                                       ELSE logs[k]]

(* Ope_Log_UndoTargetDataVoidRead: the record is unread again. *)
Undone(S) == [k \in LogKinds |-> IF k \in S THEN [logs[k] EXCEPT !.void_read = 0] ELSE logs[k]]

(* Ope_Log_TargetVoidReadPointerUpdate: the void read record is sent. *)
Consumed(S) ==
    [k \in LogKinds |->
        IF k \in S /\ logs[k].void_read = 1
        THEN [logs[k] EXCEPT !.unread = Tail(@), !.void_read = 0] ELSE logs[k]]

InPhaseNow_OneKind(S, p) ==
    [k \in LogKinds |-> IF k \in S /\ k = First(S) THEN p ELSE phase[k]]
InPhaseNow(S, p) == [k \in LogKinds |-> IF k \in S THEN p ELSE phase[k]]

(* Take the next message, which is m. *)
Handle(m) == pc = "wait" /\ box # <<>> /\ Head(box) = m

(* PKTcmd_request_config *)
Request == IF pktctrl.reset_req THEN RST_REQ ELSE CONFIG

(* The timer an ACK starts, and the one a forced ACK cancels.  For LANE the *)
(* code names the timer of QR.                                              *)
AckTimer(k) == IF k = LANE THEN RES(QR) ELSE RES(k)

Wrap_Never(n) == n
Wrap(n) == IF n > SENT_MAX THEN 0 ELSE n

Fault(f) == f \in Faults /\ faults < MAX_FAULTS /\ faults' = faults + 1

-----------------------------------------------------------------------------
(* Connecting. *)

SocCon ==
    /\ Handle(SOC_CON)
    /\ pc' = "send"
    /\ box' = Append(Tail(box), SND_PRT)
    /\ snd_buf' = Append(snd_buf, Request)
    /\ timers' = (timers \ {CON_RES_WT, RES_WT}) \cup {KEEPALIVE}
    /\ pktctrl' = [pktctrl EXCEPT !.sckt = "ESTABLISH", !.res_wait = FALSE,
                                  !.keepalive_timer = 0, !.keepalive = 0]
    /\ UNCHANGED <<phase, logs, rsnd_add_cmd, net, aux>>

(* A socket is opened, after an old one is closed, unless a connection is being *)
(* made; there may be no socket, or the request for the connection may fail.    *)
OpenSocket ==
    \/ /\ pktctrl.sckt = "CONNECTING"
       /\ UNCHANGED <<timers, pktctrl, net, faults>>
    \/ /\ pktctrl.sckt # "CONNECTING"
       /\ down' = <<>> /\ up' = <<>> /\ jobs' = <<>>
       /\ \/ /\ sock' = "opening"
             /\ pktctrl' = [pktctrl EXCEPT !.sckt = "CONNECTING"]
             /\ timers' = timers \cup {CON_RES_WT}
             /\ UNCHANGED faults
          \/ /\ Fault("nosocket")
             /\ sock' \in {"none", "dead"}
             /\ timers' = timers \cup {CON_INTVL}
             /\ UNCHANGED pktctrl

ConnectTimeout ==
    /\ Handle(CONNECT)
    /\ box' = Tail(box)
    /\ \/ /\ pktctrl.start_up < 1
          /\ timers' = timers \cup {CONNECT}
          /\ UNCHANGED <<pktctrl, net, faults>>
       \/ pktctrl.start_up >= 1 /\ OpenSocket
    /\ UNCHANGED <<pc, phase, logs, snd_buf, rsnd_add_cmd, todo, issued, rcvd, taken>>

ConIntvlTimeout ==
    /\ Handle(CON_INTVL)
    /\ box' = Tail(box)
    /\ OpenSocket
    /\ UNCHANGED <<pc, phase, logs, snd_buf, rsnd_add_cmd, todo, issued, rcvd, taken>>

Reconnecting_NoInterval ==
    timers \ ({KEEPALIVE, RES_WT} \cup {RES(k) : k \in LogKinds} \cup {RESND(k) : k \in AllKinds})

(* The timers behind a disconnection: all that awaits an answer is stopped. *)
Reconnecting ==
    (timers \ ({KEEPALIVE} \cup (IF pktctrl.res_wait THEN {RES_WT} ELSE {})
                  \cup {RES(k) : k \in InPhase("WAIT_RES_CMD")}
                  \cup {RESND(k) : k \in AllKinds})) \cup {CON_INTVL}

(* The part the reset request and the connection time-out share: answers are *)
(* no longer awaited, log records are unread again, the socket is closed.    *)
Disconnect ==
    LET busy == LogKinds \ InPhase("IDLE")
    IN  /\ box' = Tail(box)
        /\ timers' = Reconnecting
        /\ logs' = Undone(busy)
        /\ phase' = InPhaseNow(busy, "IDLE")
        /\ sock' = "none" /\ down' = <<>> /\ up' = <<>> /\ jobs' = <<>>
        /\ UNCHANGED <<pc, snd_buf, rsnd_add_cmd, aux>>

RstPrt ==
    /\ Handle(RST_PRT)
    /\ Disconnect
    /\ pktctrl' = [pktctrl EXCEPT !.sckt = "DISCONNECT", !.res_wait = FALSE,
                                  !.start_up = IF @ >= 2 THEN 1 ELSE @]

ConResWtTimeout ==
    /\ Handle(CON_RES_WT)
    /\ Disconnect
    /\ pktctrl' = [pktctrl EXCEPT !.sckt = "DISCONNECT", !.res_wait = FALSE]

(* Keepalive: every second; a configuration request when the interval is over. *)
KeepaliveTimeout ==
    /\ Handle(KEEPALIVE)
    /\ \/ /\ pktctrl.reset_req
          /\ snd_buf' = Append(snd_buf, RST_REQ)
          /\ box' = Append(Tail(box), SND_PRT)
          /\ timers' = timers \cup {KEEPALIVE}
          /\ pktctrl' = [pktctrl EXCEPT !.keepalive_timer = 0, !.keepalive = 0]
          /\ pc' = "send"
          /\ UNCHANGED rsnd_add_cmd
       \/ LET due == kpalv_snd_intvl > 0 /\ pktctrl.keepalive_timer + 1 >= kpalv_snd_intvl
              over == pktctrl.keepalive > kpalv_rtry_cnt
          IN  /\ ~ pktctrl.reset_req
              /\ \/ /\ due /\ ~ over
                    /\ snd_buf' = Append(snd_buf, CONFIG)
                    /\ box' = Append(Tail(box), SND_PRT)
                    /\ timers' = timers \cup {KEEPALIVE}
                    /\ pktctrl' = [pktctrl EXCEPT !.keepalive_timer = 0, !.keepalive = @ + 1]
                    /\ UNCHANGED <<pc, rsnd_add_cmd>>
                 \/ /\ due /\ over
                    /\ box' = Append(Tail(box), RST_PRT)
                    /\ rsnd_add_cmd' = <<>>
                    /\ pktctrl' = [pktctrl EXCEPT !.keepalive_timer = @ + 1, !.keepalive = 0]
                    /\ timers' = timers \ {KEEPALIVE}
                    /\ UNCHANGED <<pc, snd_buf>>
                 \/ /\ ~ due
                    /\ box' = Tail(box)
                    /\ timers' = timers \cup {KEEPALIVE}
                    /\ pktctrl' = [pktctrl EXCEPT !.keepalive_timer =
                                                     IF kpalv_snd_intvl > 0 THEN @ + 1 ELSE @]
                    /\ pc' = "send"
                    /\ UNCHANGED <<snd_buf, rsnd_add_cmd>>
    /\ UNCHANGED <<phase, logs, net, aux>>

SndPrt ==
    /\ Handle(SND_PRT)
    /\ box' = Tail(box)
    /\ pktctrl' = IF pktctrl.commited = pktctrl.sent
                  THEN [pktctrl EXCEPT !.commited = Wrap(@ + 1)] ELSE pktctrl
    /\ pc' = "send"
    /\ UNCHANGED <<timers, phase, logs, snd_buf, rsnd_add_cmd, net, aux>>

(* Time-outs of the log transfer: the wait for a response is just started again. *)
LogTimeout ==
    /\ \/ \E k \in AllKinds :
             /\ Handle(RES(k))
             /\ IF k \in InPhase("WAIT_RES_CMD")
                THEN timers' = timers \cup {RES(k)} /\ pc' = "send"
                ELSE UNCHANGED <<timers, pc>>
       \/ \E k \in AllKinds : Handle(RESND(k)) /\ pc' = "send" /\ UNCHANGED timers
    /\ box' = Tail(box)
    /\ UNCHANGED <<pktctrl, phase, logs, snd_buf, rsnd_add_cmd, net, aux>>

-----------------------------------------------------------------------------
(* Retries after a NAK or a time-out; c is the control block so far. *)

(* Send it again: a log record is read again, commands come from the resend ring. *)
Resend(c) ==
    /\ IF InPhase("WAIT_ACK") # {}
       THEN LET k == First(InPhase("WAIT_ACK"))
            IN  /\ logs' = Undone({k})
                /\ phase' = [phase EXCEPT ![k] = "IDLE"]
                /\ pktctrl' = [c EXCEPT !.buf_type = "S"]
       ELSE pktctrl' = [c EXCEPT !.buf_type = "A"] /\ UNCHANGED <<logs, phase>>
    /\ UNCHANGED rsnd_add_cmd

(* Log records that stood back for other commands are sent again. *)
Resumed_Never == phase
Resumed == IF InPhase("RESEND_CANCEL") = {} THEN phase
           ELSE [phase EXCEPT ![First(InPhase("RESEND_CANCEL"))] = "IDLE"]
ResumedType(c) == IF InPhase("RESEND_CANCEL") = {} THEN c.buf_type ELSE "S"

(* Give it up: a log record stands back, commands count as sent.  The count is *)
(* not wrapped here, as it is behind an ACK.                                  *)
GiveUp(c, undo) ==
    /\ rsnd_add_cmd' = <<>>
    /\ IF InPhase("WAIT_ACK") # {}
       THEN LET k == First(InPhase("WAIT_ACK"))
            IN  /\ phase' = [phase EXCEPT ![k] = "RESEND_CANCEL"]
                /\ logs' = IF undo THEN Undone({k}) ELSE logs
                /\ pktctrl' = c
       ELSE /\ phase' = Resumed
            /\ pktctrl' = [c EXCEPT !.sent = @ + 1, !.buf_type = ResumedType(c)]
            /\ UNCHANGED logs

Over_Early == pktctrl.rtry_cnt + 2 > snd_rtry_cnt
Over == pktctrl.rtry_cnt + 1 > snd_rtry_cnt
(* PKTbuf_CheckReSendCommand: a packet that begins with a configuration request *)
(* is not repeated for ever.                                                    *)
Persist == /\ InPhase("WAIT_ACK") = {}
           /\ rsnd_rtry_ov
           /\ rsnd_add_cmd = <<>> \/ Head(rsnd_add_cmd) # CONFIG

Retried(c) == [c EXCEPT !.rtry_cnt = IF Over THEN 0 ELSE @ + 1]

ResWtTimeout ==
    /\ Handle(RES_WT)
    /\ box' = Tail(box)
    /\ IF pktctrl.res_wait
       THEN LET c == Retried([pktctrl EXCEPT !.res_wait = FALSE])
            IN  /\ IF Over /\ ~ Persist THEN GiveUp(c, TRUE) ELSE Resend(c)
                /\ pc' = "send"
       ELSE UNCHANGED <<pc, pktctrl, phase, logs, rsnd_add_cmd>>
    /\ UNCHANGED <<timers, snd_buf, net, aux>>

-----------------------------------------------------------------------------
(* Receiving: PktTcpRecv and PKTrcv_Receive_Packet. *)

SocRcv ==
    /\ Handle(SOC_RCV)
    /\ box' = Tail(box)
    /\ pc' = "recv"
    /\ UNCHANGED <<timers, pktctrl, phase, logs, snd_buf, rsnd_add_cmd, net, aux>>

(* Nothing more to read; an error of the socket asks for a reset. *)
RcvEnd ==
    /\ pc = "recv" /\ (up = <<>> \/ sock # "open")
    /\ pc' = "send"
    /\ box' = IF sock \in {"none", "dead"} THEN Append(box, RST_PRT) ELSE box
    /\ UNCHANGED <<timers, pktctrl, phase, logs, snd_buf, rsnd_add_cmd, net, aux>>

(* The next packet is p. *)
Reads(what) ==
    /\ pc = "recv" /\ sock = "open" /\ up # <<>> /\ Head(up).what \in what
    /\ up' = Tail(up)
    /\ UNCHANGED <<pc, sock, down, jobs, aux>>

(* Data that can be read shows that the connection is there. *)
Got == [pktctrl EXCEPT !.sckt = "ESTABLISH"]
Heard(c) == [c EXCEPT !.keepalive_timer = 0]

(* Answers nobody waits for are dropped. *)
RcvUnexpected ==
    /\ ~ pktctrl.res_wait
    /\ Reads({"ACK", "FORCED", "NAK"})
    /\ pktctrl' = Got
    /\ UNCHANGED <<box, timers, phase, logs, snd_buf, rsnd_add_cmd>>

Normal_Forced(a) == a.what \in {"ACK", "FORCED"}
Normal(a) == a.what = "ACK"

(* A forced ACK does not discard a log record: it is sent again. *)
RcvAck ==
    /\ pktctrl.res_wait
    /\ Reads({"ACK", "FORCED"})
    /\ LET c == [Heard(Got) EXCEPT !.res_wait = FALSE, !.rtry_cnt = 0]
           k == First(InPhase("WAIT_ACK"))
           heard == (timers \ {RES_WT}) \cup {KEEPALIVE}
       IN  \/ /\ InPhase("WAIT_ACK") # {} /\ Normal(Head(up))
              /\ phase' = [phase EXCEPT ![k] = "WAIT_RES_CMD"]
              /\ timers' = heard \cup {AckTimer(k)}
              /\ pktctrl' = c
              /\ UNCHANGED logs
           \/ /\ InPhase("WAIT_ACK") # {} /\ ~ Normal(Head(up))
              /\ phase' = [phase EXCEPT ![k] = "IDLE"]
              /\ logs' = Undone({k})
              /\ timers' = heard
              /\ pktctrl' = [c EXCEPT !.buf_type = "S"]
           \/ /\ InPhase("WAIT_ACK") = {}
              /\ phase' = Resumed
              /\ timers' = heard
              /\ pktctrl' = [c EXCEPT !.sent = Wrap(@ + 1), !.reset_req = FALSE,
                                      !.buf_type = ResumedType(c)]
              /\ UNCHANGED logs
    /\ rsnd_add_cmd' = <<>>
    /\ box' = Append(box, SND_PRT)
    /\ UNCHANGED snd_buf

RcvNak ==
    /\ pktctrl.res_wait
    /\ Reads({"NAK"})
    /\ timers' = (timers \ {RES_WT}) \cup {KEEPALIVE}
    /\ LET c == Retried([Heard(Got) EXCEPT !.res_wait = FALSE])
       IN  IF Over /\ ~ Persist THEN GiveUp(c, FALSE) /\ UNCHANGED box
           ELSE Resend(c) /\ box' = Append(box, SND_PRT)
    /\ UNCHANGED snd_buf

RcvConfig_StillCounting ==
    /\ Reads({"CFG"})
    /\ timers' = timers \cup {KEEPALIVE}
    /\ pktctrl' = [Heard(Got) EXCEPT !.usNackRetryNum = 0]
    /\ UNCHANGED <<box, phase, logs, snd_buf, rsnd_add_cmd>>
RcvConfig ==
    /\ Reads({"CFG"})
    /\ timers' = timers \cup {KEEPALIVE}
    /\ pktctrl' = [Heard(Got) EXCEPT !.usNackRetryNum = 0, !.keepalive = 0]
    /\ UNCHANGED <<box, phase, logs, snd_buf, rsnd_add_cmd>>

(* The kinds the switch over the response of a kind gets to: RECEIPT has no break. *)
Cases(k) == IF k = RECEIPT THEN {RECEIPT, QR} ELSE {k}

(* The results with which a record counts as sent. *)
Settling(k) == IF k \in {QR, LANE} THEN {0, 1} ELSE {0}

(* The response to a log record: compared with the id of the record read last. *)
RcvResponse ==
    /\ Reads({"RESPONSE"})
    /\ LET a == Head(up)
           met == {k \in Cases(KindOf[a.rec]) \cap InPhase("WAIT_RES_CMD") :
                      IdOf[logs[k].read] = IdOf[a.rec]}
           done == {k \in met : a.result \in Settling(k)}
       IN  /\ logs' = [k \in LogKinds |-> IF k \in done THEN Consumed(done)[k] ELSE Undone(met)[k]]
           /\ phase' = InPhaseNow(met, "IDLE")
           /\ timers' = (timers \ {RES(k) : k \in met})
                           \cup {RESND(k) : k \in met \ done} \cup {KEEPALIVE}
    /\ pktctrl' = [Heard(Got) EXCEPT !.usNackRetryNum = 0]
    /\ UNCHANGED <<box, snd_buf, rsnd_add_cmd>>

-----------------------------------------------------------------------------
(* Sending: the part of the main loop behind the switch. *)

CanSend_NoWait == pktctrl.sckt = "ESTABLISH"
CanSend == pktctrl.sckt = "ESTABLISH" /\ ~ pktctrl.res_wait

Eligible ==
    IF pktctrl.start_up >= 2 /\ pktctrl.buf_type # "A"
    THEN {k \in InPhase("IDLE") : logs[k].unread # <<>> /\ RESND(k) \notin timers}
    ELSE {}

(* pkt_send_start: wait for the answer, or ask for a reset if sending fails. *)
Transmit(c, p) ==
    LET alive == IF kpalv_snd_intvl > 0 THEN timers \cup {KEEPALIVE} ELSE timers \ {KEEPALIVE}
        d == IF kpalv_snd_intvl > 0 THEN Heard(c) ELSE c
    IN  \/ /\ sock = "open"
           /\ down' = Append(down, p)
           /\ timers' = alive \cup {RES_WT}
           /\ pktctrl' = [d EXCEPT !.res_wait = TRUE]
           /\ UNCHANGED <<box, faults>>
        \/ /\ \/ sock # "open" /\ UNCHANGED faults
              \/ /\ sock = "open" /\ "shortsend" \in Faults /\ faults < MAX_FAULTS
                 /\ faults' = faults + 1
           /\ box' = Append(box, RST_PRT)
           /\ timers' = alive
           /\ pktctrl' = d
           /\ UNCHANGED down

SendLog ==
    /\ pc = "send" /\ CanSend /\ Eligible # {}
    /\ LET k == First(Eligible)
           r == Head(logs[k].unread)
       IN  /\ logs' = [logs EXCEPT ![k].void_read = 1, ![k].read = r]
           /\ phase' = [phase EXCEPT ![k] = "WAIT_ACK"]
           /\ Transmit(pktctrl, [cmds |-> <<>>, recs |-> {r}])
    /\ pc' = "wait"
    /\ UNCHANGED <<snd_buf, rsnd_add_cmd, sock, up, jobs, todo, issued, rcvd, taken>>

(* The commands of the next packet, and those the send ring keeps. *)
NextPacket == IF pktctrl.buf_type = "A" THEN rsnd_add_cmd ELSE snd_buf
Remaining_None == <<>>
Remaining == IF pktctrl.buf_type = "A" THEN snd_buf ELSE <<>>

SendCommands ==
    /\ pc = "send" /\ CanSend /\ Eligible = {}
    /\ pktctrl.sent # pktctrl.commited
    /\ IF NextPacket # <<>>
       THEN Transmit([pktctrl EXCEPT !.buf_type = "S"], [cmds |-> NextPacket, recs |-> {}])
       ELSE /\ pktctrl' = [pktctrl EXCEPT !.buf_type = "S", !.sent = pktctrl.commited]
            /\ UNCHANGED <<box, timers, down, faults>>
    /\ rsnd_add_cmd' = IF pktctrl.buf_type = "A" THEN rsnd_add_cmd ELSE rsnd_add_cmd \o snd_buf
    /\ snd_buf' = Remaining
    /\ pc' = "wait"
    /\ UNCHANGED <<phase, logs, sock, up, jobs, todo, issued, rcvd, taken>>

SendNothing ==
    /\ pc = "send"
    /\ ~ CanSend \/ (Eligible = {} /\ pktctrl.sent = pktctrl.commited)
    /\ pc' = "wait"
    /\ UNCHANGED <<box, timers, pktctrl, phase, logs, snd_buf, rsnd_add_cmd, net, aux>>

-----------------------------------------------------------------------------
(* The payment dialogue: its initialisation, commands, log records, the LCD's *)
(* report that it started, and the wish to reset the LCD.                     *)

OpeStarts ==
    /\ pktctrl.start_up = 0
    /\ pktctrl' = [pktctrl EXCEPT !.start_up = 1]
    /\ UNCHANGED <<pc, box, timers, phase, logs, snd_buf, rsnd_add_cmd, net, aux>>

LcdStarted ==
    /\ pktctrl.start_up = 1 /\ sock = "open"
    /\ pktctrl' = [pktctrl EXCEPT !.start_up = 2]
    /\ UNCHANGED <<pc, box, timers, phase, logs, snd_buf, rsnd_add_cmd, net, aux>>

SetSendCommand(c) ==
    /\ c \in Cmds \cap todo
    /\ todo' = todo \ {c} /\ issued' = Append(issued, c)
    /\ snd_buf' = Append(snd_buf, c)
    /\ box' = Append(box, SND_PRT)
    /\ UNCHANGED <<pc, timers, pktctrl, phase, logs, rsnd_add_cmd, net,
                   rcvd, taken, faults>>

LogRegist(r) ==
    /\ r \in Recs \cap todo
    /\ todo' = todo \ {r}
    /\ logs' = [logs EXCEPT ![KindOf[r]].unread = Append(@, r)]
    /\ UNCHANGED <<pc, box, timers, pktctrl, phase, snd_buf, rsnd_add_cmd, net,
                   issued, rcvd, taken, faults>>

(* The LCD did not report in time. *)
ResetReqFlgSet ==
    /\ Fault("reset") /\ ~ pktctrl.reset_req
    /\ pktctrl' = [pktctrl EXCEPT !.reset_req = TRUE]
    /\ UNCHANGED <<pc, box, timers, phase, logs, snd_buf, rsnd_add_cmd, net,
                   todo, issued, rcvd, taken>>

-----------------------------------------------------------------------------
(* The timer handler, the TCP stack and the LCD. *)

Quiet == pc = "wait" /\ box = <<>> /\ down = <<>> /\ up = <<>> /\ jobs = <<>> /\ sock # "opening"

Expire(t) ==
    /\ t \in timers
    /\ \/ Quiet /\ UNCHANGED faults
       \/ t \in Late /\ ~ Quiet /\ faults < MAX_FAULTS /\ faults' = faults + 1
    /\ timers' = timers \ {t}
    /\ box' = Append(box, t)
    /\ UNCHANGED <<pc, pktctrl, phase, logs, snd_buf, rsnd_add_cmd, net,
                   todo, issued, rcvd, taken>>

(* Callbacks of the socket: PktSocCbk. *)
Connected ==
    /\ sock = "opening"
    /\ sock' = "open"
    /\ box' = Append(box, SOC_CON)
    /\ UNCHANGED <<pc, timers, pktctrl, phase, logs, snd_buf, rsnd_add_cmd, down, up, jobs, aux>>

(* The connection is refused, or is closed or reset by the LCD. *)
Broken ==
    /\ \/ sock = "opening" /\ Fault("refuse")
       \/ sock = "open" /\ Fault("break")
    /\ sock' = "dead" /\ down' = <<>> /\ up' = <<>> /\ jobs' = <<>>
    /\ box' = Append(box, RST_PRT)
    /\ UNCHANGED <<pc, timers, pktctrl, phase, logs, snd_buf, rsnd_add_cmd,
                   todo, issued, rcvd, taken>>

Answer(what) == [what |-> what, rec |-> NONE, result |-> 0]

Arrived == {c \in Cmds : rcvd[c] # {}}

(* The commands of a packet that are not behind c. *)
UpTo(c, cmds) == {d \in Cmds : \E i, j \in DOMAIN cmds : i <= j /\ cmds[i] = d /\ cmds[j] = c}

LcdAccepts(p) ==
    /\ rcvd' = [c \in Cmds |-> IF c \in Arrived \/ UpTo(c, p.cmds) = {} THEN rcvd[c]
                               ELSE Arrived \cup UpTo(c, p.cmds)]
    /\ taken' = taken \cup p.recs

(* What the LCD has to send besides the ACK. *)
Responses(p) ==
    (IF \E i \in DOMAIN p.cmds : p.cmds[i] = CONFIG THEN <<Answer("CFG")>> ELSE <<>>)
       \o (IF p.recs = {} THEN <<>>
           ELSE <<[what |-> "RESPONSE", rec |-> CHOOSE r \in p.recs : TRUE, result |-> 0]>>)

(* A packet arrives; the answer raises the receive callback. *)
LcdReceive ==
    /\ sock = "open" /\ down # <<>>
    /\ down' = Tail(down)
    /\ LET p == Head(down)
       IN  \/ /\ LcdAccepts(p)
              /\ up' = Append(up, Answer("ACK"))
              /\ jobs' = jobs \o Responses(p)
              /\ UNCHANGED faults
           \/ /\ \/ Fault("nak") /\ up' = Append(up, Answer("NAK"))
                 \/ Fault("forced") /\ up' = Append(up, Answer("FORCED"))
              /\ UNCHANGED <<rcvd, taken, jobs>>
    /\ box' = Append(box, SOC_RCV)
    /\ UNCHANGED <<pc, timers, pktctrl, phase, logs, snd_buf, rsnd_add_cmd, sock, todo, issued>>

(* The LCD does not answer, whether it received the packet or not. *)
LcdSilent ==
    /\ sock = "open" /\ down # <<>> /\ Fault("silent")
    /\ down' = Tail(down)
    /\ LcdAccepts(Head(down)) \/ UNCHANGED <<rcvd, taken>>
    /\ UNCHANGED <<task, sock, up, jobs, todo, issued>>

LcdRespond ==
    /\ sock = "open" /\ jobs # <<>>
    /\ jobs' = Tail(jobs)
    /\ LET a == Head(jobs)
       IN  \/ up' = Append(up, a) /\ UNCHANGED faults
           \/ /\ a.what = "RESPONSE" /\ Fault("ng")
              /\ \E n \in 1 .. 2 : up' = Append(up, [a EXCEPT !.result = n])
    /\ box' = Append(box, SOC_RCV)
    /\ UNCHANGED <<pc, timers, pktctrl, phase, logs, snd_buf, rsnd_add_cmd, sock, down,
                   todo, issued, rcvd, taken>>

(* A response arrives garbled.  It is refused, and the LCD sends it again, until *)
(* an ACK is forced: records that wait for a response then count as sent.        *)
RcvGarbled ==
    /\ pc = "recv" /\ sock = "open" /\ up # <<>> /\ Head(up).what \in {"CFG", "RESPONSE"}
    /\ Fault("garble")
    /\ pktctrl' = [Got EXCEPT !.usNackRetryNum = @ + 1]
    /\ IF pktctrl.usNackRetryNum + 1 > rcv_rtry_cnt
       THEN /\ up' = Tail(up)
            /\ logs' = Consumed(InPhase("WAIT_RES_CMD"))
            /\ timers' = timers \ {AckTimer(k) : k \in InPhase("WAIT_RES_CMD")}
            /\ phase' = InPhaseNow(InPhase("WAIT_RES_CMD"), "IDLE")
       ELSE UNCHANGED <<up, logs, timers, phase>>
    /\ UNCHANGED <<pc, box, snd_buf, rsnd_add_cmd, sock, down, jobs, todo, issued, rcvd, taken>>

-----------------------------------------------------------------------------
Handlers ==
    \/ SocCon \/ ConnectTimeout \/ ConIntvlTimeout \/ RstPrt \/ ConResWtTimeout
    \/ KeepaliveTimeout \/ SndPrt \/ LogTimeout \/ ResWtTimeout \/ SocRcv
Receive == RcvEnd \/ RcvUnexpected \/ RcvAck \/ RcvNak \/ RcvConfig \/ RcvResponse
Send == SendLog \/ SendCommands \/ SendNothing

PktTask == Handlers \/ Receive \/ RcvGarbled \/ Send
Ope == OpeStarts \/ LcdStarted \/ ResetReqFlgSet
          \/ (\E c \in Cmds : SetSendCommand(c)) \/ (\E r \in Recs : LogRegist(r))
Lcd == Connected \/ Broken \/ LcdReceive \/ LcdSilent \/ LcdRespond

Next == PktTask \/ Ope \/ Lcd \/ \E t \in Timers : Expire(t)

(* The task runs, timers run out, the LCD connects, answers and reports its start. *)
Fairness ==
    /\ WF_vars(PktTask) /\ WF_vars(OpeStarts) /\ WF_vars(LcdStarted)
    /\ WF_vars(Connected) /\ WF_vars(LcdReceive \/ LcdRespond)
    /\ \A t \in Waking \cup {RESND(k) : k \in LogKinds} : SF_vars(Expire(t))

Spec == Init /\ [][Next]_vars /\ Fairness

-----------------------------------------------------------------------------
(* The link is never left without a running timer or a pending event that will *)
(* wake the packet task again: "even if keepalive is disabled the one-second   *)
(* timer is started again, to run the send section".                           *)
NeverStalls == pc = "wait" /\ box = <<>> => timers \cap Waking # {}

(* As long as a record's ACK or response is awaited exactly that record is void *)
(* read: the answer will consume it, not nothing and not another one.           *)
AnswerSettlesIt ==
    \A k \in LogKinds : phase[k] \in {"WAIT_ACK", "WAIT_RES_CMD"} =>
        /\ logs[k].void_read = 1
        /\ logs[k].unread # <<>> /\ Head(logs[k].unread) = logs[k].read

(* The ACK that starts the wait for a response is the ACK of that record: the LCD *)
(* has it.  Answers that come when none is awaited are to be thrown away.        *)
AckIsItsOwn == \A k \in LogKinds : phase[k] = "WAIT_RES_CMD" => logs[k].read \in taken

Unconsumed == todo \cup UNION {{logs[k].unread[i] : i \in DOMAIN logs[k].unread} : k \in LogKinds}

(* No record leaves its log before the LCD received it, whatever connections *)
(* break, packets are refused and answers are forced.                        *)
LogKept == Recs \subseteq Unconsumed \cup taken

Holding(s) == {s[i] : i \in DOMAIN s}

(* A command stays in the send or the resend ring, "which holds the commands to *)
(* send again after the connection recovers", until the LCD received it.        *)
CommandKept == Cmds \subseteq todo \cup Holding(snd_buf) \cup Holding(rsnd_add_cmd) \cup Arrived

(* The LCD sees the commands in the order in which they were set. *)
InOrder ==
    \A d \in Cmds : \A c \in rcvd[d] \ {d} :
        \E m, n \in DOMAIN issued : m < n /\ issued[m] = c /\ issued[n] = d

(* After the last failure the link is up again and stays up. *)
Recovers == <>[](pktctrl.sckt = "ESTABLISH")

(* Every log record is taken by the LCD and leaves the log. *)
LogsDelivered == \A r \in Recs : (r \notin todo) ~> (r \notin Unconsumed)

(* Every command reaches the LCD. *)
CommandsDelivered == \A c \in Cmds : (c \notin todo) ~> (c \in Arrived)
=============================================================================
