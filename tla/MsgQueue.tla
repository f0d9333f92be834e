------------------------------ MODULE MsgQueue ------------------------------
(***************************************************************************)
(* The message kernel of the GT-4100 firmware: one pool of MSGBUF_CNT      *)
(* message buffers (the MCB), one singly linked mailbox per task (the      *)
(* TCBs), and the operations that move a buffer between them:              *)
(*   sys/idletask.c  GetBuf, PutMsg, GetMsg, FreeBuf, GetMsgWait,          *)
(*                   Target_MsgGet, idle_subtask, Tcb_Init, Mcb_Init       *)
(*   sys/comfnc.c    queset                                                *)
(* Tasks never preempt each other (taskchg is the only task switch), so    *)
(* all the tasks together are ONE context, number 0.  Interrupt handlers   *)
(* call queset too and re-enable interrupts, so they nest: contexts        *)
(* 1 .. MAX_NEST.  A _di2/_ei2 section is one step; what the code leaves   *)
(* outside of it is a step of its own.                                     *)
(***************************************************************************)
EXTENDS Integers, Sequences, FiniteSets, Functions

CONSTANTS
    Boxes,        \* the mailboxes 0 .. TCB_CNT-1, one per receiving task
    Served,       \* the mailboxes whose task idletask() still switches to
    EventDriven,  \* those whose task is only switched to when tcb[].event is set
    REMOTEDLTCBNO,\* the mailbox of the remote download task
    NoBox,        \* any task number >= TCB_CNT
    POOL,         \* stands for the mcb among the lists
    Msgs,         \* message commands
    FTPMSG,       \* the commands FTPMSG_CTRL_RECV .. FTPMSG_FILE_RECVEND
    MSGBUF_CNT,   \* number of message buffers
    UCHAR_MOD,    \* number of values of the loop index of Target_MsgGet
    MAX_NEST,     \* bound: nesting depth of interrupts
    MAX_HOLD,     \* bound: messages one task has taken and not yet released
    Load          \* bound: buffers in use or being allocated at one time

NULL     == 0
Bufs     == 1 .. MSGBUF_CNT
Lists    == Boxes \cup {POOL}
Contexts == 0 .. MAX_NEST

ASSUME BoxAssumption ==
    /\ Served \subseteq Boxes
    /\ EventDriven \subseteq Boxes
    /\ REMOTEDLTCBNO \in Boxes
    /\ NoBox \notin Boxes
    /\ POOL \notin Boxes
    /\ FTPMSG \subseteq Msgs

ASSUME SizeAssumption ==
    /\ MSGBUF_CNT \in Nat \ {0}
    /\ UCHAR_MOD \in Nat \ {0}
    /\ MAX_NEST \in Nat
    /\ MAX_HOLD \in Nat
    /\ Load \in Nat

VARIABLES
    msg_next,     \* msgbuf[i].msg_next
    command,      \* msgbuf[i].msg.command
    msg_top,      \* mcb.msg_top and tcb[i].msg_top
    msg_end,      \* mcb.msg_end and tcb[i].msg_end
    event,        \* tcb[i].event
    MESSAGEFULL,  \* FLAGPT.event_CtrlBitData.BIT.MESSAGEFULL
    ctx,          \* how far each context is in queset
    held,         \* buffers a task has received and not yet released
    que           \* auxiliary: the order each list is meant to have

vars == <<msg_next, command, msg_top, msg_end, event, MESSAGEFULL, ctx, held, que>>

Idle == [pc |-> "idle", dest |-> NoBox, msg |-> NULL, buf |-> NULL]

TypeOK ==
    /\ msg_next \in [Bufs -> Bufs \cup {NULL}]
    /\ command \in [Bufs -> Msgs \cup {NULL}]
    /\ msg_top \in [Lists -> Bufs \cup {NULL}]
    /\ msg_end \in [Lists -> Bufs \cup {NULL}]
    /\ event \in [Boxes -> {"MSG_SET", "MSG_EMPTY"}]
    /\ MESSAGEFULL \in BOOLEAN
    /\ ctx \in [Contexts -> [pc : {"idle", "alloc", "put"}, dest : Boxes \cup {NoBox},
                             msg : Msgs \cup {NULL}, buf : Bufs \cup {NULL}]]
    /\ \A c \in Contexts : ctx[c].pc = "put" => ctx[c].buf \in Bufs
    /\ held \in [Boxes -> SUBSET Bufs]
    /\ que \in [Lists -> Seq(Bufs)]

-----------------------------------------------------------------------------
(* Start-up: Mcb_Init chains every buffer into the pool, Tcb_Init empties the mailboxes. *)

(* Seeded fault: the loop of Mcb_Init runs over the last buffer too. *)
Mcb_Chain_OneTooFar == [b \in Bufs |-> b + 1]

Mcb_Chain == [b \in Bufs |-> IF b < MSGBUF_CNT THEN b + 1 ELSE NULL]

Init ==
    /\ msg_next = Mcb_Chain
    /\ command = [b \in Bufs |-> NULL]
    /\ msg_top = [p \in Lists |-> IF p = POOL THEN 1 ELSE NULL]
    /\ msg_end = [p \in Lists |-> IF p = POOL THEN MSGBUF_CNT ELSE NULL]
    /\ event = [t \in Boxes |-> "MSG_EMPTY"]
    /\ MESSAGEFULL = FALSE
    /\ ctx = [c \in Contexts |-> Idle]
    /\ held = [t \in Boxes |-> {}]
    /\ que = [p \in Lists |-> IF p = POOL THEN [i \in Bufs |-> i] ELSE <<>>]

-----------------------------------------------------------------------------
(* Contexts: a context runs when no interrupt of a higher level is active. *)

Running(c) == \A d \in Contexts : d > c => ctx[d] = Idle

TaskRuns == Running(0) /\ ctx[0] = Idle

Allocating == {c \in Contexts : ctx[c].pc = "alloc"}

Outstanding == Cardinality(Bufs \ Range(que[POOL])) + Cardinality(Allocating)

(* What the intended order of a list becomes when buffer b joins or leaves it. *)
Joined(s, b) == IF b \in Range(s) THEN s ELSE Append(s, b)

Left(s, b) ==
    IF b \notin Range(s) THEN s
    ELSE LET k == CHOOSE i \in 1 .. Len(s) : s[i] = b
         IN  [i \in 1 .. Len(s) - 1 |-> IF i < k THEN s[i] ELSE s[i + 1]]

-----------------------------------------------------------------------------
(* PutMsg and FreeBuf: the critical sections that append to a list. *)

Linked(p, b) ==
    [x \in Bufs |-> IF x = b THEN NULL ELSE IF x = msg_end[p] THEN b ELSE msg_next[x]]

AppendTo(p, b) ==
    /\ msg_next' = Linked(p, b)
    /\ msg_end' = [msg_end EXCEPT ![p] = b]
    /\ msg_top' = [msg_top EXCEPT ![p] = IF @ = NULL THEN b ELSE @]
    /\ que' = [que EXCEPT ![p] = Joined(@, b)]

FreeBuf(b) == AppendTo(POOL, b) /\ UNCHANGED event

(* Seeded fault: a message for an unknown task is dropped, not freed. *)
PutMsg_Leak(id, b) ==
    \/ id \in Boxes /\ AppendTo(id, b) /\ event' = [event EXCEPT ![id] = "MSG_SET"]
    \/ id \notin Boxes /\ UNCHANGED <<msg_next, msg_end, msg_top, que, event>>

(* Seeded fault: the event flag is left alone. *)
PutMsg_NoEvent(id, b) ==
    \/ id \in Boxes /\ AppendTo(id, b) /\ UNCHANGED event
    \/ id \notin Boxes /\ FreeBuf(b)

PutMsg(id, b) ==
    \/ id \in Boxes /\ AppendTo(id, b) /\ event' = [event EXCEPT ![id] = "MSG_SET"]
    \/ id \notin Boxes /\ FreeBuf(b)

-----------------------------------------------------------------------------
(* queset, from a task (c = 0) or from an interrupt handler (c > 0). *)

(* The call, up to the test GetBuf makes with interrupts still enabled. *)
MayCall(c) ==
    /\ ctx[c] = Idle /\ Running(c)
    /\ c > 1 => ctx[c - 1] # Idle
    /\ Outstanding < Load

Queset(c, id, m) ==
    /\ MayCall(c)
    /\ msg_top[POOL] # NULL
    /\ ctx' = [ctx EXCEPT ![c] = [pc |-> "alloc", dest |-> id, msg |-> m, buf |-> NULL]]
    /\ UNCHANGED <<msg_next, command, msg_top, msg_end, event, MESSAGEFULL, held, que>>

QuesetFull(c) ==
    /\ MayCall(c)
    /\ msg_top[POOL] = NULL
    /\ MESSAGEFULL' = TRUE
    /\ UNCHANGED <<msg_next, command, msg_top, msg_end, event, ctx, held, que>>

(* GetBuf's critical section. *)
GetBuf(c) ==
    LET b == msg_top[POOL]
    IN  /\ Running(c) /\ ctx[c].pc = "alloc"
        /\ b # NULL
        /\ msg_top' = [msg_top EXCEPT ![POOL] = msg_next[b]]
        /\ que' = [que EXCEPT ![POOL] = Left(@, b)]
        /\ ctx' = [ctx EXCEPT ![c] = [@ EXCEPT !.pc = "put", !.buf = b]]
        /\ UNCHANGED <<msg_next, command, msg_end, event, MESSAGEFULL, held>>

(* The same section when a handler emptied the pool after the test: the code *)
(* returns NULL, having loaded msg_top from address 0, where any value may be. *)
GetBufRace(c) ==
    /\ Running(c) /\ ctx[c].pc = "alloc"
    /\ msg_top[POOL] = NULL
    /\ \E b \in Bufs \cup {NULL} : msg_top' = [msg_top EXCEPT ![POOL] = b]
    /\ ctx' = [ctx EXCEPT ![c] = Idle]
    /\ UNCHANGED <<msg_next, command, msg_end, event, MESSAGEFULL, held, que>>

(* While a download runs, queset sends the FTP messages to its task. *)
Dest(id, m) == IF m \in FTPMSG THEN {id, REMOTEDLTCBNO} ELSE {id}

QuesetPut(c) ==
    LET b == ctx[c].buf
    IN  /\ Running(c) /\ ctx[c].pc = "put"
        /\ command' = [command EXCEPT ![b] = ctx[c].msg]
        /\ \E id \in Dest(ctx[c].dest, ctx[c].msg) : PutMsg(id, b)
        /\ ctx' = [ctx EXCEPT ![c] = Idle]
        /\ UNCHANGED <<MESSAGEFULL, held>>

-----------------------------------------------------------------------------
(* What a task does with its own mailbox. *)

(* Seeded fault: emptying the mailbox leaves its msg_end. *)
EndWithout_Stale(t, first) == msg_end[t]

(* msg_end and event once the head is gone and "first" is the new head. *)
EndWithout(t, first) == IF first = NULL THEN NULL ELSE msg_end[t]

(* Seeded fault: emptying the mailbox leaves its event flag. *)
EventWithout_Stale(t, first) == event[t]

EventWithout(t, first) == IF first = NULL THEN "MSG_EMPTY" ELSE event[t]

TakeHead(t) ==
    LET first == msg_next[msg_top[t]]
    IN  /\ msg_top' = [msg_top EXCEPT ![t] = first]
        /\ msg_end' = [msg_end EXCEPT ![t] = EndWithout(t, first)]
        /\ event' = [event EXCEPT ![t] = EventWithout(t, first)]
        /\ UNCHANGED msg_next

(* The task of box t has been switched to and may take one more message. *)
MayTake(t) ==
    /\ TaskRuns /\ t \in Served
    /\ msg_top[t] # NULL
    /\ Cardinality(held[t]) < MAX_HOLD

Takes(t, b) ==
    /\ held' = [held EXCEPT ![t] = @ \cup {b}]
    /\ que' = [que EXCEPT ![t] = Left(@, b)]
    /\ UNCHANGED <<command, MESSAGEFULL, ctx>>

GetMsg(t) ==
    /\ MayTake(t)
    /\ t \in EventDriven => event[t] = "MSG_SET"
    /\ TakeHead(t)
    /\ Takes(t, msg_top[t])

(* The buffers Target_MsgGet visits: from the head along msg_next, up to the *)
(* first message whose command is wanted.                                    *)
Search(t, wanted, n, path) ==
    /\ path[1] = msg_top[t]
    /\ \A i \in 1 .. n - 1 : path[i + 1] = msg_next[path[i]]
    /\ \A i \in 1 .. n - 1 : command[path[i]] \notin wanted
    /\ command[path[n]] \in wanted

(* Seeded fault: the tail is taken out as if a message followed it. *)
Unlink_TailAsMiddle(t, n, path) ==
    \/ (n - 1) % UCHAR_MOD = 0 /\ TakeHead(t)
    \/ /\ (n - 1) % UCHAR_MOD # 0
       /\ msg_next' = [msg_next EXCEPT ![path[n - 1]] = msg_next[path[n]]]
       /\ UNCHANGED <<msg_top, msg_end, event>>

(* It is taken out as the head when the 8-bit index i is 0, as the tail or *)
(* from the middle otherwise.                                              *)
Unlink(t, n, path) ==
    \/ (n - 1) % UCHAR_MOD = 0 /\ TakeHead(t)
    \/ /\ (n - 1) % UCHAR_MOD # 0 /\ msg_end[t] = path[n]
       /\ msg_next' = [msg_next EXCEPT ![path[n - 1]] = NULL]
       /\ msg_end' = [msg_end EXCEPT ![t] = path[n - 1]]
       /\ UNCHANGED <<msg_top, event>>
    \/ /\ (n - 1) % UCHAR_MOD # 0 /\ msg_end[t] # path[n]
       /\ msg_next' = [msg_next EXCEPT ![path[n - 1]] = msg_next[path[n]]]
       /\ UNCHANGED <<msg_top, msg_end, event>>

Target_MsgGet(t, wanted) ==
    /\ MayTake(t)
    /\ \E n \in 1 .. MSGBUF_CNT : \E path \in [1 .. n -> Bufs] :
          /\ Search(t, wanted, n, path)
          /\ Unlink(t, n, path)
          /\ Takes(t, path[n])

(* The task is done with a message: it frees the buffer ... *)
Release(t, b) ==
    /\ TaskRuns /\ b \in held[t]
    /\ held' = [held EXCEPT ![t] = @ \ {b}]
    /\ FreeBuf(b)
    /\ UNCHANGED <<command, MESSAGEFULL, ctx>>

(* ... or puts it back, at the tail of its own mailbox. *)
Requeue(t, b) ==
    /\ TaskRuns /\ b \in held[t]
    /\ held' = [held EXCEPT ![t] = @ \ {b}]
    /\ PutMsg(t, b)
    /\ UNCHANGED <<command, MESSAGEFULL, ctx>>

(* Seeded fault: the flag is cleared and the machine keeps running. *)
idle_subtask_NoReset ==
    /\ TaskRuns /\ MESSAGEFULL
    /\ MESSAGEFULL' = FALSE
    /\ UNCHANGED <<msg_next, command, msg_top, msg_end, event, ctx, held, que>>

(* A message-full error makes err_chk reset the machine. *)
idle_subtask ==
    /\ TaskRuns /\ MESSAGEFULL
    /\ msg_next' = Mcb_Chain
    /\ command' = [b \in Bufs |-> NULL]
    /\ msg_top' = [p \in Lists |-> IF p = POOL THEN 1 ELSE NULL]
    /\ msg_end' = [p \in Lists |-> IF p = POOL THEN MSGBUF_CNT ELSE NULL]
    /\ event' = [t \in Boxes |-> "MSG_EMPTY"]
    /\ MESSAGEFULL' = FALSE
    /\ ctx' = [c \in Contexts |-> Idle]
    /\ held' = [t \in Boxes |-> {}]
    /\ que' = [p \in Lists |-> IF p = POOL THEN [i \in Bufs |-> i] ELSE <<>>]

-----------------------------------------------------------------------------
ContextStep(c) ==
    \/ \E id \in Boxes \cup {NoBox}, m \in Msgs : Queset(c, id, m)
    \/ QuesetFull(c)
    \/ GetBuf(c)
    \/ GetBufRace(c)
    \/ QuesetPut(c)

TaskStep(t) ==
    \/ GetMsg(t)
    \/ \E wanted \in SUBSET Msgs : Target_MsgGet(t, wanted)
    \/ \E b \in Bufs : Release(t, b) \/ Requeue(t, b)

Next ==
    \/ \E c \in Contexts : ContextStep(c)
    \/ \E t \in Boxes : TaskStep(t)
    \/ idle_subtask

(* A handler runs to its end.  Handlers are short and the timers that raise *)
(* them have periods of 1 ms and more, so between two of them the task that *)
(* was interrupted goes on: hence strong fairness for context 0.  idletask  *)
(* switches to every task in each round, and a task that has a message      *)
(* takes it and in the end frees it or puts it back.                        *)
Fairness ==
    /\ \A c \in Contexts : WF_vars(GetBuf(c) \/ GetBufRace(c) \/ QuesetPut(c))
    /\ SF_vars(GetBuf(0) \/ GetBufRace(0) \/ QuesetPut(0))
    /\ \A t \in Served : SF_vars(GetMsg(t)) /\ SF_vars(\E b \in Bufs : Release(t, b) \/ Requeue(t, b))
    /\ SF_vars(idle_subtask)

Spec == Init /\ [][Next]_vars /\ Fairness

-----------------------------------------------------------------------------
(* Every list is the chain of its buffers in the order they joined it: no    *)
(* message is lost, duplicated or overtaken by the pointer surgery.          *)
Chained(s, top, end) ==
    /\ s = <<>> => top = NULL /\ end = NULL
    /\ s # <<>> => /\ top = s[1]
                   /\ end = s[Len(s)]
                   /\ msg_next[s[Len(s)]] = NULL
                   /\ \A i \in 1 .. Len(s) - 1 : msg_next[s[i]] = s[i + 1]

ListSound(p) == Chained(que[p], msg_top[p], msg_end[p])

ListsSound == \A p \in Lists : ListSound(p)

(* idletask decides from tcb[CANTCBNO].event alone whether to switch to the *)
(* CAN task: the flag must say exactly whether a message waits.              *)
EventTellsMail == \A t \in Boxes : event[t] = "MSG_SET" <=> que[t] # <<>>

(* At each moment a buffer is in one list, once, or in the hands of one      *)
(* context or of one task: none leaks and none has two owners.               *)
InLists(b)   == {p \in Lists : b \in Range(que[p])}
InTransit(b) == {c \in Contexts : ctx[c].pc = "put" /\ ctx[c].buf = b}
InHands(b)   == {t \in Boxes : b \in held[t]}

OwnedOnce(b) ==
    \/ \E p \in Lists    : InLists(b) = {p} /\ InTransit(b) = {} /\ InHands(b) = {}
    \/ \E c \in Contexts : InLists(b) = {} /\ InTransit(b) = {c} /\ InHands(b) = {}
    \/ \E t \in Boxes    : InLists(b) = {} /\ InTransit(b) = {} /\ InHands(b) = {t}

OneOwner ==
    /\ \A p \in Lists : IsInjective(que[p])
    /\ \A b \in Bufs : OwnedOnce(b)

(* Every message put in a mailbox whose task still runs is received by it, *)
(* that of the CAN task included, which the event flag alone wakes.        *)
ServedIsReceived ==
    \A t \in Served, b \in Bufs : b \in Range(que[t]) ~> b \in held[t]

(* A refused allocation leads to the reset that rebuilds the lists. *)
FullLeadsToReset == MESSAGEFULL ~> (~MESSAGEFULL /\ ListsSound)
=============================================================================
