----------------------------- MODULE PktBuffer -----------------------------
(***************************************************************************)
(* The command buffers of the LCD packet link, byte by byte:               *)
(*   pkt/pkt_buffer.c  the send ring and the resend ring                   *)
(*   pkt/pktctrl.c     PKTcmd_..., which edit a command in a work area and *)
(*                     hand its address to PKTbuf_SetSendCommand           *)
(*   pkt/pkttask.c     PKTsnd_Create_Packet, which moves commands from the *)
(*                     send ring to a packet and to the resend ring        *)
(* A command is a 2-byte length and its data.  The task of the payment     *)
(* dialogue and the packet task both set commands; PKTbuf_SetSendCommand   *)
(* switches tasks while the ring is full (its lock is empty), everything   *)
(* between two switches is atomic, and the tasks take turns.               *)
(*                                                                         *)
(* Two things go wrong for good.  A command that waits for room may be     *)
(* overwritten in its work area by a shorter or longer one, and is then    *)
(* copied in a length that is not its own ("mixed").  The length word of a *)
(* command may lie across the end of a ring, where it is read past the end *)
(* ("split").  Both steps are modelled and kept in "harm"; the sizes read  *)
(* after them may be anything, and the rings are not followed any further. *)
(***************************************************************************)
EXTENDS Integers, Sequences, FiniteSets

CONSTANTS
    OPE, PKT,           \* the two tasks that set commands
    Cmds,               \* commands
    Length,             \* Length[c]: bytes of command c, its 2-byte length included
    CmdsOf,             \* CmdsOf[t]: the commands task t sets
    WorkOf,             \* WorkOf[c]: the static work area c is edited in
    PKT_BUFF_SIZ,       \* size of the send ring
    PKT_RSND_BUFF_SIZ,  \* size of the resend ring
    RETRY,              \* task switches PKTbuf_SetSendCommand waits for
    NoCmd               \* stands for bytes that are no command's

Tasks == {OPE, PKT}
Works == {WorkOf[c] : c \in Cmds}

ASSUME CmdAssumption ==
    /\ OPE # PKT
    /\ NoCmd \notin Cmds
    /\ Length \in [Cmds -> 2 .. PKT_RSND_BUFF_SIZ]
    /\ CmdsOf \in [Tasks -> SUBSET Cmds]
    /\ DOMAIN WorkOf = Cmds

ASSUME BufferAssumption ==
    /\ PKT_RSND_BUFF_SIZ \in Nat \ {0}
    /\ PKT_BUFF_SIZ = PKT_RSND_BUFF_SIZ + 2
    /\ RETRY \in Nat \ {0}

Bytes == (Cmds \X (1 .. PKT_RSND_BUFF_SIZ)) \cup {<<NoCmd, 0>>}

Ring(siz) == [buff : [0 .. siz - 1 -> Bytes], rp : 0 .. siz - 1, wp : 0 .. siz - 1,
              total : 0 .. siz, count : 0 .. siz]

VARIABLES
    snd_buf,       \* the send ring
    rsnd_add_cmd,  \* the resend ring
    work,          \* contents of the work areas
    turn,          \* the task that runs
    call,          \* call[t]: the PKTbuf_SetSendCommand task t is in
    job,           \* how far PKTsnd_Create_Packet is
    packet,        \* the bytes collected for the packet
    sque, rque,    \* auxiliary: the commands each ring is meant to hold
    harm           \* auxiliary: what has gone wrong for good

vars == <<snd_buf, rsnd_add_cmd, work, turn, call, job, packet, sque, rque, harm>>

Other(t) == IF t = OPE THEN PKT ELSE OPE

Image(c) == [k \in 1 .. Length[c] |-> <<c, k>>]

NoCall == [pc |-> "idle", cmd |-> NoCmd, tries |-> 0]
NoJob  == [pc |-> "none", type |-> "S", num |-> 0, at |-> 0, item |-> <<>>]

TypeOK ==
    /\ snd_buf \in Ring(PKT_BUFF_SIZ)
    /\ rsnd_add_cmd \in Ring(PKT_RSND_BUFF_SIZ)
    /\ work \in [Works -> [1 .. PKT_RSND_BUFF_SIZ -> Bytes]]
    /\ turn \in Tasks
    /\ call \in [Tasks -> [pc : {"idle", "wait"}, cmd : Cmds \cup {NoCmd}, tries : 0 .. RETRY]]
    /\ job \in [pc : {"none", "read", "store"}, type : {"S", "A"}, num : Nat,
                at : 0 .. PKT_RSND_BUFF_SIZ, item : Seq(Bytes)]
    /\ packet \in Seq(Bytes)
    /\ sque \in Seq(Cmds)
    /\ rque \in Seq(Cmds)
    /\ harm \in {"none", "mixed", "split"}

-----------------------------------------------------------------------------
(* Operations on a ring of siz bytes. *)

Empty(siz) == [buff |-> [a \in 0 .. siz - 1 |-> <<NoCmd, 0>>],
               rp |-> 0, wp |-> 0, total |-> 0, count |-> 0]

(* Append a command: copied up to the end of the buffer, the rest from its start. *)
Stored(r, siz, bytes) ==
    [buff  |-> [a \in 0 .. siz - 1 |->
                  LET k == ((a - r.wp) % siz) + 1
                  IN  IF k <= Len(bytes) THEN bytes[k] ELSE r.buff[a]],
     rp    |-> r.rp,
     wp    |-> (r.wp + Len(bytes)) % siz,
     total |-> r.total + Len(bytes),
     count |-> r.count + 1]

Copied(r, siz, at, n) == [k \in 1 .. n |-> r.buff[(at + k - 1) % siz]]

(* The length of the command at "at", with its own two bytes: read as one *)
(* 16-bit word, which must not lie across the end of the buffer.           *)
Readable(r, siz, at) ==
    /\ at + 1 < siz
    /\ \E c \in Cmds : r.buff[at] = <<c, 1>> /\ r.buff[at + 1] = <<c, 2>>

Size(r, at) == Length[r.buff[at][1]]

(* The ring without the n bytes at its read pointer, which nothing reads again: *)
(* their values are not kept.                                                   *)
Forgot(r, siz, n) ==
    [a \in 0 .. siz - 1 |-> IF (a - r.rp) % siz < n THEN <<NoCmd, 0>> ELSE r.buff[a]]

(* Seeded fault: an emptied ring keeps its total. *)
Dropped_KeepsTotal(r, siz, n) ==
    IF r.count = 1 THEN [Empty(siz) EXCEPT !.total = r.total]
    ELSE [r EXCEPT !.buff = Forgot(r, siz, n),
                   !.rp = (@ + n) % siz, !.total = @ - n, !.count = @ - 1]

(* Remove n bytes, one command, at the read pointer; an emptied ring is reset. *)
Dropped(r, siz, n) ==
    IF r.count = 1 THEN Empty(siz)
    ELSE [r EXCEPT !.buff = Forgot(r, siz, n),
                   !.rp = (@ + n) % siz, !.total = @ - n, !.count = @ - 1]

-----------------------------------------------------------------------------
Init ==
    /\ snd_buf = Empty(PKT_BUFF_SIZ)
    /\ rsnd_add_cmd = Empty(PKT_RSND_BUFF_SIZ)
    /\ work = [w \in Works |-> [k \in 1 .. PKT_RSND_BUFF_SIZ |-> <<NoCmd, 0>>]]
    /\ turn = OPE
    /\ call = [t \in Tasks |-> NoCall]
    /\ job = NoJob
    /\ packet = <<>>
    /\ sque = <<>>
    /\ rque = <<>>
    /\ harm = "none"

(* The task is between two calls and decides what to do next. *)
Free(t) == harm = "none" /\ turn = t /\ call[t].pc = "idle" /\ (t = PKT => job.pc = "none")

(* The task is in a call and has been switched to again. *)
Back(t) == harm = "none" /\ turn = t /\ call[t].pc = "wait"

Switch(t) ==
    /\ Free(t)
    /\ turn' = Other(t)
    /\ UNCHANGED <<snd_buf, rsnd_add_cmd, work, call, job, packet, sque, rque, harm>>

(* Seeded fault: the command's own length bytes are not counted. *)
Fits_DataOnly(c) == snd_buf.total + Length[c] - 2 <= PKT_BUFF_SIZ

Fits(c) == snd_buf.total + Length[c] <= PKT_BUFF_SIZ

(* The copy, of the length passed and of what the work area holds now.       *)
(* PKTbuf_SetSendCommand first resets a write pointer beyond the buffer;     *)
(* TypeOK says that there is none.                                           *)
Insert(t, c, area) ==
    LET bytes == [k \in 1 .. Length[c] |-> area[k]]
        found == area[1][1]
    IN  /\ snd_buf' = Stored(snd_buf, PKT_BUFF_SIZ, bytes)
        /\ sque' = Append(sque, found)
        /\ harm' = IF bytes = Image(found) THEN harm ELSE "mixed"
        /\ call' = [call EXCEPT ![t] = NoCall]
        /\ UNCHANGED turn

Edited(c) == [k \in 1 .. PKT_RSND_BUFF_SIZ |->
                 IF k <= Length[c] THEN <<c, k>> ELSE work[WorkOf[c]][k]]

(* Seeded fault: all commands are edited in one work area. *)
PKTcmd_OneArea(t, c) ==
    /\ Free(t) /\ c \in CmdsOf[t]
    /\ work' = [w \in Works |-> Edited(c)]
    /\ \/ Fits(c) /\ Insert(t, c, Edited(c))
       \/ /\ ~ Fits(c)
          /\ call' = [call EXCEPT ![t] = [pc |-> "wait", cmd |-> c, tries |-> 1]]
          /\ turn' = Other(t)
          /\ UNCHANGED <<snd_buf, sque, harm>>
    /\ UNCHANGED <<rsnd_add_cmd, job, packet, rque>>

(* A PKTcmd_... function: the command is edited, then set. *)
PKTcmd(t, c) ==
    /\ Free(t) /\ c \in CmdsOf[t]
    /\ work' = [work EXCEPT ![WorkOf[c]] = Edited(c)]
    /\ \/ Fits(c) /\ Insert(t, c, Edited(c))
       \/ /\ ~ Fits(c)
          /\ call' = [call EXCEPT ![t] = [pc |-> "wait", cmd |-> c, tries |-> 1]]
          /\ turn' = Other(t)
          /\ UNCHANGED <<snd_buf, sque, harm>>
    /\ UNCHANGED <<rsnd_add_cmd, job, packet, rque>>

(* Seeded fault: the retry loop has no end. *)
SetSendCommandRetry_Forever(t) ==
    LET c == call[t].cmd
    IN  /\ Back(t)
        /\ \/ Fits(c) /\ Insert(t, c, work[WorkOf[c]])
           \/ /\ ~ Fits(c)
              /\ turn' = Other(t)
              /\ UNCHANGED <<snd_buf, sque, call, harm>>
        /\ UNCHANGED <<rsnd_add_cmd, work, job, packet, rque>>

(* Back from a task switch: the command is copied from the work area, as it *)
(* is now, or there is one more switch, or the call fails.                  *)
SetSendCommandRetry(t) ==
    LET c == call[t].cmd
    IN  /\ Back(t)
        /\ \/ Fits(c) /\ Insert(t, c, work[WorkOf[c]])
           \/ /\ ~ Fits(c) /\ call[t].tries < RETRY
              /\ call' = [call EXCEPT ![t].tries = @ + 1]
              /\ turn' = Other(t)
              /\ UNCHANGED <<snd_buf, sque, harm>>
           \/ /\ ~ Fits(c) /\ call[t].tries = RETRY
              /\ call' = [call EXCEPT ![t] = NoCall]
              /\ UNCHANGED <<snd_buf, sque, turn, harm>>
        /\ UNCHANGED <<rsnd_add_cmd, work, job, packet, rque>>

-----------------------------------------------------------------------------
(* PKTsnd_Create_Packet: no task switch in between. *)

CreatePacket(type) ==
    /\ Free(PKT)
    /\ job' = [NoJob EXCEPT !.pc = "read", !.type = type, !.at = rsnd_add_cmd.rp]
    /\ packet' = <<>>
    /\ UNCHANGED <<snd_buf, rsnd_add_cmd, work, turn, call, sque, rque, harm>>

(* Seeded fault: the limit is the size of the ring, not of the packet. *)
Limit_Full == PKT_BUFF_SIZ - Len(packet)

Limit == PKT_BUFF_SIZ - 2 - Len(packet)

(* PKTbuf_ReadSendCommand: the oldest command, if it is not longer than the limit. *)
ReadSendCommand ==
    /\ job.pc = "read" /\ job.type = "S"
    /\ snd_buf.count > 0
    /\ Readable(snd_buf, PKT_BUFF_SIZ, snd_buf.rp)
    /\ LET size == Size(snd_buf, snd_buf.rp)
       IN  /\ size <= Limit
           /\ snd_buf' = Dropped(snd_buf, PKT_BUFF_SIZ, size)
           /\ job' = [job EXCEPT !.pc = "store",
                                 !.item = Copied(snd_buf, PKT_BUFF_SIZ, snd_buf.rp, size)]
    /\ sque' = Tail(sque)
    /\ UNCHANGED <<rsnd_add_cmd, work, turn, call, packet, rque, harm>>

(* PKTbuf_DelReSendCommand, as long as the command does not fit the resend ring; *)
(* it does nothing to an empty one, and resets one that it empties without a     *)
(* look at the length.                                                           *)
DelReSendCommand ==
    /\ job.pc = "store"
    /\ rsnd_add_cmd.total + Len(job.item) > PKT_RSND_BUFF_SIZ
    /\ rsnd_add_cmd.count > 1 => Readable(rsnd_add_cmd, PKT_RSND_BUFF_SIZ, rsnd_add_cmd.rp)
    /\ IF rsnd_add_cmd.count = 0 THEN UNCHANGED <<rsnd_add_cmd, rque>>
       ELSE /\ rsnd_add_cmd' = Dropped(rsnd_add_cmd, PKT_RSND_BUFF_SIZ,
                                       Size(rsnd_add_cmd, rsnd_add_cmd.rp))
            /\ rque' = Tail(rque)
    /\ UNCHANGED <<snd_buf, work, turn, call, job, packet, sque, harm>>

(* PKTbuf_SetReSendCommand, once it fits. *)
SetReSendCommand ==
    /\ job.pc = "store"
    /\ rsnd_add_cmd.total + Len(job.item) <= PKT_RSND_BUFF_SIZ
    /\ rsnd_add_cmd' = Stored(rsnd_add_cmd, PKT_RSND_BUFF_SIZ, job.item)
    /\ rque' = Append(rque, job.item[1][1])
    /\ packet' = packet \o job.item
    /\ job' = [job EXCEPT !.pc = "read", !.item = <<>>]
    /\ UNCHANGED <<snd_buf, work, turn, call, sque, harm>>

(* PKTbuf_ReadReSendCommand: the num-th command, found by walking from the oldest. *)
ReadReSendCommand ==
    /\ job.pc = "read" /\ job.type = "A"
    /\ job.num < rsnd_add_cmd.count
    /\ Readable(rsnd_add_cmd, PKT_RSND_BUFF_SIZ, job.at)
    /\ LET size == Size(rsnd_add_cmd, job.at)
       IN  /\ packet' = packet \o Copied(rsnd_add_cmd, PKT_RSND_BUFF_SIZ, job.at, size)
           /\ job' = [job EXCEPT !.num = @ + 1, !.at = (@ + size) % PKT_RSND_BUFF_SIZ]
    /\ UNCHANGED <<snd_buf, rsnd_add_cmd, work, turn, call, sque, rque, harm>>

(* The next read returns 0. *)
NothingToRead ==
    \/ /\ job.type = "S"
       /\ \/ snd_buf.count = 0
          \/ /\ Readable(snd_buf, PKT_BUFF_SIZ, snd_buf.rp)
             /\ Size(snd_buf, snd_buf.rp) > Limit
    \/ job.type = "A" /\ job.num >= rsnd_add_cmd.count

PacketReady ==
    /\ job.pc = "read" /\ NothingToRead
    /\ job' = NoJob
    /\ packet' = <<>>
    /\ UNCHANGED <<snd_buf, rsnd_add_cmd, work, turn, call, sque, rque, harm>>

(* The packet task clears the resend ring when a packet is acknowledged or given up. *)
ClearReSendCommand ==
    /\ Free(PKT)
    /\ rsnd_add_cmd' = Empty(PKT_RSND_BUFF_SIZ)
    /\ rque' = <<>>
    /\ UNCHANGED <<snd_buf, work, turn, call, job, packet, sque, harm>>

(* One of the three readers comes to a length word that lies across the end. *)
ReadsPastEnd ==
    \/ /\ job.pc = "read" /\ job.type = "S" /\ snd_buf.count > 0
       /\ ~ Readable(snd_buf, PKT_BUFF_SIZ, snd_buf.rp)
    \/ /\ job.pc = "store" /\ rsnd_add_cmd.count > 1
       /\ rsnd_add_cmd.total + Len(job.item) > PKT_RSND_BUFF_SIZ
       /\ ~ Readable(rsnd_add_cmd, PKT_RSND_BUFF_SIZ, rsnd_add_cmd.rp)
    \/ /\ job.pc = "read" /\ job.type = "A" /\ job.num < rsnd_add_cmd.count
       /\ ~ Readable(rsnd_add_cmd, PKT_RSND_BUFF_SIZ, job.at)

SplitLength ==
    /\ ReadsPastEnd
    /\ harm' = "split"
    /\ UNCHANGED <<snd_buf, rsnd_add_cmd, work, turn, call, job, packet, sque, rque>>

Build ==
    /\ harm = "none"
    /\ \/ ReadSendCommand \/ DelReSendCommand \/ SetReSendCommand
       \/ ReadReSendCommand \/ PacketReady \/ SplitLength

(* What becomes of the rings then is not modelled. *)
Harmed == harm # "none" /\ UNCHANGED vars

Next ==
    \/ \E t \in Tasks : Switch(t) \/ SetSendCommandRetry(t) \/ (\E c \in Cmds : PKTcmd(t, c))
    \/ \E type \in {"S", "A"} : CreatePacket(type)
    \/ Build
    \/ ClearReSendCommand
    \/ Harmed

(* A task that is switched to goes on, and in the end switches to the other one. *)
Fairness ==
    /\ WF_vars(Build)
    /\ \A t \in Tasks : WF_vars(SetSendCommandRetry(t)) /\ SF_vars(Switch(t))

Spec == Init /\ [][Next]_vars /\ Fairness

-----------------------------------------------------------------------------
(* Bytes before the i-th command of a queue. *)
Before(q) == LET b[i \in 0 .. Len(q)] == IF i = 0 THEN 0 ELSE b[i - 1] + Length[q[i]] IN b

Holds(r, siz, q) ==
    LET b == Before(q)
    IN  /\ r.count = Len(q)
        /\ r.total = b[Len(q)]
        /\ r.wp = (r.rp + r.total) % siz
        /\ q = <<>> => r.rp = 0
        /\ \A i \in 1 .. Len(q) :
              Copied(r, siz, r.rp + b[i - 1], Length[q[i]]) = Image(q[i])

(* The bytes, pointers and counts of the send ring are, at every step, those of *)
(* the commands whose PKTbuf_SetSendCommand returned TRUE and that were not yet  *)
(* read, in that order: across wrap-around, refused commands, commands that were *)
(* replaced by another of their length while they waited, and the reset of the   *)
(* emptied ring; until a command of another length is mixed in (pkt_buffer.c     *)
(* 302-349).  So are those of the resend ring, whose oldest commands are dropped *)
(* to make room (82-160).                                                        *)
RingsHold ==
    harm # "mixed" => /\ Holds(snd_buf, PKT_BUFF_SIZ, sque)
                      /\ Holds(rsnd_add_cmd, PKT_RSND_BUFF_SIZ, rque)

IsTail(s, t) == Len(s) <= Len(t) /\ s = SubSeq(t, Len(t) - Len(s) + 1, Len(t))

Flat(q) ==
    LET f[i \in 0 .. Len(q)] == IF i = 0 THEN <<>> ELSE f[i - 1] \o Image(q[i]) IN f[Len(q)]

(* A new packet consists of whole commands, all of which the resend ring holds *)
(* last; a resent packet is exactly what the resend ring holds: what is sent   *)
(* again after a NAK or a time-out contains all that was sent before.          *)
PacketCanBeResent ==
    [][job.pc = "read" /\ job'.pc = "none" =>
          IF job.type = "A" THEN packet = Flat(rque) ELSE IsTail(packet, Flat(rque))]_vars

(* The packet task never hangs in the loop that makes room in the resend ring, *)
(* and PKTbuf_SetSendCommand returns, even when the ring stays full, as long as  *)
(* no length has gone wrong.                                                     *)
CallsReturn ==
    /\ job.pc # "none" ~> job.pc = "none" \/ harm # "none"
    /\ \A t \in Tasks : call[t].pc = "wait" ~> call[t].pc = "idle" \/ harm # "none"

(* A call that waited for room sets what its caller passed, or else a command    *)
(* that the other task edited in the same work area meanwhile (pkt_buffer.c 307, *)
(* pktctrl.c 33): one from an area of its task alone, as a text is, is never     *)
(* lost to another, and nothing is set that no task asked for.                   *)
SetsOwnOrShared ==
    [][\A t \in Tasks :
          call[t].pc = "wait" /\ turn = t /\ sque' # sque =>
             \E c \in Cmds :
                /\ sque' = Append(sque, c)
                /\ c # call[t].cmd => /\ WorkOf[c] = WorkOf[call[t].cmd]
                                      /\ c \in CmdsOf[Other(t)]]_vars
=============================================================================
