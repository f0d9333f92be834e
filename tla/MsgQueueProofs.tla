--------------------------- MODULE MsgQueueProofs ---------------------------
(* Proofs about the message kernel, for every number of buffers, mailboxes, *)
(* messages and interrupt levels.  First the types.  Then the structure of  *)
(* the lists, as long as fewer buffers are in use than there are and no     *)
(* mailbox outgrows the loop index of Target_MsgGet.                        *)
EXTENDS MCMsgQueue, TLAPS, FiniteSetTheorems, SequenceTheorems

-----------------------------------------------------------------------------
(* What Left and Joined do to a list. *)

(* A sequence written element by element is a sequence. *)
LEMMA SeqByElements ==
    ASSUME NEW S, NEW n \in Nat, NEW f \in [1 .. n -> S]
    PROVE  f \in Seq(S) /\ Len(f) = n
BY SeqDef, LenProperties

(* Removing a buffer from a list of buffers gives a list of buffers. *)
LEMMA LeftType ==
    ASSUME NEW S, NEW s \in Seq(S), NEW b
    PROVE  Left(s, b) \in Seq(S)
<1>1. CASE b \notin Range(s)
  BY <1>1 DEF Left
<1>2. CASE b \in Range(s)
  <2> DEFINE k == CHOOSE i \in 1 .. Len(s) : s[i] = b
             f == [i \in 1 .. Len(s) - 1 |-> IF i < k THEN s[i] ELSE s[i + 1]]
  <2>1. Len(s) \in Nat /\ DOMAIN s = 1 .. Len(s) /\ \A i \in 1 .. Len(s) : s[i] \in S
    BY LenProperties
  <2>2. PICK j \in 1 .. Len(s) : s[j] = b
    BY <1>2, <2>1 DEF Range
  <2>3. k \in 1 .. Len(s)
    BY <2>2
  <2>4. Len(s) - 1 \in Nat
    BY <2>1, <2>2
  <2>5. f \in [1 .. Len(s) - 1 -> S]
    BY <2>1, <2>3
  <2>6. f \in Seq(S)
    BY <2>4, <2>5, SeqByElements
  <2> QED
    BY <1>2, <2>6 DEF Left
<1> QED
  BY <1>1, <1>2

(* Adding a buffer to a list of buffers gives a list of buffers. *)
LEMMA JoinedType ==
    ASSUME NEW S, NEW s \in Seq(S), NEW b \in S
    PROVE  Joined(s, b) \in Seq(S)
BY AppendProperties DEF Joined

-----------------------------------------------------------------------------
(* Type correctness. *)

LEMMA NullAndBufs ==
    /\ NULL \notin Bufs
    /\ 1 \in Bufs
    /\ MSGBUF_CNT \in Bufs
    /\ POOL \in Lists
    /\ \A t \in Boxes : t \in Lists /\ t # POOL
    /\ NoBox \notin Boxes
BY BoxAssumption, SizeAssumption DEF NULL, Bufs, Lists

LEMMA InitialPool == [i \in Bufs |-> i] \in Seq(Bufs) /\ Len([i \in Bufs |-> i]) = MSGBUF_CNT
<1>1. [i \in Bufs |-> i] \in [1 .. MSGBUF_CNT -> Bufs] /\ MSGBUF_CNT \in Nat
  BY SizeAssumption DEF Bufs
<1> QED
  BY <1>1, SeqByElements

LEMMA StartTypes ==
    ASSUME msg_next = Mcb_Chain,
           command = [b \in Bufs |-> NULL],
           msg_top = [p \in Lists |-> IF p = POOL THEN 1 ELSE NULL],
           msg_end = [p \in Lists |-> IF p = POOL THEN MSGBUF_CNT ELSE NULL],
           event = [t \in Boxes |-> "MSG_EMPTY"],
           MESSAGEFULL = FALSE,
           ctx = [c \in Contexts |-> Idle],
           held = [t \in Boxes |-> {}],
           que = [p \in Lists |-> IF p = POOL THEN [i \in Bufs |-> i] ELSE <<>>]
    PROVE  TypeOK
<1>1. Mcb_Chain \in [Bufs -> Bufs \cup {NULL}]
  BY SizeAssumption DEF Mcb_Chain, Bufs, NULL
<1>2. que \in [Lists -> Seq(Bufs)]
  BY InitialPool, EmptySeq
<1> QED
  BY <1>1, <1>2, NullAndBufs DEF TypeOK, Idle

LEMMA InitTypes == Init => TypeOK
BY StartTypes DEF Init

(* AppendTo keeps the types of what it changes. *)
LEMMA AppendToTypes ==
    ASSUME TypeOK, NEW p \in Lists, NEW b \in Bufs, AppendTo(p, b)
    PROVE  /\ msg_next' \in [Bufs -> Bufs \cup {NULL}]
           /\ msg_top' \in [Lists -> Bufs \cup {NULL}]
           /\ msg_end' \in [Lists -> Bufs \cup {NULL}]
           /\ que' \in [Lists -> Seq(Bufs)]
<1>1. Joined(que[p], b) \in Seq(Bufs)
  BY JoinedType DEF TypeOK
<1> QED
  BY <1>1 DEF AppendTo, Linked, TypeOK

LEMMA PutMsgTypes ==
    ASSUME TypeOK, NEW id, NEW b \in Bufs, PutMsg(id, b)
    PROVE  /\ msg_next' \in [Bufs -> Bufs \cup {NULL}]
           /\ msg_top' \in [Lists -> Bufs \cup {NULL}]
           /\ msg_end' \in [Lists -> Bufs \cup {NULL}]
           /\ event' \in [Boxes -> {"MSG_SET", "MSG_EMPTY"}]
           /\ que' \in [Lists -> Seq(Bufs)]
<1>1. CASE id \in Boxes /\ AppendTo(id, b) /\ event' = [event EXCEPT ![id] = "MSG_SET"]
  BY <1>1, AppendToTypes, NullAndBufs DEF TypeOK
<1>2. CASE id \notin Boxes /\ FreeBuf(b)
  BY <1>2, AppendToTypes, NullAndBufs DEF TypeOK, FreeBuf
<1> QED
  BY <1>1, <1>2 DEF PutMsg

LEMMA TakeHeadTypes ==
    ASSUME TypeOK, NEW t \in Boxes, msg_top[t] # NULL, TakeHead(t)
    PROVE  /\ msg_next' \in [Bufs -> Bufs \cup {NULL}]
           /\ msg_top' \in [Lists -> Bufs \cup {NULL}]
           /\ msg_end' \in [Lists -> Bufs \cup {NULL}]
           /\ event' \in [Boxes -> {"MSG_SET", "MSG_EMPTY"}]
<1>1. msg_top[t] \in Bufs
  BY NullAndBufs DEF TypeOK
<1>2. msg_next[msg_top[t]] \in Bufs \cup {NULL}
  BY <1>1 DEF TypeOK
<1>3. EndWithout(t, msg_next[msg_top[t]]) \in Bufs \cup {NULL}
  BY NullAndBufs DEF TypeOK, EndWithout
<1>4. EventWithout(t, msg_next[msg_top[t]]) \in {"MSG_SET", "MSG_EMPTY"}
  BY DEF TypeOK, EventWithout
<1> QED
  BY <1>2, <1>3, <1>4 DEF TakeHead, TypeOK

LEMMA TakesTypes ==
    ASSUME TypeOK, NEW t \in Boxes, NEW b \in Bufs, Takes(t, b)
    PROVE  /\ held' \in [Boxes -> SUBSET Bufs]
           /\ que' \in [Lists -> Seq(Bufs)]
<1>1. Left(que[t], b) \in Seq(Bufs)
  BY LeftType, NullAndBufs DEF TypeOK
<1> QED
  BY <1>1 DEF Takes, TypeOK

LEMMA NextTypes == TypeOK /\ [Next]_vars => TypeOK'
<1> SUFFICES ASSUME TypeOK, [Next]_vars
             PROVE  TypeOK'
  OBVIOUS
<1>1. ASSUME NEW c \in Contexts, NEW id \in Boxes \cup {NoBox}, NEW m \in Msgs, Queset(c, id, m)
      PROVE  TypeOK'
  BY <1>1 DEF Queset, TypeOK
<1>2. ASSUME NEW c \in Contexts, QuesetFull(c)
      PROVE  TypeOK'
  BY <1>2 DEF QuesetFull, TypeOK
<1>3. ASSUME NEW c \in Contexts, GetBuf(c)
      PROVE  TypeOK'
  <2> DEFINE b == msg_top[POOL]
  <2>1. b \in Bufs
    BY <1>3, NullAndBufs DEF GetBuf, TypeOK
  <2>2. Left(que[POOL], b) \in Seq(Bufs)
    BY LeftType, NullAndBufs DEF TypeOK
  <2>3. msg_next[b] \in Bufs \cup {NULL}
    BY <2>1 DEF TypeOK
  <2> HIDE DEF b
  <2>4. /\ msg_top' = [msg_top EXCEPT ![POOL] = msg_next[b]]
        /\ que' = [que EXCEPT ![POOL] = Left(@, b)]
        /\ ctx' = [ctx EXCEPT ![c] = [@ EXCEPT !.pc = "put", !.buf = b]]
        /\ UNCHANGED <<msg_next, command, msg_end, event, MESSAGEFULL, held>>
    BY <1>3 DEF GetBuf, b
  <2>5. ctx' \in [Contexts -> [pc : {"idle", "alloc", "put"}, dest : Boxes \cup {NoBox},
                               msg : Msgs \cup {NULL}, buf : Bufs \cup {NULL}]]
        /\ \A d \in Contexts : ctx'[d].pc = "put" => ctx'[d].buf \in Bufs
    <3> DEFINE r == [ctx[c] EXCEPT !.pc = "put", !.buf = b]
    <3>1. /\ r \in [pc : {"idle", "alloc", "put"}, dest : Boxes \cup {NoBox},
                    msg : Msgs \cup {NULL}, buf : Bufs \cup {NULL}]
          /\ r.buf = b
      BY <2>1 DEF TypeOK
    <3>2. ctx' = [ctx EXCEPT ![c] = r]
      BY <2>4
    <3> HIDE DEF r
    <3> QED
      BY <2>1, <3>1, <3>2 DEF TypeOK
  <2>6. msg_top' \in [Lists -> Bufs \cup {NULL}] /\ que' \in [Lists -> Seq(Bufs)]
    BY <2>2, <2>3, <2>4 DEF TypeOK
  <2> QED
    BY <2>4, <2>5, <2>6 DEF TypeOK
<1>4. ASSUME NEW c \in Contexts, GetBufRace(c)
      PROVE  TypeOK'
  <2>1. msg_top' \in [Lists -> Bufs \cup {NULL}]
    BY <1>4 DEF GetBufRace, TypeOK
  <2>2. ctx' = [ctx EXCEPT ![c] = Idle]
    BY <1>4 DEF GetBufRace
  <2>3. /\ UNCHANGED <<msg_next, command, msg_end, event, MESSAGEFULL, held, que>>
    BY <1>4 DEF GetBufRace
  <2> QED
    BY <2>1, <2>2, <2>3 DEF TypeOK, Idle
<1>5. ASSUME NEW c \in Contexts, QuesetPut(c)
      PROVE  TypeOK'
  <2>1. ctx[c].buf \in Bufs
    BY <1>5 DEF QuesetPut, TypeOK
  <2>2. PICK id : PutMsg(id, ctx[c].buf)
    BY <1>5 DEF QuesetPut
  <2>3. /\ msg_next' \in [Bufs -> Bufs \cup {NULL}]
        /\ msg_top' \in [Lists -> Bufs \cup {NULL}]
        /\ msg_end' \in [Lists -> Bufs \cup {NULL}]
        /\ event' \in [Boxes -> {"MSG_SET", "MSG_EMPTY"}]
        /\ que' \in [Lists -> Seq(Bufs)]
    BY <2>1, <2>2, PutMsgTypes
  <2>4. command' \in [Bufs -> Msgs \cup {NULL}]
    BY <1>5, <2>1 DEF QuesetPut, TypeOK
  <2>5. MESSAGEFULL' = MESSAGEFULL /\ held' = held /\ ctx' = [ctx EXCEPT ![c] = Idle]
    BY <1>5 DEF QuesetPut
  <2> QED
    BY <2>3, <2>4, <2>5 DEF TypeOK, Idle
<1>6. ASSUME NEW t \in Boxes, GetMsg(t)
      PROVE  TypeOK'
  <2>1. msg_top[t] # NULL /\ TakeHead(t) /\ Takes(t, msg_top[t])
    BY <1>6 DEF GetMsg, MayTake
  <2>2. msg_top[t] \in Bufs
    BY <2>1, NullAndBufs DEF TypeOK
  <2> QED
    BY <2>1, <2>2, TakeHeadTypes, TakesTypes DEF TypeOK, Takes
<1>7. ASSUME NEW t \in Boxes, NEW wanted \in SUBSET Msgs, Target_MsgGet(t, wanted)
      PROVE  TypeOK'
  <2>a. PICK n \in 1 .. MSGBUF_CNT : \E path \in [1 .. n -> Bufs] :
            Unlink(t, n, path) /\ Takes(t, path[n])
    BY <1>7 DEF Target_MsgGet
  <2>1. PICK path \in [1 .. n -> Bufs] : Unlink(t, n, path) /\ Takes(t, path[n])
    BY <2>a
  <2>2. n \in Nat /\ n > 0 /\ path[n] \in Bufs
    BY <2>1, SizeAssumption
  <2>3. /\ msg_next' \in [Bufs -> Bufs \cup {NULL}]
        /\ msg_top' \in [Lists -> Bufs \cup {NULL}]
        /\ msg_end' \in [Lists -> Bufs \cup {NULL}]
        /\ event' \in [Boxes -> {"MSG_SET", "MSG_EMPTY"}]
    <3>1. CASE (n - 1) % UCHAR_MOD = 0 /\ TakeHead(t)
      BY <3>1, <1>7, TakeHeadTypes DEF Target_MsgGet, MayTake
    <3>2. CASE (n - 1) % UCHAR_MOD # 0 /\ ~ TakeHead(t)
      <4>1. n - 1 # 0
        <5>1. 0 % UCHAR_MOD = 0
          BY SizeAssumption
        <5> QED
          BY <3>2, <5>1
      <4>2. path[n - 1] \in Bufs
        BY <4>1, <2>2, <2>1
      <4> QED
        BY <3>2, <4>2, <2>1, <2>2, NullAndBufs DEF Unlink, TypeOK
    <3>3. CASE (n - 1) % UCHAR_MOD # 0 /\ TakeHead(t)
      BY <3>3, <1>7, TakeHeadTypes DEF Target_MsgGet, MayTake
    <3> QED
      BY <3>1, <3>2, <3>3, <2>1 DEF Unlink
  <2> QED
    BY <2>1, <2>2, <2>3, TakesTypes DEF TypeOK, Takes
<1>8. ASSUME NEW t \in Boxes, NEW b \in Bufs, Release(t, b)
      PROVE  TypeOK'
  <2>1. AppendTo(POOL, b) /\ event' = event
    BY <1>8 DEF Release, FreeBuf
  <2> QED
    BY <1>8, <2>1, AppendToTypes, NullAndBufs DEF Release, TypeOK
<1>9. ASSUME NEW t \in Boxes, NEW b \in Bufs, Requeue(t, b)
      PROVE  TypeOK'
  BY <1>9, PutMsgTypes DEF Requeue, TypeOK
<1>10. ASSUME idle_subtask
       PROVE  TypeOK'
  <2>1. Mcb_Chain \in [Bufs -> Bufs \cup {NULL}]
    BY SizeAssumption DEF Mcb_Chain, Bufs, NULL
  <2>2. que' \in [Lists -> Seq(Bufs)]
    BY <1>10, InitialPool, EmptySeq DEF idle_subtask
  <2> QED
    BY <1>10, <2>1, <2>2, NullAndBufs DEF idle_subtask, TypeOK, Idle
<1>11. CASE UNCHANGED vars
  BY <1>11 DEF vars, TypeOK
<1> QED
  BY <1>1, <1>2, <1>3, <1>4, <1>5, <1>6, <1>7, <1>8, <1>9, <1>10, <1>11
     DEF Next, ContextStep, TaskStep

(* Every reachable state is well typed, however many messages are under way, *)
(* so even the exhausted pool of idletask.c never makes a list head leave    *)
(* the message buffers (apart from what is read at address 0).               *)
THEOREM TypeCorrect == Spec => []TypeOK
BY InitTypes, NextTypes, PTL DEF Spec

-----------------------------------------------------------------------------
(* Numbers. *)

(* The least-number principle: what induction there is comes from it. *)
LEMMA LeastNumber ==
    ASSUME NEW T \in SUBSET Nat, T # {}
    PROVE  \E m \in T : \A k \in T : m <= k
<1> DEFINE Less == OpToRel(<, Nat)
<1>1. \E m \in T : \A k \in T : <<k, m>> \notin Less
  <2>1. IsWellFoundedOn(Less, Nat)
    BY NatLessThanWellFounded
  <2> HIDE DEF Less
  <2> QED
    BY <2>1, WFMin
<1>2. \A k, m \in Nat : k < m => <<k, m>> \in Less
  BY DEF OpToRel
<1> HIDE DEF Less
<1>3. PICK m \in T : \A k \in T : <<k, m>> \notin Less
  BY <1>1
<1>4. m \in Nat /\ \A k \in T : k \in Nat /\ ~ (k < m)
  BY <1>2, <1>3
<1> QED
  BY <1>4

LEMMA OneOrMore ==
    ASSUME NEW n \in Nat, n >= 1
    PROVE  n = 1 \/ n > 1
OBVIOUS

LEMMA TwoOrMore ==
    ASSUME NEW n \in Nat, 1 \in 1 .. n, n - 1 # 0
    PROVE  1 \in 1 .. n - 1 /\ n - 1 \in 1 .. n - 1 /\ (n - 1) + 1 = n
OBVIOUS

LEMMA TwoAhead ==
    ASSUME NEW k \in Nat, NEW i \in 1 .. (k - 1) - 1
    PROVE  /\ i \in 1 .. k - 1 /\ i + 1 \in 1 .. k - 1 /\ i \in 1 .. k
           /\ i + 1 \in 1 .. k /\ (i + 1) + 1 \in 1 .. k
  OBVIOUS

LEMMA ModSmall ==
    ASSUME NEW a \in Nat, NEW u \in Nat \ {0}, a < u
    PROVE  a % u = a
OBVIOUS

-----------------------------------------------------------------------------
(* Lists without repetition. *)

(* A list that loses its k-th element keeps the others and their order. *)
LEMMA LeftFacts ==
    ASSUME NEW s \in Seq(Bufs), IsInjective(s), NEW k \in 1 .. Len(s)
    PROVE  /\ Left(s, s[k]) \in Seq(Bufs)
           /\ Len(Left(s, s[k])) = Len(s) - 1
           /\ \A i \in 1 .. Len(s) - 1 : Left(s, s[k])[i] = IF i < k THEN s[i] ELSE s[i + 1]
           /\ \A x : x \in Range(Left(s, s[k])) <=> x \in Range(s) /\ x # s[k]
           /\ IsInjective(Left(s, s[k]))
<1> DEFINE l == [i \in 1 .. Len(s) - 1 |-> IF i < k THEN s[i] ELSE s[i + 1]]
<1>1. Len(s) \in Nat /\ DOMAIN s = 1 .. Len(s) /\ \A i \in 1 .. Len(s) : s[i] \in Bufs
  BY LenProperties
<1>2. \A i, j \in 1 .. Len(s) : s[i] = s[j] => i = j
  BY <1>1 DEF IsInjective
<1>3. s[k] \in Range(s)
  BY <1>1 DEF Range
<1>4. (CHOOSE i \in 1 .. Len(s) : s[i] = s[k]) = k
  BY <1>2
<1>5. Left(s, s[k]) = l
  BY <1>3, <1>4 DEF Left
<1>6. l \in [1 .. Len(s) - 1 -> Bufs] /\ Len(s) - 1 \in Nat
  BY <1>1
<1>7. l \in Seq(Bufs) /\ Len(l) = Len(s) - 1 /\ DOMAIN l = 1 .. Len(s) - 1
  BY <1>6, SeqByElements
<1>8. \A i \in 1 .. Len(s) - 1 : l[i] = IF i < k THEN s[i] ELSE s[i + 1]
  OBVIOUS
<1> HIDE DEF l
<1>9. IsInjective(l)
  <2> SUFFICES ASSUME NEW i \in 1 .. Len(s) - 1, NEW j \in 1 .. Len(s) - 1, l[i] = l[j]
               PROVE  i = j
    BY <1>7 DEF IsInjective
  <2>1. i \in 1 .. Len(s) /\ j \in 1 .. Len(s) /\ i + 1 \in 1 .. Len(s) /\ j + 1 \in 1 .. Len(s)
    BY <1>1
  <2> QED
    BY <2>1, <1>1, <1>2, <1>8
<1>10. ASSUME NEW x, x \in Range(l)
       PROVE  x \in Range(s) /\ x # s[k]
  <2>1. PICK i \in 1 .. Len(s) - 1 : x = l[i]
    BY <1>7, <1>10 DEF Range
  <2>2. i \in 1 .. Len(s) /\ i + 1 \in 1 .. Len(s)
    BY <1>1
  <2> QED
    BY <2>1, <2>2, <1>1, <1>2, <1>8 DEF Range
<1>11. ASSUME NEW x \in Range(s), x # s[k]
       PROVE  x \in Range(l)
  <2>1. PICK j \in 1 .. Len(s) : x = s[j]
    BY <1>1 DEF Range
  <2>2. CASE j < k
    <3>1. j \in 1 .. Len(s) - 1 /\ l[j] = x
      BY <2>1, <2>2, <1>1, <1>8
    <3> QED
      BY <3>1, <1>7 DEF Range
  <2>3. CASE j > k
    <3>1. j - 1 \in 1 .. Len(s) - 1 /\ l[j - 1] = x
      BY <2>1, <2>3, <1>1, <1>8
    <3> QED
      BY <3>1, <1>7 DEF Range
  <2>4. j # k
    BY <2>1, <1>11
  <2> QED
    BY <2>2, <2>3, <2>4, <1>1
<1> QED
  BY <1>5, <1>7, <1>8, <1>9, <1>10, <1>11

(* A list that a new element joins. *)
LEMMA JoinedFacts ==
    ASSUME NEW s \in Seq(Bufs), IsInjective(s), NEW b \in Bufs, b \notin Range(s)
    PROVE  /\ Joined(s, b) \in Seq(Bufs)
           /\ Len(Joined(s, b)) = Len(s) + 1
           /\ \A i \in 1 .. Len(s) : Joined(s, b)[i] = s[i]
           /\ Joined(s, b)[Len(s) + 1] = b
           /\ \A x : x \in Range(Joined(s, b)) <=> x \in Range(s) \/ x = b
           /\ IsInjective(Joined(s, b))
<1> DEFINE j == Append(s, b)
<1>1. Len(s) \in Nat /\ DOMAIN s = 1 .. Len(s) /\ \A i \in 1 .. Len(s) : s[i] \in Bufs
  BY LenProperties
<1>2. /\ j \in Seq(Bufs) /\ Len(j) = Len(s) + 1 /\ DOMAIN j = 1 .. Len(s) + 1
      /\ \A i \in 1 .. Len(s) : j[i] = s[i]
      /\ j[Len(s) + 1] = b
  BY <1>1, AppendProperties, LenProperties
<1> HIDE DEF j
<1>3. \A x : x \in Range(j) <=> x \in Range(s) \/ x = b
  BY <1>1, <1>2 DEF Range
<1>4. IsInjective(j)
  <2> SUFFICES ASSUME NEW m \in 1 .. Len(s) + 1, NEW n \in 1 .. Len(s) + 1, j[m] = j[n]
               PROVE  m = n
    BY <1>2 DEF IsInjective
  <2>1. \A i \in 1 .. Len(s) : s[i] # b
    BY <1>1 DEF Range
  <2>2. CASE m \in 1 .. Len(s) /\ n \in 1 .. Len(s)
    BY <2>2, <1>1, <1>2 DEF IsInjective
  <2>3. CASE m = Len(s) + 1 \/ n = Len(s) + 1
    BY <2>1, <2>3, <1>1, <1>2
  <2> QED
    BY <2>2, <2>3, <1>1
<1>5. Joined(s, b) = j
  BY DEF Joined, j
<1> QED
  BY <1>2, <1>3, <1>4, <1>5

-----------------------------------------------------------------------------
(* What each operation does to the lists. *)

LEMMA Lists1 ==
    ASSUME TypeOK, NEW p \in Lists
    PROVE  /\ que[p] \in Seq(Bufs)
           /\ Len(que[p]) \in Nat
           /\ DOMAIN que[p] = 1 .. Len(que[p])
           /\ \A i \in 1 .. Len(que[p]) : que[p][i] \in Bufs /\ que[p][i] \in Range(que[p])
           /\ \A x \in Range(que[p]) : \E i \in 1 .. Len(que[p]) : x = que[p][i]
           /\ \A x \in Range(que[p]) : x \in Bufs
           /\ que[p] = <<>> <=> Len(que[p]) = 0
<1>1. que[p] \in Seq(Bufs)
  BY DEF TypeOK
<1>2. Len(que[p]) \in Nat /\ DOMAIN que[p] = 1 .. Len(que[p])
      /\ \A i \in 1 .. Len(que[p]) : que[p][i] \in Bufs
  BY <1>1, LenProperties
<1>3. que[p] = <<>> <=> Len(que[p]) = 0
  BY <1>1, EmptySeq
<1> QED
  BY <1>1, <1>2, <1>3 DEF Range

(* No buffer is in two lists. *)
LEMMA Apart ==
    ASSUME OneOwner, NEW p \in Lists, NEW q \in Lists, NEW x \in Bufs,
           x \in Range(que[p]), x \in Range(que[q])
    PROVE  p = q
<1>1. p \in InLists(x) /\ q \in InLists(x)
  BY DEF InLists
<1>2. OwnedOnce(x)
  BY DEF OneOwner
<1> QED
  BY <1>1, <1>2 DEF OwnedOnce

(* A list whose ends and links are left alone stays sound. *)
LEMMA UntouchedList ==
    ASSUME TypeOK, NEW q \in Lists, Chained(que[q], msg_top[q], msg_end[q]),
           que'[q] = que[q], msg_top'[q] = msg_top[q], msg_end'[q] = msg_end[q],
           \A i \in 1 .. Len(que[q]) : msg_next'[que[q][i]] = msg_next[que[q][i]]
    PROVE  Chained(que[q], msg_top[q], msg_end[q])'
<1>1. que[q] # <<>> => Len(que[q]) \in 1 .. Len(que[q])
  BY Lists1
<1>2. \A i \in 1 .. Len(que[q]) - 1 : i \in 1 .. Len(que[q])
  BY Lists1
<1> QED
  BY <1>1, <1>2 DEF Chained

(* Appending a buffer that is in no list keeps every list sound. *)
LEMMA AppendSound ==
    ASSUME TypeOK, ListsSound, OneOwner,
           NEW p \in Lists, NEW b \in Bufs, InLists(b) = {}, AppendTo(p, b)
    PROVE  /\ ListsSound'
           /\ que' = [que EXCEPT ![p] = Joined(que[p], b)]
           /\ que'[p] # <<>>
<1> DEFINE s == que[p]
           j == Joined(s, b)
<1>1. \A q \in Lists : b \notin Range(que[q])
  BY DEF InLists
<1>2. s \in Seq(Bufs) /\ IsInjective(s) /\ b \notin Range(s)
  BY <1>1, Lists1 DEF OneOwner
<1>3. /\ j \in Seq(Bufs) /\ Len(j) = Len(s) + 1
      /\ \A i \in 1 .. Len(s) : j[i] = s[i]
      /\ j[Len(s) + 1] = b
  BY <1>2, JoinedFacts
<1>4. /\ que' = [que EXCEPT ![p] = j]
      /\ msg_end' = [msg_end EXCEPT ![p] = b]
      /\ msg_top' = [msg_top EXCEPT ![p] = IF @ = NULL THEN b ELSE @]
      /\ msg_next' = [x \in Bufs |-> IF x = b THEN NULL
                                   ELSE IF x = msg_end[p] THEN b ELSE msg_next[x]]
  BY DEF AppendTo, Linked
<1>5. que'[p] = j /\ msg_end'[p] = b /\ \A q \in Lists : q # p =>
        que'[q] = que[q] /\ msg_end'[q] = msg_end[q] /\ msg_top'[q] = msg_top[q]
  BY <1>4 DEF TypeOK
<1>6. j # <<>>
  BY <1>2, <1>3, LenProperties, EmptySeq
<1>7. Len(s) \in Nat /\ \A i \in 1 .. Len(s) : s[i] \in Bufs /\ s[i] \in Range(s) /\ s[i] # b
  BY <1>1, Lists1
<1>8. Chained(s, msg_top[p], msg_end[p])
  BY DEF ListsSound, ListSound
<1>9. NULL \notin Bufs
  BY NullAndBufs
<1> HIDE DEF j
<1>10. Chained(que[p], msg_top[p], msg_end[p])'
  <2>1. CASE s = <<>>
    <3>1. Len(s) = 0 /\ msg_top'[p] = b
      BY <2>1, <1>4, <1>8, Lists1 DEF Chained, TypeOK
    <3>2. Len(j) = 1 /\ j[1] = b /\ msg_next'[b] = NULL
      BY <3>1, <1>3, <1>4
    <3>3. 1 .. Len(j) - 1 = {} /\ j[Len(j)] = b
      BY <3>2
    <3>4. que'[p] = j /\ msg_end'[p] = b
      BY <1>5
    <3> QED
      BY <3>1, <3>2, <3>3, <3>4, <1>6 DEF Chained
  <2>2. CASE s # <<>>
    <3>1. Len(s) >= 1 /\ msg_top[p] = s[1] /\ msg_end[p] = s[Len(s)]
          /\ \A i \in 1 .. Len(s) - 1 : msg_next[s[i]] = s[i + 1]
      BY <2>2, <1>7, <1>8, Lists1 DEF Chained
    <3>2. msg_top'[p] = s[1]
      BY <3>1, <1>4, <1>7, <1>9 DEF TypeOK
    <3>3. j[1] = s[1] /\ j[Len(j)] = b /\ msg_next'[b] = NULL
      BY <3>1, <1>3, <1>4, <1>7
    <3>4. ASSUME NEW i \in 1 .. Len(j) - 1
          PROVE  msg_next'[j[i]] = j[i + 1]
      <4>1. i \in 1 .. Len(s) /\ j[i] = s[i] /\ s[i] \in Bufs /\ s[i] # b
        BY <1>3, <1>7
      <4>2. CASE i = Len(s)
        BY <4>1, <4>2, <1>3, <1>4, <3>1
      <4>3. CASE i < Len(s)
        <5>1. i \in 1 .. Len(s) - 1 /\ i + 1 \in 1 .. Len(s) /\ Len(s) \in 1 .. Len(s)
          BY <4>1, <4>3, <1>7
        <5>2. s[i] # s[Len(s)]
          BY <4>3, <5>1, <1>2, Lists1 DEF IsInjective
        <5> QED
          BY <4>1, <5>1, <5>2, <1>3, <1>4, <3>1
      <4> QED
        BY <4>1, <4>2, <4>3, <1>7
    <3> QED
      BY <3>2, <3>3, <3>4, <1>5, <1>6 DEF Chained
  <2> QED
    BY <2>1, <2>2
<1>11. ASSUME NEW q \in Lists, q # p
       PROVE  Chained(que[q], msg_top[q], msg_end[q])'
  <2>1. Chained(que[q], msg_top[q], msg_end[q])
    BY DEF ListsSound, ListSound
  <2>2. ASSUME NEW x \in Range(que[q])
        PROVE  msg_next'[x] = msg_next[x]
    <3>1. x \in Bufs /\ x # b
      BY <1>1, Lists1
    <3>2. x # msg_end[p]
      <4>1. CASE s = <<>>
        BY <4>1, <3>1, <1>8, <1>9 DEF Chained
      <4>2. CASE s # <<>>
        <5>1. msg_end[p] = s[Len(s)] /\ Len(s) \in 1 .. Len(s)
          BY <4>2, <1>7, <1>8, Lists1 DEF Chained
        <5>2. msg_end[p] \in Range(s)
          BY <5>1, <1>7
        <5> QED
          BY <5>2, <3>1, <1>11, Apart
      <4> QED
        BY <4>1, <4>2
    <3> QED
      BY <3>1, <3>2, <1>4
  <2>3. \A i \in 1 .. Len(que[q]) : msg_next'[que[q][i]] = msg_next[que[q][i]]
    BY <2>2, Lists1
  <2>4. que'[q] = que[q] /\ msg_end'[q] = msg_end[q] /\ msg_top'[q] = msg_top[q]
    BY <1>5, <1>11
  <2> QED
    BY <2>1, <2>3, <2>4, UntouchedList
<1>12. ListsSound'
  BY <1>10, <1>11 DEF ListsSound, ListSound
<1> QED
  BY <1>4, <1>5, <1>6, <1>12 DEF j

(* Who owns a buffer after one has joined list p. *)
LEMMA JoinOwners ==
    ASSUME TypeOK, OneOwner, NEW p \in Lists, NEW b \in Bufs, InLists(b) = {},
           que' = [que EXCEPT ![p] = Joined(que[p], b)]
    PROVE  /\ InLists(b)' = {p}
           /\ \A x \in Bufs : x # b => InLists(x)' = InLists(x)
           /\ \A q \in Lists : IsInjective(que'[q])
<1>1. \A q \in Lists : b \notin Range(que[q]) /\ que[q] \in Seq(Bufs) /\ IsInjective(que[q])
  BY Lists1 DEF InLists, OneOwner
<1>2. /\ \A x : x \in Range(Joined(que[p], b)) <=> x \in Range(que[p]) \/ x = b
      /\ IsInjective(Joined(que[p], b))
  BY <1>1, JoinedFacts
<1>3. que'[p] = Joined(que[p], b) /\ \A q \in Lists : q # p => que'[q] = que[q]
  BY DEF TypeOK
<1> QED
  BY <1>1, <1>2, <1>3 DEF InLists

(* Who owns a buffer after the k-th one has left list p. *)
LEMMA LeaveOwners ==
    ASSUME TypeOK, OneOwner, NEW p \in Lists, NEW k \in 1 .. Len(que[p]),
           NEW b, b = que[p][k], que' = [que EXCEPT ![p] = Left(que[p], b)]
    PROVE  /\ InLists(b) = {p} /\ InTransit(b) = {} /\ InHands(b) = {}
           /\ InLists(b)' = {}
           /\ \A x \in Bufs : x # b => InLists(x)' = InLists(x)
           /\ \A q \in Lists : IsInjective(que'[q])
<1>1. b \in Bufs /\ b \in Range(que[p]) /\ que[p] \in Seq(Bufs)
  BY Lists1
<1>2. \A q \in Lists : IsInjective(que[q])
  BY DEF OneOwner
<1>3. /\ \A x : x \in Range(Left(que[p], b)) <=> x \in Range(que[p]) /\ x # b
      /\ IsInjective(Left(que[p], b))
  BY <1>1, <1>2, LeftFacts
<1>4. que'[p] = Left(que[p], b) /\ \A q \in Lists : q # p => que'[q] = que[q]
  BY DEF TypeOK
<1>5. p \in InLists(b) /\ OwnedOnce(b)
  BY <1>1 DEF InLists, OneOwner
<1>6. InLists(b) = {p} /\ InTransit(b) = {} /\ InHands(b) = {}
  BY <1>5 DEF OwnedOnce
<1>7. InLists(b)' = {}
  BY <1>3, <1>4, <1>6 DEF InLists
<1>8. \A x \in Bufs : x # b => InLists(x)' = InLists(x)
  BY <1>3, <1>4 DEF InLists
<1>9. \A q \in Lists : IsInjective(que'[q])
  BY <1>2, <1>3, <1>4
<1> QED
  BY <1>6, <1>7, <1>8, <1>9

-----------------------------------------------------------------------------
(* How many buffers are in use. *)

LEMMA FiniteSets1 ==
    /\ IsFiniteSet(Bufs) /\ Cardinality(Bufs) = MSGBUF_CNT
    /\ IsFiniteSet(Contexts)
    /\ \A R : IsFiniteSet(Bufs \ R) /\ Cardinality(Bufs \ R) \in Nat
    /\ IsFiniteSet(Allocating) /\ Cardinality(Allocating) \in Nat
<1>1. IsFiniteSet(Bufs) /\ Cardinality(Bufs) = MSGBUF_CNT
  BY SizeAssumption, FS_Interval DEF Bufs
<1>2. IsFiniteSet(Contexts)
  BY SizeAssumption, FS_Interval DEF Contexts
<1>3. \A R : IsFiniteSet(Bufs \ R) /\ Cardinality(Bufs \ R) \in Nat
  <2> TAKE R
  <2>1. Bufs \ R \in SUBSET Bufs
    OBVIOUS
  <2>2. IsFiniteSet(Bufs \ R)
    BY <1>1, <2>1, FS_Subset
  <2> QED
    BY <2>2, FS_CardinalityType
<1>4. Allocating \in SUBSET Contexts
  BY DEF Allocating
<1>5. IsFiniteSet(Allocating)
  BY <1>2, <1>4, FS_Subset
<1> QED
  BY <1>1, <1>2, <1>3, <1>5, FS_CardinalityType

(* A pool that some buffer has not left is not empty. *)
LEMMA SomeInPool ==
    ASSUME NEW s \in Seq(Bufs), Cardinality(Bufs \ Range(s)) < MSGBUF_CNT
    PROVE  s # <<>>
<1> SUFFICES ASSUME s = <<>>
             PROVE  FALSE
  OBVIOUS
<1>1. Range(s) = {}
  BY EmptySeq DEF Range
<1>2. Bufs \ Range(s) = Bufs
  BY <1>1
<1>3. Cardinality(Bufs \ Range(s)) = MSGBUF_CNT
  BY <1>2, FiniteSets1
<1> QED
  BY <1>3, SizeAssumption

(* The buffers of a mailbox are in use. *)
LEMMA ListInUse ==
    ASSUME TypeOK, OneOwner, NEW t \in Boxes
    PROVE  Len(que[t]) <= Cardinality(Bufs \ Range(que[POOL]))
<1> DEFINE U == Bufs \ Range(que[POOL])
           n == Len(que[t])
<1>1. t \in Lists /\ POOL \in Lists /\ t # POOL
  BY NullAndBufs
<1>2. \A i \in 1 .. n : que[t][i] \in U
  BY <1>1, Lists1, Apart
<1>3. n \in Nat /\ DOMAIN que[t] = 1 .. n /\ que[t] \in [1 .. n -> Bufs]
  BY <1>1, Lists1, LenProperties
<1>4. que[t] \in [1 .. n -> U]
  BY <1>2, <1>3
<1>5. IsInjective(que[t])
  BY <1>1 DEF OneOwner
<1>6. que[t] \in Injection(1 .. n, U)
  BY <1>4, <1>5 DEF Injection
<1>7. IsFiniteSet(U)
  BY FiniteSets1
<1>8. Cardinality(1 .. n) <= Cardinality(U)
  BY <1>6, <1>7, FS_Injection
<1>9. Cardinality(1 .. n) = n
  <2>1. n \in Nat
    BY <1>3
  <2> HIDE DEF n
  <2>2. Cardinality(1 .. n) = IF 1 > n THEN 0 ELSE n - 1 + 1
    BY <2>1, FS_Interval
  <2> QED
    BY <2>1, <2>2
<1> QED
  BY <1>8, <1>9

(* Following msg_next from the head visits the list in its order. *)
LEMMA PathIsList ==
    ASSUME TypeOK, ListsSound, NEW t \in Boxes, msg_top[t] # NULL,
           NEW n \in 1 .. MSGBUF_CNT, NEW path \in [1 .. n -> Bufs],
           NEW wanted, Search(t, wanted, n, path)
    PROVE  /\ n <= Len(que[t])
           /\ \A i \in 1 .. n : path[i] = que[t][i]
<1> DEFINE s == que[t]
           Astray == {i \in 1 .. n : i > Len(s) \/ path[i] # s[i]}
<1>1. t \in Lists /\ NULL \notin Bufs /\ n \in Nat /\ n >= 1
  BY NullAndBufs, SizeAssumption
<1>2. /\ Len(s) \in Nat
      /\ s = <<>> <=> Len(s) = 0
  BY <1>1, Lists1
<1>3. Chained(s, msg_top[t], msg_end[t])
  BY <1>1 DEF ListsSound, ListSound
<1>4. Len(s) >= 1 /\ msg_top[t] = s[1] /\ msg_next[s[Len(s)]] = NULL
      /\ \A i \in 1 .. Len(s) - 1 : msg_next[s[i]] = s[i + 1]
  BY <1>2, <1>3 DEF Chained
<1>5. Astray = {}
  <2> SUFFICES ASSUME Astray # {}
               PROVE  FALSE
    OBVIOUS
  <2>1. Astray \in SUBSET Nat
    BY <1>1
  <2>2. PICK m \in Astray : \A k \in Astray : m <= k
    BY <2>1, LeastNumber
  <2>3. m \in 1 .. n /\ (m > Len(s) \/ path[m] # s[m])
    OBVIOUS
  <2>4. m # 1
    BY <2>3, <1>4 DEF Search
  <2>5. m - 1 \in 1 .. n - 1 /\ m - 1 \in 1 .. n
    BY <2>3, <2>4, <1>1
  <2>6. m - 1 \notin Astray
    BY <2>2, <2>5
  <2>7. m - 1 <= Len(s) /\ path[m - 1] = s[m - 1]
    BY <2>5, <2>6, <1>2
  <2>8. path[m] = msg_next[s[m - 1]] /\ path[m] \in Bufs
    <3>1. path[(m - 1) + 1] = msg_next[path[m - 1]]
      BY <2>5 DEF Search
    <3>2. (m - 1) + 1 = m
      BY <2>5
    <3> QED
      BY <3>1, <3>2, <2>7, <2>3
  <2>9. CASE m - 1 = Len(s)
    BY <2>8, <2>9, <1>1, <1>4
  <2>10. CASE m - 1 < Len(s)
    <3>1. m - 1 \in 1 .. Len(s) - 1 /\ (m - 1) + 1 = m
      BY <2>5, <2>10, <1>2
    <3>2. msg_next[s[m - 1]] = s[m]
      BY <3>1, <1>4
    <3> QED
      BY <3>1, <3>2, <2>3, <2>8, <1>2
  <2> QED
    BY <2>5, <2>7, <2>9, <2>10, <1>2
<1>6. \A i \in 1 .. n : i <= Len(s) /\ path[i] = s[i]
  BY <1>5, <1>2, <1>1
<1>7. n \in 1 .. n
  BY <1>1
<1> QED
  BY <1>6, <1>7

-----------------------------------------------------------------------------
(* Taking a message out of a mailbox. *)

(* Taking the head. *)
LEMMA HeadSound ==
    ASSUME TypeOK, ListsSound, EventTellsMail, OneOwner,
           NEW t \in Boxes, msg_top[t] # NULL, TakeHead(t),
           que' = [que EXCEPT ![t] = Left(que[t], msg_top[t])]
    PROVE  /\ ListsSound' /\ EventTellsMail'
           /\ 1 \in 1 .. Len(que[t]) /\ msg_top[t] = que[t][1]
<1> DEFINE s == que[t]
           l == Left(s, s[1])
<1>1. t \in Lists /\ NULL \notin Bufs
  BY NullAndBufs
<1>2. /\ s \in Seq(Bufs) /\ Len(s) \in Nat /\ IsInjective(s)
      /\ s = <<>> <=> Len(s) = 0
      /\ \A i \in 1 .. Len(s) : s[i] \in Bufs
  BY <1>1, Lists1 DEF OneOwner
<1>3. Chained(s, msg_top[t], msg_end[t])
  BY <1>1 DEF ListsSound, ListSound
<1>4. Len(s) >= 1 /\ s # <<>> /\ msg_top[t] = s[1] /\ msg_end[t] = s[Len(s)]
      /\ msg_next[s[Len(s)]] = NULL
      /\ \A i \in 1 .. Len(s) - 1 : msg_next[s[i]] = s[i + 1]
  BY <1>2, <1>3 DEF Chained
<1>5. 1 \in 1 .. Len(s)
  BY <1>2, <1>4
<1>6. /\ l \in Seq(Bufs) /\ Len(l) = Len(s) - 1
      /\ \A i \in 1 .. Len(s) - 1 : l[i] = s[i + 1]
  <2>1. s \in Seq(Bufs) /\ IsInjective(s) /\ 1 \in 1 .. Len(s)
    BY <1>2, <1>5
  <2>2. /\ Left(s, s[1]) \in Seq(Bufs) /\ Len(Left(s, s[1])) = Len(s) - 1
        /\ \A i \in 1 .. Len(s) - 1 : Left(s, s[1])[i] = IF i < 1 THEN s[i] ELSE s[i + 1]
    <3> HIDE DEF s, l
    <3> QED
      BY <2>1, LeftFacts
  <2> QED
    BY <2>1, <2>2
<1>7. que'[t] = l /\ \A q \in Lists : q # t => que'[q] = que[q]
  BY <1>1, <1>4 DEF TypeOK
<1>8. /\ msg_next' = msg_next
      /\ msg_top'[t] = msg_next[s[1]]
      /\ msg_end'[t] = IF msg_next[s[1]] = NULL THEN NULL ELSE msg_end[t]
      /\ event'[t] = IF msg_next[s[1]] = NULL THEN "MSG_EMPTY" ELSE event[t]
      /\ \A q \in Lists : q # t => msg_top'[q] = msg_top[q] /\ msg_end'[q] = msg_end[q]
      /\ \A u \in Boxes : u # t => event'[u] = event[u]
  BY <1>1, <1>4 DEF TakeHead, EndWithout, EventWithout, TypeOK
<1>9. l = <<>> <=> Len(l) = 0
  BY <1>6, EmptySeq
<1>10. event[t] = "MSG_SET"
  BY <1>4 DEF EventTellsMail
<1> HIDE DEF l
<1>11. Chained(que[t], msg_top[t], msg_end[t])' /\ (event'[t] = "MSG_SET" <=> l # <<>>)
  <2>1. CASE Len(s) = 1
    <3>1. msg_next[s[1]] = NULL /\ l = <<>>
      BY <2>1, <1>4, <1>6, <1>9
    <3> QED
      BY <3>1, <1>7, <1>8 DEF Chained
  <2>2. CASE Len(s) > 1
    <3>a. 1 \in 1 .. Len(s) - 1 /\ 2 \in 1 .. Len(s) /\ Len(l) # 0
      BY <2>2, <1>2, <1>6
    <3>1. msg_next[s[1]] = s[2] /\ s[2] \in Bufs /\ l # <<>>
      BY <3>a, <1>2, <1>4, <1>9
    <3>2. msg_top'[t] = l[1] /\ msg_end'[t] = s[Len(s)]
      BY <2>2, <3>1, <1>1, <1>2, <1>4, <1>6, <1>8
    <3>3. l[Len(l)] = s[Len(s)] /\ \A i \in 1 .. Len(l) - 1 : l[i] = s[i + 1] /\ l[i + 1] = s[i + 2]
      BY <2>2, <1>2, <1>6
    <3>4. \A i \in 1 .. Len(l) - 1 : msg_next[l[i]] = l[i + 1]
      <4> TAKE i \in 1 .. Len(l) - 1
      <4>1. i + 1 \in 1 .. Len(s) - 1 /\ (i + 1) + 1 = i + 2
        BY <1>2, <1>6
      <4>2. msg_next[s[i + 1]] = s[i + 2]
        BY <4>1, <1>4
      <4> QED
        BY <4>2, <3>3
    <3>5. event'[t] = "MSG_SET"
      BY <3>1, <1>1, <1>8, <1>10
    <3>6. Chained(que[t], msg_top[t], msg_end[t])'
      <4>1. que'[t] = l /\ msg_next' = msg_next
        BY <1>7, <1>8
      <4>2. msg_end'[t] = l[Len(l)] /\ msg_next[l[Len(l)]] = NULL
        BY <3>2, <3>3, <1>4
      <4> QED
        BY <4>1, <4>2, <3>1, <3>2, <3>4 DEF Chained
    <3> QED
      BY <3>1, <3>5, <3>6
  <2>3. Len(s) = 1 \/ Len(s) > 1
    <3>1. Len(s) \in Nat /\ Len(s) >= 1
      BY <1>2, <1>4
    <3> QED
      BY <3>1, OneOrMore
  <2> QED
    BY <2>1, <2>2, <2>3
<1>12. ASSUME NEW q \in Lists, q # t
       PROVE  Chained(que[q], msg_top[q], msg_end[q])'
  BY <1>7, <1>8, <1>12 DEF ListsSound, ListSound, Chained
<1>13. ListsSound'
  BY <1>11, <1>12 DEF ListsSound, ListSound
<1>14. EventTellsMail'
  <2> SUFFICES ASSUME NEW u \in Boxes
               PROVE  event'[u] = "MSG_SET" <=> que'[u] # <<>>
    BY DEF EventTellsMail
  <2>1. CASE u = t
    BY <2>1, <1>7, <1>11
  <2>2. CASE u # t
    BY <2>2, <1>7, <1>8, NullAndBufs DEF EventTellsMail
  <2> QED
    BY <2>1, <2>2
<1> QED
  BY <1>4, <1>5, <1>13, <1>14

(* Taking the n-th message, n > 1: the link of the one before it, and the *)
(* end of the list when it was the last, are all that changes.            *)
LEMMA MiddleSound ==
    ASSUME TypeOK, ListsSound, EventTellsMail, OneOwner,
           NEW t \in Boxes, NEW n \in 2 .. Len(que[t]), NEW b, b = que[t][n],
           NEW a, a = que[t][n - 1],
           msg_next' = [msg_next EXCEPT ![a] = msg_next[b]],
           msg_end' = [msg_end EXCEPT ![t] = IF msg_end[t] = b THEN a ELSE @],
           UNCHANGED <<msg_top, event>>,
           que' = [que EXCEPT ![t] = Left(que[t], b)]
    PROVE  ListsSound' /\ EventTellsMail'
<1> DEFINE s == que[t]
           l == Left(s, b)
<1>1. t \in Lists
  BY NullAndBufs
<1>2. /\ s \in Seq(Bufs) /\ Len(s) \in Nat /\ IsInjective(s)
      /\ \A i, j \in 1 .. Len(s) : s[i] = s[j] => i = j
      /\ \A i \in 1 .. Len(s) : s[i] \in Bufs /\ s[i] \in Range(s)
  BY <1>1, Lists1 DEF OneOwner, IsInjective
<1>3. Chained(s, msg_top[t], msg_end[t])
  BY <1>1 DEF ListsSound, ListSound
<1>4. Len(s) >= 2 /\ s # <<>> /\ msg_top[t] = s[1] /\ msg_end[t] = s[Len(s)]
      /\ msg_next[s[Len(s)]] = NULL
      /\ \A i \in 1 .. Len(s) - 1 : msg_next[s[i]] = s[i + 1]
  BY <1>1, <1>2, <1>3, Lists1 DEF Chained
<1>5. n \in 1 .. Len(s) /\ n - 1 \in 1 .. Len(s) /\ 1 \in 1 .. Len(s) /\ Len(s) \in 1 .. Len(s)
  BY <1>2, <1>4
<1>6. /\ l \in Seq(Bufs) /\ Len(l) = Len(s) - 1
      /\ \A i \in 1 .. Len(s) - 1 : l[i] = IF i < n THEN s[i] ELSE s[i + 1]
  <2>1. /\ Left(s, s[n]) \in Seq(Bufs) /\ Len(Left(s, s[n])) = Len(s) - 1
        /\ \A i \in 1 .. Len(s) - 1 : Left(s, s[n])[i] = IF i < n THEN s[i] ELSE s[i + 1]
    <3>1. s \in Seq(Bufs) /\ IsInjective(s) /\ n \in 1 .. Len(s)
      BY <1>2, <1>5
    <3> HIDE DEF s, l
    <3> QED
      BY <3>1, LeftFacts
  <2> QED
    BY <2>1
<1>7. que'[t] = l /\ \A q \in Lists : q # t => que'[q] = que[q]
  BY <1>1 DEF TypeOK
<1>8. /\ \A x \in Bufs : msg_next'[x] = IF x = a THEN msg_next[b] ELSE msg_next[x]
      /\ msg_top' = msg_top /\ event' = event
      /\ msg_end'[t] = IF msg_end[t] = b THEN a ELSE msg_end[t]
      /\ \A q \in Lists : q # t => msg_end'[q] = msg_end[q]
  BY <1>1 DEF TypeOK
<1>9. l # <<>>
  BY <1>4, <1>6, EmptySeq
<1> HIDE DEF l
<1>10. Chained(que[t], msg_top[t], msg_end[t])'
  <2>1. msg_top'[t] = l[1]
    <3>1. 1 \in 1 .. Len(s) - 1 /\ 1 < n
      BY <1>2, <1>4
    <3>2. l[1] = s[1]
      BY <3>1, <1>6
    <3> QED
      BY <3>2, <1>4, <1>8
  <2>2. Len(l) \in 1 .. Len(s) - 1
    BY <1>2, <1>4, <1>6
  <2>3. msg_end'[t] = l[Len(l)] /\ msg_next'[l[Len(l)]] = NULL
    <3>1. CASE n = Len(s)
      <4>1. l[Len(l)] = a
        BY <3>1, <2>2, <1>6
      <4>2. msg_end'[t] = a /\ msg_next[b] = NULL
        BY <3>1, <1>4, <1>8
      <4>3. msg_next'[a] = msg_next[b]
        BY <1>2, <1>5, <1>8
      <4> QED
        BY <4>1, <4>2, <4>3
    <3>2. CASE n < Len(s)
      <4>1. l[Len(l)] = s[Len(s)] /\ s[Len(s)] # b /\ s[Len(s)] # a
        <5>1. l[Len(l)] = s[Len(s)]
          <6>1. ~ (Len(l) < n) /\ Len(l) + 1 = Len(s)
            BY <3>2, <1>2, <1>5, <1>6
          <6> QED
            BY <6>1, <2>2, <1>6
        <5>2. Len(s) # n /\ Len(s) # n - 1
          BY <3>2, <1>2, <1>5
        <5> QED
          BY <5>1, <5>2, <1>2, <1>5
      <4> QED
        BY <4>1, <1>2, <1>4, <1>5, <1>8
    <3> QED
      BY <3>1, <3>2, <1>5, <1>2
  <2>4. ASSUME NEW i \in 1 .. Len(l) - 1
        PROVE  msg_next'[l[i]] = l[i + 1]
    <3>1. i \in 1 .. Len(s) - 1 /\ i + 1 \in 1 .. Len(s) - 1 /\ i \in 1 .. Len(s)
          /\ i + 1 \in 1 .. Len(s) /\ (i + 1) + 1 \in 1 .. Len(s)
      <4>1. Len(s) \in Nat /\ Len(l) = Len(s) - 1
        BY <1>2, <1>6
      <4> HIDE DEF s, l
      <4> QED
        BY <4>1, TwoAhead
    <3>2. CASE i < n - 1
      <4>1. l[i] = s[i] /\ l[i + 1] = s[i + 1]
        BY <3>1, <3>2, <1>6
      <4>2. s[i] # a
        BY <3>1, <3>2, <1>2, <1>5
      <4> QED
        BY <4>1, <4>2, <3>1, <1>2, <1>4, <1>8
    <3>3. CASE i = n - 1
      <4>1. l[i] = a /\ l[i + 1] = s[(i + 1) + 1] /\ i + 1 = n
        BY <3>1, <3>3, <1>5, <1>6
      <4>2. msg_next'[a] = msg_next[b]
        BY <1>2, <1>5, <1>8
      <4>3. msg_next[b] = s[(i + 1) + 1]
        BY <3>1, <4>1, <1>4
      <4> QED
        BY <4>1, <4>2, <4>3
    <3>4. CASE i > n - 1
      <4>1. l[i] = s[i + 1] /\ l[i + 1] = s[(i + 1) + 1]
        BY <3>1, <3>4, <1>5, <1>6
      <4>2. s[i + 1] # a
        BY <3>1, <3>4, <1>2, <1>5
      <4> QED
        BY <4>1, <4>2, <3>1, <1>2, <1>4, <1>8
    <3> QED
      BY <3>2, <3>3, <3>4, <1>5
  <2> QED
    BY <2>1, <2>3, <2>4, <1>7, <1>9 DEF Chained
<1>11. ASSUME NEW q \in Lists, q # t
       PROVE  Chained(que[q], msg_top[q], msg_end[q])'
  <2>1. Chained(que[q], msg_top[q], msg_end[q])
    BY DEF ListsSound, ListSound
  <2>2. a \in Range(que[t]) /\ a \in Bufs
    BY <1>2, <1>5
  <2>3. \A i \in 1 .. Len(que[q]) : msg_next'[que[q][i]] = msg_next[que[q][i]]
    <3> TAKE i \in 1 .. Len(que[q])
    <3>1. que[q][i] \in Bufs /\ que[q][i] \in Range(que[q])
      BY Lists1
    <3>2. que[q][i] # a
      BY <3>1, <2>2, <1>1, <1>11, Apart
    <3> QED
      BY <3>1, <3>2, <1>8
  <2>4. que'[q] = que[q] /\ msg_end'[q] = msg_end[q] /\ msg_top'[q] = msg_top[q]
    BY <1>7, <1>8, <1>11
  <2> QED
    BY <2>1, <2>3, <2>4, UntouchedList
<1>12. ListsSound'
  BY <1>10, <1>11 DEF ListsSound, ListSound
<1>13. EventTellsMail'
  <2> SUFFICES ASSUME NEW u \in Boxes
               PROVE  event'[u] = "MSG_SET" <=> que'[u] # <<>>
    BY DEF EventTellsMail
  <2>1. CASE u = t
    BY <2>1, <1>4, <1>7, <1>8, <1>9 DEF EventTellsMail
  <2>2. CASE u # t
    BY <2>2, <1>7, <1>8, NullAndBufs DEF EventTellsMail
  <2> QED
    BY <2>1, <2>2
<1> QED
  BY <1>12, <1>13

-----------------------------------------------------------------------------
(* The inductive invariant. *)

IInv ==
    /\ TypeOK
    /\ ListsSound
    /\ EventTellsMail
    /\ OneOwner
    /\ Outstanding <= Load
    /\ ~ MESSAGEFULL

(* With a buffer to spare, the pool has a head. *)
LEMMA PoolReady ==
    ASSUME IInv, Load < MSGBUF_CNT
    PROVE  /\ POOL \in Lists
           /\ 1 \in 1 .. Len(que[POOL])
           /\ msg_top[POOL] = que[POOL][1]
           /\ msg_top[POOL] \in Bufs
           /\ msg_top[POOL] # NULL
<1>1. POOL \in Lists /\ NULL \notin Bufs
  BY NullAndBufs
<1>2. Cardinality(Bufs \ Range(que[POOL])) < MSGBUF_CNT
  <2>1. Cardinality(Bufs \ Range(que[POOL])) \in Nat /\ Cardinality(Allocating) \in Nat
    BY FiniteSets1
  <2> QED
    BY <2>1, SizeAssumption DEF IInv, Outstanding
<1>3. que[POOL] \in Seq(Bufs)
  BY <1>1, Lists1 DEF IInv
<1>4. que[POOL] # <<>>
  BY <1>2, <1>3, SomeInPool
<1>5. 1 \in 1 .. Len(que[POOL])
  BY <1>1, <1>4, Lists1 DEF IInv
<1>6. msg_top[POOL] = que[POOL][1]
  BY <1>1, <1>4 DEF IInv, ListsSound, ListSound, Chained
<1> QED
  BY <1>1, <1>5, <1>6, Lists1 DEF IInv

LEMMA InitInv == Init => IInv
<1> SUFFICES ASSUME Init
             PROVE  IInv
  OBVIOUS
<1> DEFINE all == [i \in Bufs |-> i]
<1>1. TypeOK
  BY InitTypes
<1>2. POOL \in Lists /\ \A t \in Boxes : t \in Lists /\ t # POOL
  BY NullAndBufs
<1>3. que[POOL] = all /\ \A p \in Lists : p # POOL => que[p] = <<>>
  BY <1>2 DEF Init
<1>4. all \in Seq(Bufs) /\ Len(all) = MSGBUF_CNT /\ DOMAIN all = Bufs
      /\ \A i \in Bufs : all[i] = i
  BY InitialPool
<1>5. MSGBUF_CNT \in Nat /\ MSGBUF_CNT >= 1
  BY SizeAssumption
<1> HIDE DEF all
<1>6. all # <<>>
  BY <1>4, <1>5, EmptySeq
<1>7. Chained(que[POOL], msg_top[POOL], msg_end[POOL])
  <2>1. msg_top[POOL] = 1 /\ msg_end[POOL] = MSGBUF_CNT
    BY <1>2 DEF Init
  <2>2. 1 \in Bufs /\ MSGBUF_CNT \in Bufs
    BY <1>5 DEF Bufs
  <2>3. \A b \in Bufs : msg_next[b] = IF b < MSGBUF_CNT THEN b + 1 ELSE NULL
    BY DEF Init, Mcb_Chain
  <2>4. msg_next[MSGBUF_CNT] = NULL
    BY <2>2, <2>3, <1>5
  <2>5. \A i \in 1 .. MSGBUF_CNT - 1 : i \in Bufs /\ i + 1 \in Bufs /\ msg_next[i] = i + 1
    BY <2>3, <1>5 DEF Bufs
  <2> QED
    BY <2>1, <2>2, <2>4, <2>5, <1>3, <1>4, <1>6 DEF Chained
<1>8. ASSUME NEW p \in Lists, p # POOL
      PROVE  Chained(que[p], msg_top[p], msg_end[p])
  BY <1>3, <1>8 DEF Init, Chained
<1>9. EventTellsMail
  BY <1>2, <1>3 DEF EventTellsMail, Init
<1>10. Range(all) = Bufs /\ Range(<<>>) = {}
  BY <1>4, EmptySeq DEF Range
<1>11. \A p \in Lists : IsInjective(que[p])
  BY <1>3, <1>4, EmptySeq DEF IsInjective
<1>12. ASSUME NEW b \in Bufs
       PROVE  OwnedOnce(b)
  <2>1. InLists(b) = {POOL}
    BY <1>2, <1>3, <1>10 DEF InLists
  <2>2. InTransit(b) = {}
    BY DEF InTransit, Init, Idle
  <2>3. InHands(b) = {}
    BY DEF InHands, Init
  <2> QED
    BY <2>1, <2>2, <2>3, <1>2 DEF OwnedOnce
<1>13. Outstanding = 0
  <2>1. Bufs \ Range(que[POOL]) = {}
    BY <1>3, <1>10
  <2>2. Allocating = {}
    BY DEF Allocating, Init, Idle
  <2> QED
    BY <2>1, <2>2, FS_EmptySet DEF Outstanding
<1>14. ~ MESSAGEFULL
  BY DEF Init
<1> QED
  BY <1>1, <1>7, <1>8, <1>9, <1>11, <1>12, <1>13, <1>14, SizeAssumption
     DEF IInv, ListsSound, ListSound, OneOwner

-----------------------------------------------------------------------------
(* Each action keeps it. *)

(* A buffer that nobody's list holds is appended to list p. *)
LEMMA PutKeeps ==
    ASSUME IInv, NEW p \in Lists, NEW b \in Bufs, InLists(b) = {}, AppendTo(p, b),
           p \in Boxes => event' = [event EXCEPT ![p] = "MSG_SET"],
           p = POOL => event' = event
    PROVE  /\ ListsSound'
           /\ EventTellsMail'
           /\ InLists(b)' = {p}
           /\ \A x \in Bufs : x # b => InLists(x)' = InLists(x)
           /\ \A q \in Lists : IsInjective(que'[q])
           /\ Cardinality(Bufs \ Range(que'[POOL])) <= Cardinality(Bufs \ Range(que[POOL]))
<1>1. /\ ListsSound'
      /\ que' = [que EXCEPT ![p] = Joined(que[p], b)]
      /\ que'[p] # <<>>
  BY AppendSound DEF IInv
<1>2. /\ InLists(b)' = {p}
      /\ \A x \in Bufs : x # b => InLists(x)' = InLists(x)
      /\ \A q \in Lists : IsInjective(que'[q])
  BY <1>1, JoinOwners DEF IInv
<1>3. \A q \in Lists : q # p => que'[q] = que[q]
  BY <1>1 DEF IInv, TypeOK
<1>4. EventTellsMail'
  <2> SUFFICES ASSUME NEW u \in Boxes
               PROVE  event'[u] = "MSG_SET" <=> que'[u] # <<>>
    BY DEF EventTellsMail
  <2>1. u \in Lists /\ u # POOL /\ event \in [Boxes -> {"MSG_SET", "MSG_EMPTY"}]
        /\ (event[u] = "MSG_SET" <=> que[u] # <<>>)
    BY NullAndBufs DEF IInv, TypeOK, EventTellsMail
  <2>2. CASE u = p
    BY <2>1, <2>2, <1>1
  <2>3. CASE u # p
    <3>1. que'[u] = que[u]
      BY <2>1, <2>3, <1>3
    <3>2. event'[u] = event[u]
      BY <2>1, <2>3 DEF Lists
    <3> QED
      BY <3>1, <3>2, <2>1
  <2> QED
    BY <2>2, <2>3
<1>5. Cardinality(Bufs \ Range(que'[POOL])) <= Cardinality(Bufs \ Range(que[POOL]))
  <2>1. POOL \in Lists
    BY NullAndBufs
  <2>2. ASSUME NEW x \in Bufs, x \in Range(que[POOL])
        PROVE  x \in Range(que'[POOL])
    <3>1. POOL \in InLists(x) /\ x # b
      BY <2>1, <2>2 DEF InLists
    <3>2. POOL \in InLists(x)'
      BY <3>1, <1>2
    <3> QED
      BY <3>2 DEF InLists
  <2>3. (Bufs \ Range(que'[POOL])) \in SUBSET (Bufs \ Range(que[POOL]))
    BY <2>2
  <2> QED
    BY <2>3, FiniteSets1, FS_Subset
<1> QED
  BY <1>1, <1>2, <1>4, <1>5

LEMMA PutMsgList ==
    ASSUME TypeOK, NEW id, NEW b, PutMsg(id, b)
    PROVE  \E p \in Lists : /\ AppendTo(p, b)
                            /\ p \in Boxes => event' = [event EXCEPT ![p] = "MSG_SET"]
                            /\ p = POOL => event' = event
BY NullAndBufs DEF PutMsg, FreeBuf

(* The k-th message of a mailbox becomes the task's. *)
LEMMA TakeOwners ==
    ASSUME IInv, NEW t \in Boxes, NEW k \in 1 .. Len(que[t]), NEW b, b = que[t][k], Takes(t, b)
    PROVE  OneOwner' /\ Outstanding' <= Load
<1>1. t \in Lists /\ t # POOL /\ POOL \in Lists
  BY NullAndBufs
<1>2. b \in Bufs
  BY <1>1, Lists1 DEF IInv
<1>3. /\ que' = [que EXCEPT ![t] = Left(que[t], b)]
      /\ held' = [held EXCEPT ![t] = @ \cup {b}]
      /\ ctx' = ctx
  BY DEF Takes
<1>4. /\ InLists(b) = {t} /\ InTransit(b) = {} /\ InHands(b) = {}
      /\ InLists(b)' = {}
      /\ \A x \in Bufs : x # b => InLists(x)' = InLists(x)
      /\ \A q \in Lists : IsInjective(que'[q])
  BY <1>1, <1>3, LeaveOwners DEF IInv
<1>5. InHands(b)' = {t} /\ \A x \in Bufs : x # b => InHands(x)' = InHands(x)
  BY <1>3, <1>4 DEF InHands, IInv, TypeOK
<1>6. \A x \in Bufs : InTransit(x)' = InTransit(x)
  BY <1>3 DEF InTransit
<1>7. ASSUME NEW x \in Bufs
      PROVE  OwnedOnce(x)'
  <2>1. CASE x = b
    BY <2>1, <1>4, <1>5, <1>6 DEF OwnedOnce
  <2>2. CASE x # b
    BY <2>2, <1>4, <1>5, <1>6 DEF OwnedOnce, IInv, OneOwner
  <2> QED
    BY <2>1, <2>2
<1>8. Outstanding' = Outstanding
  <2>1. que'[POOL] = que[POOL]
    BY <1>1, <1>3 DEF IInv, TypeOK
  <2>2. Allocating' = Allocating
    BY <1>3 DEF Allocating
  <2> QED
    BY <2>1, <2>2 DEF Outstanding
<1> QED
  BY <1>4, <1>7, <1>8 DEF OneOwner, IInv

LEMMA QuesetKeeps ==
    ASSUME IInv, TypeOK', NEW c \in Contexts, NEW id, NEW m, Queset(c, id, m)
    PROVE  IInv'
<1>1. /\ UNCHANGED <<msg_next, command, msg_top, msg_end, event, MESSAGEFULL, held, que>>
      /\ ctx' = [ctx EXCEPT ![c] = [pc |-> "alloc", dest |-> id, msg |-> m, buf |-> NULL]]
      /\ ctx[c] = Idle /\ Outstanding < Load
  BY DEF Queset, MayCall
<1>2. ctx'[c].pc = "alloc" /\ ctx[c].pc = "idle" /\ \A d \in Contexts : d # c => ctx'[d] = ctx[d]
  BY <1>1 DEF Idle, IInv, TypeOK
<1>3. ListsSound' /\ EventTellsMail' /\ ~ MESSAGEFULL'
  BY <1>1 DEF IInv, ListsSound, ListSound, Chained, EventTellsMail
<1>4. \A x : InTransit(x)' = InTransit(x)
  BY <1>2 DEF InTransit
<1>5. \A x : InLists(x)' = InLists(x) /\ InHands(x)' = InHands(x)
  BY <1>1 DEF InLists, InHands
<1>6. OneOwner'
  BY <1>1, <1>4, <1>5 DEF IInv, OneOwner, OwnedOnce
<1>7. Allocating' = Allocating \cup {c} /\ c \notin Allocating
  BY <1>2 DEF Allocating
<1>8. Cardinality(Allocating') = Cardinality(Allocating) + 1
  BY <1>7, FiniteSets1, FS_AddElement
<1>9. Outstanding' <= Load
  <2>1. Outstanding \in Nat /\ Outstanding' = Outstanding + 1
    BY <1>1, <1>8, FiniteSets1 DEF Outstanding
  <2> QED
    BY <2>1, <1>1, SizeAssumption
<1> QED
  BY <1>3, <1>6, <1>9 DEF IInv

LEMMA GetBufKeeps ==
    ASSUME IInv, TypeOK', Load < MSGBUF_CNT, NEW c \in Contexts, GetBuf(c)
    PROVE  IInv'
<1> DEFINE s == que[POOL]
<1>0. PICK b : b = msg_top[POOL]
  OBVIOUS
<1>1. POOL \in Lists /\ 1 \in 1 .. Len(s) /\ b = s[1] /\ b \in Bufs
  BY <1>0, PoolReady
<1>2. /\ UNCHANGED <<msg_next, command, msg_end, event, MESSAGEFULL, held>>
      /\ msg_top' = [msg_top EXCEPT ![POOL] = msg_next[b]]
      /\ que' = [que EXCEPT ![POOL] = Left(s, b)]
      /\ ctx' = [ctx EXCEPT ![c] = [@ EXCEPT !.pc = "put", !.buf = b]]
      /\ ctx[c].pc = "alloc"
  BY <1>0 DEF GetBuf
<1>3. /\ ctx'[c].pc = "put" /\ ctx'[c].buf = b
      /\ \A d \in Contexts : d # c => ctx'[d] = ctx[d]
  BY <1>2 DEF IInv, TypeOK
<1>4. /\ InLists(b) = {POOL} /\ InTransit(b) = {} /\ InHands(b) = {}
      /\ InLists(b)' = {}
      /\ \A x \in Bufs : x # b => InLists(x)' = InLists(x)
      /\ \A q \in Lists : IsInjective(que'[q])
  <2>1. TypeOK /\ OneOwner /\ b = que[POOL][1] /\ 1 \in 1 .. Len(que[POOL])
        /\ que' = [que EXCEPT ![POOL] = Left(que[POOL], b)]
    BY <1>1, <1>2 DEF IInv
  <2> QED
    BY <2>1, <1>1, LeaveOwners
<1>5. \A x \in Bufs : InTransit(x)' = IF x = b THEN {c} ELSE InTransit(x)
  <2> TAKE x \in Bufs
  <2>1. c \notin InTransit(x) /\ (x = b => InTransit(x) = {})
    BY <1>2, <1>4 DEF InTransit
  <2>2. c \in InTransit(x)' <=> x = b
    BY <1>3 DEF InTransit
  <2>3. \A d \in Contexts \ {c} : d \in InTransit(x)' <=> d \in InTransit(x)
    BY <1>3 DEF InTransit
  <2>4. InTransit(x)' \subseteq Contexts /\ InTransit(x) \subseteq Contexts
    BY DEF InTransit
  <2> QED
    BY <2>1, <2>2, <2>3, <2>4
<1>6. \A x \in Bufs : InHands(x)' = InHands(x)
  BY <1>2 DEF InHands
<1>7. \A x \in Bufs : OwnedOnce(x)'
  <2> TAKE x \in Bufs
  <2>1. CASE x = b
    BY <2>1, <1>4, <1>5, <1>6 DEF OwnedOnce
  <2>2. CASE x # b
    BY <2>2, <1>4, <1>5, <1>6 DEF OwnedOnce, IInv, OneOwner
  <2> QED
    BY <2>1, <2>2
<1>8. OneOwner'
  BY <1>4, <1>7 DEF OneOwner
<1>9. Outstanding' = Outstanding
  <2>1. \A x : x \in Bufs \ Range(que'[POOL]) <=> x \in (Bufs \ Range(s)) \cup {b}
    <3>1. ASSUME NEW x \in Bufs
          PROVE  x \in Range(que'[POOL]) <=> x \in Range(s) /\ x # b
      BY <1>1, <1>4 DEF InLists
    <3> QED
      BY <3>1, <1>1
  <2>2. Bufs \ Range(que'[POOL]) = (Bufs \ Range(s)) \cup {b}
    BY <2>1
  <2>3. b \notin Bufs \ Range(s)
    BY <1>1, Lists1 DEF IInv
  <2>4. Cardinality(Bufs \ Range(que'[POOL])) = Cardinality(Bufs \ Range(s)) + 1
    BY <2>2, <2>3, FiniteSets1, FS_AddElement
  <2>5. Allocating' = Allocating \ {c} /\ c \in Allocating
    BY <1>2, <1>3 DEF Allocating
  <2>6. Cardinality(Allocating') = Cardinality(Allocating) - 1
    BY <2>5, FiniteSets1, FS_RemoveElement
  <2> QED
    BY <2>4, <2>6, FiniteSets1 DEF Outstanding
<1>10. Left(s, b) # <<>>
  <2>1. que'[POOL] = Left(s, b) /\ que'[POOL] \in Seq(Bufs)
    BY <1>1, <1>2 DEF IInv, TypeOK
  <2>2. Cardinality(Allocating') \in Nat
    <3>1. Allocating' = Allocating \ {c}
      BY <1>2, <1>3 DEF Allocating
    <3>2. IsFiniteSet(Allocating')
      BY <3>1, FiniteSets1, FS_RemoveElement
    <3> QED
      BY <3>2, FS_CardinalityType
  <2>3. Cardinality(Bufs \ Range(que'[POOL])) < MSGBUF_CNT
    <3>1. Cardinality(Bufs \ Range(que'[POOL])) \in Nat
      BY FiniteSets1
    <3> QED
      BY <3>1, <2>2, <1>9, SizeAssumption DEF Outstanding, IInv
  <2> QED
    BY <2>1, <2>3, SomeInPool
<1>11. Chained(que[POOL], msg_top[POOL], msg_end[POOL])'
  <2>1. s \in Seq(Bufs) /\ IsInjective(s) /\ 1 \in 1 .. Len(s) /\ Len(s) \in Nat
    BY <1>1, Lists1 DEF IInv, OneOwner
  <2>2. /\ Left(s, s[1]) \in Seq(Bufs) /\ Len(Left(s, s[1])) = Len(s) - 1
        /\ \A i \in 1 .. Len(s) - 1 : Left(s, s[1])[i] = IF i < 1 THEN s[i] ELSE s[i + 1]
    <3> HIDE DEF s
    <3> QED
      BY <2>1, LeftFacts
  <2> DEFINE l == Left(s, b)
  <2>3. l \in Seq(Bufs) /\ Len(l) = Len(s) - 1 /\ \A i \in 1 .. Len(s) - 1 : l[i] = s[i + 1]
    BY <2>1, <2>2, <1>1
  <2>4. l # <<>> /\ que'[POOL] = l /\ msg_top'[POOL] = msg_next[s[1]]
        /\ msg_end' = msg_end /\ msg_next' = msg_next
    BY <1>1, <1>2, <1>10 DEF IInv, TypeOK
  <2> HIDE DEF l
  <2>5. Len(l) # 0
    BY <2>3, <2>4, EmptySeq
  <2>6. 1 \in 1 .. Len(s) - 1 /\ Len(l) \in 1 .. Len(s) - 1 /\ Len(l) + 1 = Len(s)
    BY <2>1, <2>3, <2>5, TwoOrMore
  <2>7. msg_end[POOL] = s[Len(s)] /\ msg_next[s[Len(s)]] = NULL
        /\ \A i \in 1 .. Len(s) - 1 : msg_next[s[i]] = s[i + 1]
    <3>1. Chained(s, msg_top[POOL], msg_end[POOL])
      BY <1>1 DEF IInv, ListsSound, ListSound
    <3>2. s # <<>>
      BY <1>1, Lists1 DEF IInv
    <3> QED
      BY <3>1, <3>2 DEF Chained
  <2>8. msg_top'[POOL] = l[1]
    BY <2>3, <2>4, <2>6, <2>7
  <2>9. msg_end'[POOL] = l[Len(l)] /\ msg_next'[l[Len(l)]] = NULL
    BY <2>3, <2>4, <2>6, <2>7
  <2>10. \A i \in 1 .. Len(l) - 1 : msg_next'[l[i]] = l[i + 1]
    <3> TAKE i \in 1 .. Len(l) - 1
    <3>1. i \in 1 .. Len(s) - 1 /\ i + 1 \in 1 .. Len(s) - 1
      BY <2>1, <2>3
    <3> QED
      BY <3>1, <2>3, <2>4, <2>7
  <2> QED
    BY <2>4, <2>8, <2>9, <2>10 DEF Chained
<1>12. ASSUME NEW q \in Lists, q # POOL
       PROVE  Chained(que[q], msg_top[q], msg_end[q])'
  <2>1. que'[q] = que[q] /\ msg_top'[q] = msg_top[q]
    BY <1>2, <1>12 DEF IInv, TypeOK
  <2> QED
    BY <2>1, <1>2 DEF IInv, ListsSound, ListSound, Chained
<1>13. ListsSound'
  BY <1>11, <1>12 DEF ListsSound, ListSound
<1>14. EventTellsMail'
  <2>1. \A u \in Boxes : que'[u] = que[u]
    BY <1>2, NullAndBufs DEF IInv, TypeOK
  <2> QED
    BY <2>1, <1>2 DEF IInv, EventTellsMail
<1> QED
  BY <1>2, <1>8, <1>9, <1>13, <1>14 DEF IInv

LEMMA QuesetPutKeeps ==
    ASSUME IInv, TypeOK', NEW c \in Contexts, QuesetPut(c)
    PROVE  IInv'
<1>a. ctx[c].pc = "put" /\ ctx[c].buf \in Bufs
  BY DEF QuesetPut, IInv, TypeOK
<1>b. PICK b \in Bufs : b = ctx[c].buf
  BY <1>a
<1>1. /\ ctx[c].pc = "put" /\ ctx[c].buf = b
      /\ ctx' = [ctx EXCEPT ![c] = Idle]
      /\ UNCHANGED <<MESSAGEFULL, held>>
  BY <1>a, <1>b DEF QuesetPut
<1>2. PICK id : PutMsg(id, b)
  BY <1>b DEF QuesetPut
<1>3. PICK p \in Lists : /\ AppendTo(p, b)
                         /\ p \in Boxes => event' = [event EXCEPT ![p] = "MSG_SET"]
                         /\ p = POOL => event' = event
  BY <1>2, PutMsgList DEF IInv
<1>4. InLists(b) = {} /\ InTransit(b) = {c} /\ InHands(b) = {}
  <2>1. c \in InTransit(b) /\ OwnedOnce(b)
    BY <1>1 DEF InTransit, IInv, OneOwner
  <2> QED
    BY <2>1 DEF OwnedOnce
<1>5. /\ ctx'[c].pc = "idle"
      /\ \A d \in Contexts : d # c => ctx'[d] = ctx[d]
  BY <1>1 DEF IInv, TypeOK, Idle
<1>6. /\ ListsSound' /\ EventTellsMail'
      /\ \A x \in Bufs : InLists(x)' = IF x = b THEN {p} ELSE InLists(x)
      /\ \A q \in Lists : IsInjective(que'[q])
      /\ Cardinality(Bufs \ Range(que'[POOL])) <= Cardinality(Bufs \ Range(que[POOL]))
  <2>1. InLists(b) = {} /\ AppendTo(p, b)
    BY <1>3, <1>4
  <2>2. p \in Boxes => event' = [event EXCEPT ![p] = "MSG_SET"]
    BY <1>3
  <2>3. p = POOL => event' = event
    BY <1>3
  <2>4. /\ ListsSound' /\ EventTellsMail'
        /\ InLists(b)' = {p}
        /\ \A x \in Bufs : x # b => InLists(x)' = InLists(x)
        /\ \A q \in Lists : IsInjective(que'[q])
        /\ Cardinality(Bufs \ Range(que'[POOL])) <= Cardinality(Bufs \ Range(que[POOL]))
    BY <2>1, <2>2, <2>3, PutKeeps
  <2>5. \A x \in Bufs : InLists(x)' = IF x = b THEN {p} ELSE InLists(x)
    BY <2>4
  <2> QED
    BY <2>4, <2>5
<1>7. \A x \in Bufs : InTransit(x)' = IF x = b THEN {} ELSE InTransit(x)
  BY <1>1, <1>4, <1>5 DEF InTransit
<1>8. \A x \in Bufs : InHands(x)' = InHands(x)
  BY <1>1 DEF InHands
<1>9. \A x \in Bufs : OwnedOnce(x)'
  <2> TAKE x \in Bufs
  <2>1. CASE x = b
    BY <2>1, <1>4, <1>6, <1>7, <1>8 DEF OwnedOnce
  <2>2. CASE x # b
    BY <2>2, <1>6, <1>7, <1>8 DEF OwnedOnce, IInv, OneOwner
  <2> QED
    BY <2>1, <2>2
<1>10. Allocating' = Allocating
  BY <1>1, <1>5 DEF Allocating
<1>11. Outstanding' <= Load
  <2>1. /\ Cardinality(Bufs \ Range(que'[POOL])) \in Nat
        /\ Cardinality(Bufs \ Range(que[POOL])) \in Nat
        /\ Cardinality(Allocating) \in Nat
    BY FiniteSets1
  <2>2. Cardinality(Bufs \ Range(que[POOL])) + Cardinality(Allocating) <= Load
    BY DEF IInv, Outstanding
  <2>3. Outstanding' = Cardinality(Bufs \ Range(que'[POOL])) + Cardinality(Allocating)
    BY <1>10 DEF Outstanding
  <2> QED
    BY <2>1, <2>2, <2>3, <1>6, SizeAssumption
<1> QED
  BY <1>1, <1>6, <1>9, <1>11 DEF IInv, OneOwner

(* A task gives up a buffer, which joins list p. *)
LEMMA GiveKeeps ==
    ASSUME IInv, TypeOK', NEW t \in Boxes, NEW b \in Bufs, b \in held[t],
           NEW p \in Lists, AppendTo(p, b),
           p \in Boxes => event' = [event EXCEPT ![p] = "MSG_SET"],
           p = POOL => event' = event,
           held' = [held EXCEPT ![t] = @ \ {b}],
           UNCHANGED <<command, MESSAGEFULL, ctx>>
    PROVE  IInv'
<1>1. InLists(b) = {} /\ InTransit(b) = {} /\ InHands(b) = {t}
  <2>1. t \in InHands(b) /\ OwnedOnce(b)
    BY DEF InHands, IInv, OneOwner
  <2> QED
    BY <2>1 DEF OwnedOnce
<1>2. /\ ListsSound' /\ EventTellsMail'
      /\ \A x \in Bufs : InLists(x)' = IF x = b THEN {p} ELSE InLists(x)
      /\ \A q \in Lists : IsInjective(que'[q])
      /\ Cardinality(Bufs \ Range(que'[POOL])) <= Cardinality(Bufs \ Range(que[POOL]))
  BY <1>1, PutKeeps
<1>3. \A x \in Bufs : InTransit(x)' = InTransit(x)
  BY DEF InTransit
<1>4. \A x \in Bufs : InHands(x)' = IF x = b THEN {} ELSE InHands(x)
  BY <1>1 DEF InHands, IInv, TypeOK
<1>5. \A x \in Bufs : OwnedOnce(x)'
  <2> TAKE x \in Bufs
  <2>1. CASE x = b
    BY <2>1, <1>1, <1>2, <1>3, <1>4 DEF OwnedOnce
  <2>2. CASE x # b
    BY <2>2, <1>2, <1>3, <1>4 DEF OwnedOnce, IInv, OneOwner
  <2> QED
    BY <2>1, <2>2
<1>6. Allocating' = Allocating
  BY DEF Allocating
<1>7. Outstanding' <= Load
  <2>1. /\ Cardinality(Bufs \ Range(que'[POOL])) \in Nat
        /\ Cardinality(Bufs \ Range(que[POOL])) \in Nat
        /\ Cardinality(Allocating) \in Nat
    BY FiniteSets1
  <2>2. Cardinality(Bufs \ Range(que[POOL])) + Cardinality(Allocating) <= Load
    BY DEF IInv, Outstanding
  <2>3. Outstanding' = Cardinality(Bufs \ Range(que'[POOL])) + Cardinality(Allocating)
    BY <1>6 DEF Outstanding
  <2> QED
    BY <2>1, <2>2, <2>3, <1>2, SizeAssumption
<1> QED
  BY <1>2, <1>5, <1>7 DEF IInv, OneOwner

LEMMA GetMsgKeeps ==
    ASSUME IInv, TypeOK', NEW t \in Boxes, GetMsg(t)
    PROVE  IInv'
<1>1. msg_top[t] # NULL /\ TakeHead(t) /\ Takes(t, msg_top[t])
  BY DEF GetMsg, MayTake
<1>2. que' = [que EXCEPT ![t] = Left(que[t], msg_top[t])] /\ MESSAGEFULL' = MESSAGEFULL
  BY <1>1 DEF Takes
<1>3. ListsSound' /\ EventTellsMail' /\ 1 \in 1 .. Len(que[t]) /\ msg_top[t] = que[t][1]
  BY <1>1, <1>2, HeadSound DEF IInv
<1>4. OneOwner' /\ Outstanding' <= Load
  BY <1>1, <1>3, TakeOwners
<1> QED
  BY <1>2, <1>3, <1>4 DEF IInv

LEMMA TargetKeeps ==
    ASSUME IInv, TypeOK', Load <= UCHAR_MOD, NEW t \in Boxes, NEW wanted, Target_MsgGet(t, wanted)
    PROVE  IInv'
<1>1. msg_top[t] # NULL
  BY DEF Target_MsgGet, MayTake
<1>2. PICK n \in 1 .. MSGBUF_CNT : \E path \in [1 .. n -> Bufs] :
          Search(t, wanted, n, path) /\ Unlink(t, n, path) /\ Takes(t, path[n])
  BY DEF Target_MsgGet
<1>3. PICK path \in [1 .. n -> Bufs] :
          Search(t, wanted, n, path) /\ Unlink(t, n, path) /\ Takes(t, path[n])
  BY <1>2
<1>4. n <= Len(que[t]) /\ \A i \in 1 .. n : path[i] = que[t][i]
  BY <1>1, <1>3, PathIsList DEF IInv
<1>5. n \in Nat /\ n >= 1 /\ t \in Lists
  BY SizeAssumption, NullAndBufs
<1>6. Len(que[t]) \in Nat /\ Len(que[t]) <= Load
  <2>1. Len(que[t]) \in Nat
    BY <1>5, Lists1 DEF IInv
  <2>2. Len(que[t]) <= Cardinality(Bufs \ Range(que[POOL]))
    BY ListInUse DEF IInv
  <2>3. Cardinality(Bufs \ Range(que[POOL])) \in Nat /\ Cardinality(Allocating) \in Nat
    BY FiniteSets1
  <2>4. Cardinality(Bufs \ Range(que[POOL])) + Cardinality(Allocating) <= Load
    BY DEF IInv, Outstanding
  <2> QED
    BY <2>1, <2>2, <2>3, <2>4, SizeAssumption
<1>7. n - 1 \in Nat /\ n - 1 < UCHAR_MOD /\ UCHAR_MOD \in Nat \ {0}
  BY <1>4, <1>5, <1>6, SizeAssumption
<1>8. (n - 1) % UCHAR_MOD = n - 1
  BY <1>7, ModSmall
<1>9. n \in 1 .. Len(que[t]) /\ n \in 1 .. n /\ path[n] = que[t][n]
  BY <1>4, <1>5, <1>6
<1>10. que' = [que EXCEPT ![t] = Left(que[t], path[n])] /\ MESSAGEFULL' = MESSAGEFULL
  BY <1>3 DEF Takes
<1>11. OneOwner' /\ Outstanding' <= Load
  BY <1>3, <1>9, TakeOwners
<1>12. ListsSound' /\ EventTellsMail'
  <2>1. CASE n = 1
    <3>1. TakeHead(t)
      BY <2>1, <1>3, <1>8 DEF Unlink
    <3>2. path[n] = msg_top[t]
      BY <2>1, <1>3 DEF Search
    <3> QED
      BY <3>1, <3>2, <1>1, <1>10, HeadSound DEF IInv
  <2>2. CASE n > 1
    <3>1. n \in 2 .. Len(que[t]) /\ n - 1 \in 1 .. n /\ n - 1 # 0
      BY <2>2, <1>5, <1>9
    <3>2. path[n - 1] = que[t][n - 1]
      BY <3>1, <1>4
    <3>3. /\ msg_next' = [msg_next EXCEPT ![path[n - 1]] = msg_next[path[n]]]
          /\ msg_end' = [msg_end EXCEPT ![t] = IF msg_end[t] = path[n] THEN path[n - 1] ELSE @]
          /\ UNCHANGED <<msg_top, event>>
      <4>1. CASE msg_end[t] = path[n]
        <5>1. msg_next[path[n]] = NULL
          <6>1. Chained(que[t], msg_top[t], msg_end[t]) /\ que[t] # <<>>
            BY <1>5, <1>9, Lists1 DEF IInv, ListsSound, ListSound
          <6> QED
            BY <6>1, <4>1 DEF Chained
        <5> QED
          BY <4>1, <5>1, <3>1, <1>3, <1>8 DEF Unlink
      <4>2. CASE msg_end[t] # path[n]
        <5>1. msg_end' = msg_end /\ msg_end = [msg_end EXCEPT ![t] = msg_end[t]]
          BY <4>2, <3>1, <1>3, <1>8 DEF Unlink, IInv, TypeOK
        <5> QED
          BY <4>2, <5>1, <3>1, <1>3, <1>8 DEF Unlink
      <4> QED
        BY <4>1, <4>2
    <3> QED
      BY <3>1, <3>2, <3>3, <1>9, <1>10, MiddleSound DEF IInv
  <2> QED
    BY <2>1, <2>2, <1>5, OneOrMore
<1> QED
  BY <1>10, <1>11, <1>12 DEF IInv

LEMMA RequeueKeeps ==
    ASSUME IInv, TypeOK', NEW t \in Boxes, NEW b \in Bufs, Requeue(t, b)
    PROVE  IInv'
<1>1. /\ b \in held[t] /\ held' = [held EXCEPT ![t] = @ \ {b}]
      /\ UNCHANGED <<command, MESSAGEFULL, ctx>>
      /\ PutMsg(t, b)
  BY DEF Requeue
<1>2. AppendTo(t, b) /\ event' = [event EXCEPT ![t] = "MSG_SET"]
  BY <1>1 DEF PutMsg
<1>3. t \in Lists /\ t # POOL
  BY NullAndBufs
<1> QED
  BY <1>1, <1>2, <1>3, GiveKeeps

LEMMA NextKeeps ==
    ASSUME Load < MSGBUF_CNT, Load <= UCHAR_MOD, IInv, [Next]_vars
    PROVE  IInv'
<1>1. TypeOK'
  BY NextTypes DEF IInv
<1>2. ASSUME NEW c \in Contexts, NEW id, NEW m, Queset(c, id, m)
      PROVE  IInv'
  BY <1>1, <1>2, QuesetKeeps
<1>3. ASSUME NEW c \in Contexts, QuesetFull(c) \/ GetBufRace(c)
      PROVE  IInv'
  BY <1>3, PoolReady DEF QuesetFull, GetBufRace
<1>4. ASSUME NEW c \in Contexts, GetBuf(c)
      PROVE  IInv'
  BY <1>1, <1>4, GetBufKeeps
<1>5. ASSUME NEW c \in Contexts, QuesetPut(c)
      PROVE  IInv'
  BY <1>1, <1>5, QuesetPutKeeps
<1>6. ASSUME NEW t \in Boxes, GetMsg(t)
      PROVE  IInv'
  BY <1>1, <1>6, GetMsgKeeps
<1>7. ASSUME NEW t \in Boxes, NEW wanted, Target_MsgGet(t, wanted)
      PROVE  IInv'
  BY <1>1, <1>7, TargetKeeps
<1>8. ASSUME NEW t \in Boxes, NEW b \in Bufs, Release(t, b)
      PROVE  IInv'
  <2>1. POOL \in Lists /\ POOL \notin Boxes
    BY BoxAssumption DEF Lists
  <2> QED
    BY <1>1, <1>8, <2>1, GiveKeeps DEF Release, FreeBuf
<1>9. ASSUME NEW t \in Boxes, NEW b \in Bufs, Requeue(t, b)
      PROVE  IInv'
  BY <1>1, <1>9, RequeueKeeps
<1>10. CASE idle_subtask
  BY <1>10 DEF idle_subtask, IInv
<1>11. CASE UNCHANGED vars
  BY <1>1, <1>11 DEF vars, IInv, ListsSound, ListSound, Chained, EventTellsMail, OneOwner,
     OwnedOnce, InLists, InTransit, InHands, Outstanding, Allocating
<1> QED
  BY <1>2, <1>3, <1>4, <1>5, <1>6, <1>7, <1>8, <1>9, <1>10, <1>11
     DEF Next, ContextStep, TaskStep

(* While fewer messages are under way than there are buffers, and fewer than   *)
(* the 8-bit index of Target_MsgGet can count, no interrupt at any point of    *)
(* queset can make the links of idletask.c lose, repeat or reorder a message.  *)
THEOREM ListsAreSound ==
    ASSUME Load < MSGBUF_CNT, Load <= UCHAR_MOD
    PROVE  Spec => []ListsSound
<1>1. Init => IInv
  BY InitInv
<1>2. IInv /\ [Next]_vars => IInv'
  BY NextKeeps
<1>3. IInv => ListsSound
  BY DEF IInv
<1> QED
  BY <1>1, <1>2, <1>3, PTL DEF Spec

(* Under the same conditions tcb[].event says exactly whether a message waits, *)
(* so idletask switches to the CAN task when and only when it has mail.        *)
THEOREM EventsTellMail ==
    ASSUME Load < MSGBUF_CNT, Load <= UCHAR_MOD
    PROVE  Spec => []EventTellsMail
<1>1. Init => IInv
  BY InitInv
<1>2. IInv /\ [Next]_vars => IInv'
  BY NextKeeps
<1>3. IInv => EventTellsMail
  BY DEF IInv
<1> QED
  BY <1>1, <1>2, <1>3, PTL DEF Spec

(* Under the same conditions every buffer has one owner at each moment: GetBuf, *)
(* PutMsg, GetMsg, Target_MsgGet and FreeBuf neither leak nor share one.        *)
THEOREM BuffersHaveOneOwner ==
    ASSUME Load < MSGBUF_CNT, Load <= UCHAR_MOD
    PROVE  Spec => []OneOwner
<1>1. Init => IInv
  BY InitInv
<1>2. IInv /\ [Next]_vars => IInv'
  BY NextKeeps
<1>3. IInv => OneOwner
  BY DEF IInv
<1> QED
  BY <1>1, <1>2, <1>3, PTL DEF Spec

(* Under the same conditions GetBuf never fails, so the machine is never reset *)
(* by a message-full error.                                                    *)
THEOREM NeverFull ==
    ASSUME Load < MSGBUF_CNT, Load <= UCHAR_MOD
    PROVE  Spec => [](~ MESSAGEFULL)
<1>1. Init => IInv
  BY InitInv
<1>2. IInv /\ [Next]_vars => IInv'
  BY NextKeeps
<1>3. IInv => ~ MESSAGEFULL
  BY DEF IInv
<1> QED
  BY <1>1, <1>2, <1>3, PTL DEF Spec

-----------------------------------------------------------------------------
(***************************************************************************)
(* MsgQueue implements Mailbox, for every number of buffers, mailboxes,    *)
(* messages and interrupt levels, as long as fewer buffers are in use than *)
(* there are and no mailbox outgrows the loop index of Target_MsgGet.      *)
(*                                                                         *)
(* The mailbox of a task is what the links lead to.  By the invariant of   *)
(* MsgQueueProofs that is the list in its intended order (Shown), so       *)
(* each step can be compared with one of Mailbox by what it does to the    *)
(* order.  CommandInv adds that whatever waits or has been taken carries   *)
(* the command it was sent with.                                           *)
(***************************************************************************)

-----------------------------------------------------------------------------
(* What the links lead to. *)

\* g is a walk along the links of mailbox t.
Walks(t, g) ==
    g = [i \in Bufs |-> IF i = 1 THEN msg_top[t]
                        ELSE IF g[i - 1] = NULL THEN NULL ELSE msg_next[g[i - 1]]]

\* The list itself, and NULL behind its end.
Listed(t) == [i \in Bufs |-> IF i <= Len(que[t]) THEN que[t][i] ELSE NULL]

\* There is one walk at most.
LEMMA OneWalk ==
    ASSUME NEW t, NEW g, NEW h, Walks(t, g), Walks(t, h)
    PROVE  g = h
<1>1. \A i \in Bufs : /\ g[i] = IF i = 1 THEN msg_top[t]
                                ELSE IF g[i - 1] = NULL THEN NULL ELSE msg_next[g[i - 1]]
                      /\ h[i] = IF i = 1 THEN msg_top[t]
                                ELSE IF h[i - 1] = NULL THEN NULL ELSE msg_next[h[i - 1]]
  BY Zenon DEF Walks
<1> DEFINE Differ == {i \in Bufs : g[i] # h[i]}
<1>2. Differ = {}
  <2> SUFFICES ASSUME Differ # {}
               PROVE  FALSE
    OBVIOUS
  <2>1. Differ \in SUBSET Nat
    BY SizeAssumption DEF Bufs
  <2>2. PICK m \in Differ : \A k \in Differ : m <= k
    <3> HIDE DEF Differ
    <3> QED BY <2>1, LeastNumber
  <2>3. m \in Bufs /\ g[m] # h[m] /\ m # 1
    BY <1>1
  <2>4. m - 1 \in Bufs /\ ~ (m <= m - 1)
    BY <2>3, SizeAssumption DEF Bufs
  <2>5. g[m - 1] = h[m - 1]
    BY <2>2, <2>4
  <2> QED
    BY <1>1, <2>3, <2>5
<1>3. \A i \in Bufs : g[i] = h[i]
  BY <1>2
<1>4. g = [i \in Bufs |-> g[i]] /\ h = [i \in Bufs |-> h[i]]
  BY Zenon DEF Walks
<1> QED
  BY <1>3, <1>4, Zenon

\* The walk visits the list in its order and then finds nothing.
LEMMA WalkIsListed ==
    ASSUME IInv, NEW t \in Boxes
    PROVE  Walk(t) = Listed(t)
<1> DEFINE s == que[t]
           w == Listed(t)
<1>1. t \in Lists /\ NULL \notin Bufs
  BY NullAndBufs
<1>2. /\ Len(s) \in Nat
      /\ \A i \in 1 .. Len(s) : s[i] \in Bufs
      /\ s = <<>> <=> Len(s) = 0
  BY <1>1, Lists1 DEF IInv
<1>3. Chained(s, msg_top[t], msg_end[t])
  BY <1>1 DEF IInv, ListsSound, ListSound
<1>4. /\ Len(s) = 0 => msg_top[t] = NULL
      /\ Len(s) # 0 => msg_top[t] = s[1] /\ msg_next[s[Len(s)]] = NULL
      /\ \A i \in 1 .. Len(s) - 1 : msg_next[s[i]] = s[i + 1]
  BY <1>2, <1>3 DEF Chained
<1>5. \A i \in Bufs : w[i] = IF i <= Len(s) THEN s[i] ELSE NULL
  BY DEF Listed
<1> HIDE DEF w, s
<1>6. ASSUME NEW i \in Bufs
      PROVE  w[i] = IF i = 1 THEN msg_top[t]
                    ELSE IF w[i - 1] = NULL THEN NULL ELSE msg_next[w[i - 1]]
  <2>1. i \in Nat /\ i >= 1
    BY SizeAssumption DEF Bufs
  <2>2. CASE i = 1
    <3>1. CASE Len(s) = 0
      BY <1>4, <1>5, <2>2, <3>1
    <3>2. CASE Len(s) # 0
      BY <1>2, <1>4, <1>5, <2>2, <3>2
    <3> QED BY <3>1, <3>2
  <2>3. CASE i # 1
    <3>1. i - 1 \in Bufs /\ i - 1 \in Nat /\ i - 1 >= 1
      BY <2>1, <2>3, SizeAssumption DEF Bufs
    <3>2. CASE i - 1 > Len(s)
      <4>1. w[i - 1] = NULL /\ w[i] = NULL
        BY <1>2, <1>5, <2>1, <3>1, <3>2
      <4> QED BY <2>3, <4>1
    <3>3. CASE i - 1 = Len(s)
      <4>1. w[i - 1] = s[Len(s)] /\ w[i] = NULL /\ Len(s) # 0
        BY <1>2, <1>5, <2>1, <3>1, <3>3
      <4>2. w[i - 1] \in Bufs
        BY <1>2, <4>1
      <4> QED BY <1>1, <1>4, <2>3, <4>1, <4>2
    <3>4. CASE i - 1 < Len(s)
      <4>1. i - 1 \in 1 .. Len(s) - 1 /\ i - 1 \in 1 .. Len(s) /\ (i - 1) + 1 = i /\ i <= Len(s)
        BY <1>2, <2>1, <3>1, <3>4
      <4>2. w[i - 1] = s[i - 1] /\ w[i] = s[i] /\ s[i - 1] \in Bufs
        BY <1>2, <1>5, <3>1, <4>1
      <4>3. msg_next[s[i - 1]] = s[i]
        BY <1>4, <4>1
      <4> QED BY <1>1, <2>3, <4>2, <4>3
    <3> QED BY <1>2, <3>1, <3>2, <3>3, <3>4
  <2> QED BY <2>2, <2>3
<1>7. Walks(t, w)
  <2> DEFINE r == [i \in Bufs |-> IF i = 1 THEN msg_top[t]
                                  ELSE IF w[i - 1] = NULL THEN NULL ELSE msg_next[w[i - 1]]]
  <2>1. \A i \in Bufs : w[i] = r[i]
    BY <1>6
  <2>2. w = [i \in Bufs |-> w[i]] /\ r = [i \in Bufs |-> r[i]]
    BY DEF w, Listed
  <2>3. w = r
    BY <2>1, <2>2, Zenon
  <2> QED BY <2>3, Zenon DEF Walks
<1>8. Walk(t) = CHOOSE g : Walks(t, g)
  BY Zenon DEF Walk, Walks
<1>9. Walks(t, Walk(t))
  BY <1>7, <1>8, Zenon
<1> QED
  BY <1>7, <1>9, OneWalk DEF w


-----------------------------------------------------------------------------
(* The mailboxes as their users see them. *)

\* The messages of the buffers in s, where cmd holds the messages.
Carried(cmd, s) == [i \in 1 .. Len(s) |-> cmd[s[i]]]

Shown == [t \in Boxes |-> Carried(command, que[t])]

Held == [t \in Boxes |-> [m \in Msgs |-> Taken(t, m)]]

Mapped == \A t \in Boxes : Contents(t) = Carried(command, que[t])

\* A mailbox fits into the walk.
LEMMA MailFits ==
    ASSUME IInv, NEW t \in Boxes
    PROVE  Len(que[t]) \in Nat /\ Len(que[t]) <= MSGBUF_CNT
<1>1. Len(que[t]) \in Nat
  BY NullAndBufs, Lists1 DEF IInv
<1>2. Len(que[t]) <= Cardinality(Bufs \ Range(que[POOL]))
  BY ListInUse DEF IInv
<1>3. /\ IsFiniteSet(Bufs) /\ Cardinality(Bufs) = MSGBUF_CNT
      /\ Bufs \ Range(que[POOL]) \in SUBSET Bufs
      /\ Cardinality(Bufs \ Range(que[POOL])) \in Nat
  BY FiniteSets1
<1>4. Cardinality(Bufs \ Range(que[POOL])) <= Cardinality(Bufs)
  BY <1>3, FS_Subset
<1> QED BY <1>1, <1>2, <1>3, <1>4, SizeAssumption

LEMMA InvMapped == IInv => Mapped
<1> SUFFICES ASSUME IInv, NEW t \in Boxes
             PROVE  Contents(t) = Carried(command, que[t])
  BY DEF Mapped
<1> DEFINE n == Len(que[t])
<1>1. n \in Nat /\ n <= MSGBUF_CNT /\ \A i \in 1 .. n : que[t][i] \in Bufs
  BY MailFits, NullAndBufs, Lists1 DEF IInv
<1>2. Walk(t) = Listed(t)
  BY WalkIsListed
<1> HIDE DEF n
<1>3. \A i \in Bufs : Listed(t)[i] = IF i <= n THEN que[t][i] ELSE NULL
  BY DEF Listed, n
<1>4. NULL \notin Bufs /\ Bufs = 1 .. MSGBUF_CNT /\ MSGBUF_CNT \in Nat
  BY NullAndBufs, SizeAssumption DEF Bufs
<1>5. {j \in Bufs : Listed(t)[j] # NULL} = 1 .. n
  <2>1. ASSUME NEW j \in Bufs
        PROVE  Listed(t)[j] # NULL <=> j \in 1 .. n
    BY <1>1, <1>3, <1>4
  <2>2. 1 .. n \subseteq Bufs
    BY <1>1, <1>4
  <2> QED BY <2>1, <2>2
<1>6. Cardinality(1 .. n) = n
  <2>1. 1 \in Int /\ n \in Int /\ n - 1 + 1 = n
    BY <1>1
  <2>2. IF 1 > n THEN Cardinality(1 .. n) = 0 ELSE Cardinality(1 .. n) = n - 1 + 1
    BY <2>1, FS_Interval
  <2> QED BY <1>1, <2>1, <2>2
<1>7. Contents(t) = [i \in 1 .. n |-> command[Listed(t)[i]]]
  BY <1>2, <1>5, <1>6 DEF Contents
<1>8. \A i \in 1 .. n : Listed(t)[i] = que[t][i]
  BY <1>1, <1>3, <1>4
<1>9. Contents(t) = [i \in 1 .. n |-> command[que[t][i]]]
  BY <1>7, <1>8
<1> QED BY <1>9 DEF Carried, n

-----------------------------------------------------------------------------
(* Every message that waits or has been taken carries its command. *)

CommandInv ==
    /\ \A t \in Boxes : \A b \in Range(que[t]) \cup held[t] : command[b] \in Msgs
    /\ \A c \in Contexts : ctx[c].pc # "idle" => ctx[c].msg \in Msgs


\* In these states Shown and Held are the mailboxes and hands of Mailbox.
LEMMA BoxIsShown ==
    /\ Mapped  => [t \in Boxes |-> Contents(t)] = Shown
    /\ Mapped' => [t \in Boxes |-> Contents(t)]' = Shown'
BY DEF Mapped, Shown

\* What the users see of each step of the queues.
LEMMA SeenAsSend ==
    ASSUME Mapped, Mapped', NEW t \in Boxes, NEW m \in Msgs,
           Shown' = [Shown EXCEPT ![t] = Append(Shown[t], m)], Held' = Held
    PROVE  Abstract!Next
<1>1. Abstract!Send(t, m)
  BY BoxIsShown DEF Abstract!Send, Held
<1> QED BY <1>1 DEF Abstract!Next

LEMMA SeenAsReceive ==
    ASSUME Mapped, Mapped', NEW t \in Boxes, NEW wanted \in SUBSET Msgs,
           NEW k \in DOMAIN Shown[t], Shown[t][k] \in wanted,
           \A i \in 1 .. k - 1 : Shown[t][i] \notin wanted,
           Shown' = [Shown EXCEPT ![t] =
                       SubSeq(Shown[t], 1, k - 1) \o SubSeq(Shown[t], k + 1, Len(Shown[t]))],
           Held' = [Held EXCEPT ![t][Shown[t][k]] = @ + 1]
    PROVE  Abstract!Next
<1>1. Abstract!Receive(t, wanted)
  BY BoxIsShown DEF Abstract!Receive, Held
<1> QED BY <1>1 DEF Abstract!Next

LEMMA SeenAsDone ==
    ASSUME Mapped, Mapped', NEW t \in Boxes, NEW m \in Msgs, Held[t][m] > 0,
           Shown' = Shown, Held' = [Held EXCEPT ![t][m] = @ - 1]
    PROVE  Abstract!Next
<1>1. Abstract!Done(t, m)
  BY BoxIsShown DEF Abstract!Done, Held
<1> QED BY <1>1 DEF Abstract!Next

LEMMA SeenAsPutBack ==
    ASSUME Mapped, Mapped', NEW t \in Boxes, NEW m \in Msgs, Held[t][m] > 0,
           Shown' = [Shown EXCEPT ![t] = Append(Shown[t], m)],
           Held' = [Held EXCEPT ![t][m] = @ - 1]
    PROVE  Abstract!Next
<1>1. Abstract!PutBack(t, m)
  BY BoxIsShown DEF Abstract!PutBack, Held
<1> QED BY <1>1 DEF Abstract!Next

LEMMA NotSeen ==
    ASSUME Mapped, Mapped', Shown' = Shown, Held' = Held
    PROVE  UNCHANGED Abstract!mailboxVars
BY BoxIsShown DEF Abstract!mailboxVars, Held


-----------------------------------------------------------------------------
(* What the users see of a list operation. *)

LEMMA CarriedFacts ==
    ASSUME NEW cmd, NEW s \in Seq(Bufs), \A b \in Range(s) : cmd[b] \in Msgs
    PROVE  /\ Carried(cmd, s) \in Seq(Msgs)
           /\ Len(Carried(cmd, s)) = Len(s)
           /\ DOMAIN Carried(cmd, s) = 1 .. Len(s)
           /\ \A i \in 1 .. Len(s) : Carried(cmd, s)[i] = cmd[s[i]] /\ cmd[s[i]] \in Msgs
<1> DEFINE f == Carried(cmd, s)
<1>1. Len(s) \in Nat /\ DOMAIN s = 1 .. Len(s)
  BY LenProperties
<1>2. \A i \in 1 .. Len(s) : f[i] = cmd[s[i]] /\ cmd[s[i]] \in Msgs
  BY <1>1 DEF Carried, Range
<1>3. f \in [1 .. Len(s) -> Msgs]
  BY <1>2 DEF Carried
<1> HIDE DEF f
<1>4. f \in Seq(Msgs) /\ Len(f) = Len(s)
  BY <1>1, <1>3, SeqByElements
<1> QED BY <1>2, <1>3, <1>4 DEF f

\* A buffer that joins a list is a message at its end.
LEMMA CarriedJoined ==
    ASSUME NEW cmd, NEW s \in Seq(Bufs), IsInjective(s), NEW b \in Bufs, b \notin Range(s),
           cmd[b] \in Msgs, \A x \in Range(s) : cmd[x] \in Msgs
    PROVE  Carried(cmd, Joined(s, b)) = Append(Carried(cmd, s), cmd[b])
<1> DEFINE f == Carried(cmd, s)
           j == Joined(s, b)
           g == Carried(cmd, j)
           h == Append(f, cmd[b])
<1>1. /\ j \in Seq(Bufs) /\ Len(j) = Len(s) + 1
      /\ \A i \in 1 .. Len(s) : j[i] = s[i]
      /\ j[Len(s) + 1] = b
      /\ \A x : x \in Range(j) <=> x \in Range(s) \/ x = b
  BY JoinedFacts
<1>2. /\ f \in Seq(Msgs) /\ Len(f) = Len(s) /\ Len(s) \in Nat
      /\ \A i \in 1 .. Len(s) : f[i] = cmd[s[i]]
  BY CarriedFacts, LenProperties
<1> HIDE DEF j
<1>3. /\ g \in Seq(Msgs) /\ Len(g) = Len(s) + 1
      /\ \A i \in 1 .. Len(s) + 1 : g[i] = cmd[j[i]]
  <2>1. \A x \in Range(j) : cmd[x] \in Msgs
    BY <1>1
  <2> QED BY <1>1, <2>1, CarriedFacts
<1> HIDE DEF f, g
<1>4. /\ h \in Seq(Msgs) /\ Len(h) = Len(s) + 1
      /\ \A i \in 1 .. Len(s) : h[i] = f[i]
      /\ h[Len(s) + 1] = cmd[b]
  BY <1>2, AppendProperties
<1> HIDE DEF h
<1>5. ASSUME NEW i \in 1 .. Len(s) + 1
      PROVE  g[i] = h[i]
  <2>1. CASE i = Len(s) + 1
    BY <1>1, <1>3, <1>4, <2>1
  <2>2. CASE i # Len(s) + 1
    <3>1. i \in 1 .. Len(s)
      BY <1>2, <2>2
    <3>2. g[i] = cmd[s[i]]
      BY <1>1, <1>3, <3>1
    <3>3. h[i] = cmd[s[i]]
      BY <1>2, <1>4, <3>1
    <3> QED BY <3>2, <3>3
  <2> QED BY <2>1, <2>2
<1>6. g = h
  BY <1>3, <1>4, <1>5, SeqEqual
<1> QED BY <1>6 DEF f, g, h, j

\* The k-th buffer that leaves a list is a message that leaves from its place.
LEMMA CarriedLeft ==
    ASSUME NEW cmd, NEW s \in Seq(Bufs), IsInjective(s), NEW k \in 1 .. Len(s),
           \A x \in Range(s) : cmd[x] \in Msgs
    PROVE  Carried(cmd, Left(s, s[k])) =
             SubSeq(Carried(cmd, s), 1, k - 1) \o
             SubSeq(Carried(cmd, s), k + 1, Len(Carried(cmd, s)))
<1> DEFINE f == Carried(cmd, s)
           l == Left(s, s[k])
           g == Carried(cmd, l)
           p == SubSeq(f, 1, k - 1)
           q == SubSeq(f, k + 1, Len(f))
           n == Len(s)
<1>1. /\ l \in Seq(Bufs) /\ Len(l) = n - 1
      /\ \A i \in 1 .. n - 1 : l[i] = IF i < k THEN s[i] ELSE s[i + 1]
      /\ \A x : x \in Range(l) <=> x \in Range(s) /\ x # s[k]
  BY LeftFacts
<1>2. /\ f \in Seq(Msgs) /\ Len(f) = n /\ n \in Nat
      /\ \A i \in 1 .. n : f[i] = cmd[s[i]] /\ f[i] \in Msgs
  BY CarriedFacts, LenProperties
<1> HIDE DEF l
<1>3. /\ g \in Seq(Msgs) /\ Len(g) = n - 1
      /\ \A i \in 1 .. n - 1 : g[i] = cmd[l[i]]
  <2>1. \A x \in Range(l) : cmd[x] \in Msgs
    BY <1>1
  <2> QED BY <1>1, <2>1, CarriedFacts
<1> HIDE DEF f, g, n
<1>4. k \in Nat /\ 1 <= k /\ k <= n
  BY <1>2 DEF n
<1>5. /\ p \in Seq(Msgs) /\ Len(p) = k - 1
      /\ \A i \in 1 .. k - 1 : p[i] = f[i]
  <2>1. 1 \in Int /\ k - 1 \in Int /\ \A i \in 1 .. k - 1 : f[i] \in Msgs
    BY <1>2, <1>4
  <2>2. /\ p \in Seq(Msgs)
        /\ Len(p) = IF 1 <= k - 1 THEN (k - 1) - 1 + 1 ELSE 0
        /\ \A i \in 1 .. (k - 1) - 1 + 1 : p[i] = f[1 + i - 1]
    BY <2>1, SubSeqProperties
  <2> QED BY <1>4, <2>2
<1>6. /\ q \in Seq(Msgs) /\ Len(q) = n - k
      /\ \A i \in 1 .. n - k : q[i] = f[k + i]
  <2>1. k + 1 \in Int /\ n \in Int /\ \A i \in k + 1 .. n : f[i] \in Msgs
    BY <1>2, <1>4
  <2>2. /\ q \in Seq(Msgs)
        /\ Len(q) = IF k + 1 <= n THEN n - (k + 1) + 1 ELSE 0
        /\ \A i \in 1 .. n - (k + 1) + 1 : q[i] = f[(k + 1) + i - 1]
    BY <1>2, <2>1, SubSeqProperties
  <2> QED BY <1>2, <1>4, <2>2
<1> HIDE DEF p, q
<1>7. /\ p \o q \in Seq(Msgs) /\ Len(p \o q) = Len(p) + Len(q)
      /\ \A i \in 1 .. Len(p) + Len(q) : (p \o q)[i] = IF i <= Len(p) THEN p[i] ELSE q[i - Len(p)]
  BY <1>5, <1>6, ConcatProperties
<1>8. Len(p \o q) = n - 1 /\ Len(p) + Len(q) = n - 1
  BY <1>2, <1>4, <1>5, <1>6, <1>7
<1>9. ASSUME NEW i \in 1 .. n - 1
      PROVE  g[i] = (p \o q)[i]
  <2>1. CASE i < k
    <3>1. i \in 1 .. n /\ i \in 1 .. k - 1 /\ i <= Len(p)
      BY <1>2, <1>4, <1>5, <2>1
    <3>2. (p \o q)[i] = p[i]
      BY <1>7, <1>8, <3>1
    <3>3. p[i] = f[i] /\ f[i] = cmd[s[i]]
      BY <1>2, <1>5, <3>1
    <3>4. g[i] = cmd[s[i]]
      BY <1>1, <1>3, <2>1
    <3> QED BY <3>2, <3>3, <3>4
  <2>2. CASE ~(i < k)
    <3>1. i + 1 \in 1 .. n /\ ~(i <= Len(p)) /\ i - Len(p) \in 1 .. n - k /\ k + (i - Len(p)) = i + 1
      BY <1>2, <1>4, <1>5, <2>2
    <3>2. (p \o q)[i] = q[i - Len(p)]
      BY <1>7, <1>8, <3>1
    <3>3. q[i - Len(p)] = f[i + 1]
      BY <1>6, <3>1
    <3>4. g[i] = cmd[s[i + 1]]
      BY <1>1, <1>3, <2>2
    <3> QED BY <1>2, <3>1, <3>2, <3>3, <3>4
  <2> QED BY <2>1, <2>2
<1>10. g = p \o q
  BY <1>3, <1>7, <1>8, <1>9, SeqEqual
<1> QED BY <1>10 DEF f, g, l, p, q


-----------------------------------------------------------------------------
(* What the users see of a change of the queues, the commands and the hands. *)

LEMMA ShownSame ==
    ASSUME IInv, \A t \in Boxes : que'[t] = que[t],
           \A t \in Boxes : \A b \in Range(que[t]) : command'[b] = command[b]
    PROVE  Shown' = Shown
<1>1. ASSUME NEW t \in Boxes
      PROVE  Carried(command', que'[t]) = Carried(command, que[t])
  <2>1. \A i \in 1 .. Len(que[t]) : command'[que[t][i]] = command[que[t][i]]
    BY NullAndBufs, Lists1 DEF IInv
  <2> QED BY <2>1 DEF Carried
<1> QED BY <1>1 DEF Shown

LEMMA ShownJoined ==
    ASSUME IInv, NEW t \in Boxes, NEW b \in Bufs, InLists(b) = {},
           \A u \in Boxes : que'[u] = IF u = t THEN Joined(que[t], b) ELSE que[u],
           \A u \in Boxes : \A x \in Range(que[u]) : command'[x] = command[x] /\ command[x] \in Msgs,
           command'[b] \in Msgs
    PROVE  Shown' = [Shown EXCEPT ![t] = Append(Shown[t], command'[b])]
<1>1. t \in Lists /\ que[t] \in Seq(Bufs) /\ IsInjective(que[t]) /\ b \notin Range(que[t])
  BY NullAndBufs, Lists1 DEF IInv, OneOwner, InLists
<1>2. ASSUME NEW u \in Boxes
      PROVE  Carried(command', que[u]) = Carried(command, que[u])
  <2>1. \A i \in 1 .. Len(que[u]) : command'[que[u][i]] = command[que[u][i]]
    BY NullAndBufs, Lists1 DEF IInv
  <2> QED BY <2>1 DEF Carried
<1> DEFINE cmd == command'
<1>3. \A x \in Range(que[t]) : cmd[x] \in Msgs
  OBVIOUS
<1>4. cmd[b] \in Msgs
  OBVIOUS
<1> HIDE DEF cmd
<1>5. Carried(cmd, Joined(que[t], b)) = Append(Carried(cmd, que[t]), cmd[b])
  BY <1>1, <1>3, <1>4, CarriedJoined
<1>6. Carried(command', Joined(que[t], b)) = Append(Carried(command, que[t]), command'[b])
  BY <1>2, <1>5 DEF cmd
<1> QED BY <1>2, <1>6 DEF Shown

LEMMA ShownLeft ==
    ASSUME IInv, NEW t \in Boxes, NEW k \in 1 .. Len(que[t]),
           \A u \in Boxes : que'[u] = IF u = t THEN Left(que[t], que[t][k]) ELSE que[u],
           \A u \in Boxes : \A x \in Range(que[u]) : command[x] \in Msgs,
           command' = command
    PROVE  Shown' = [Shown EXCEPT ![t] =
                       SubSeq(Shown[t], 1, k - 1) \o SubSeq(Shown[t], k + 1, Len(Shown[t]))]
<1>1. que[t] \in Seq(Bufs) /\ IsInjective(que[t])
  BY NullAndBufs, Lists1 DEF IInv, OneOwner
<1>2. \A x \in Range(que[t]) : command[x] \in Msgs
  OBVIOUS
<1>3. Carried(command, Left(que[t], que[t][k])) =
        SubSeq(Carried(command, que[t]), 1, k - 1) \o
        SubSeq(Carried(command, que[t]), k + 1, Len(Carried(command, que[t])))
  BY <1>1, <1>2, CarriedLeft
<1>4. Shown[t] = Carried(command, que[t])
  BY DEF Shown
<1>5. Shown' = [u \in Boxes |-> Carried(command, que'[u])]
  BY DEF Shown
<1> QED BY <1>3, <1>4, <1>5 DEF Shown

LEMMA HeldSame ==
    ASSUME held' = held, \A t \in Boxes : \A b \in held[t] : command'[b] = command[b]
    PROVE  Held' = Held
<1>1. ASSUME NEW t \in Boxes, NEW m \in Msgs
      PROVE  {b \in held'[t] : command'[b] = m} = {b \in held[t] : command[b] = m}
  OBVIOUS
<1> QED BY <1>1 DEF Held, Taken

\* How many messages of a kind are held is a number.
LEMMA HeldFinite ==
    ASSUME TypeOK, NEW t \in Boxes, NEW m
    PROVE  LET k == {b \in held[t] : command[b] = m}
           IN  IsFiniteSet(k) /\ Cardinality(k) \in Nat
<1> DEFINE k == {b \in held[t] : command[b] = m}
<1>1. k \in SUBSET Bufs /\ IsFiniteSet(Bufs)
  BY FiniteSets1 DEF TypeOK
<1> HIDE DEF k
<1>2. IsFiniteSet(k)
  BY <1>1, FS_Subset
<1>3. IsFiniteSet(k) /\ Cardinality(k) \in Nat
  BY <1>2, FS_CardinalityType
<1> QED BY <1>3 DEF k

LEMMA HeldMore ==
    ASSUME TypeOK, NEW t \in Boxes, NEW b \in Bufs, b \notin held[t], command[b] \in Msgs,
           held' = [held EXCEPT ![t] = @ \cup {b}], command' = command
    PROVE  Held' = [Held EXCEPT ![t][command[b]] = @ + 1]
<1>1. ASSUME NEW u \in Boxes, NEW m \in Msgs
      PROVE  Taken(u, m)' = IF u = t /\ m = command[b] THEN Taken(u, m) + 1 ELSE Taken(u, m)
  <2> DEFINE k == {x \in held[u] : command[x] = m}
  <2>1. IsFiniteSet(k)
    BY HeldFinite
  <2>2. Taken(u, m) = Cardinality(k) /\ Taken(u, m)' = Cardinality({x \in held'[u] : command[x] = m})
    BY DEF Taken
  <2>3. CASE u = t /\ m = command[b]
    <3>1. {x \in held'[u] : command[x] = m} = k \cup {b} /\ b \notin k
      BY <2>3 DEF TypeOK
    <3> HIDE DEF k
    <3>2. Cardinality(k \cup {b}) = Cardinality(k) + 1
      BY <2>1, <3>1, FS_AddElement
    <3> QED BY <2>2, <2>3, <3>1, <3>2
  <2>4. CASE ~(u = t /\ m = command[b])
    <3>1. {x \in held'[u] : command[x] = m} = k
      BY <2>4 DEF TypeOK
    <3> QED BY <2>2, <2>4, <3>1
  <2> QED BY <2>3, <2>4
<1>2. Held' = [u \in Boxes |-> [m \in Msgs |-> Taken(u, m)']]
  BY DEF Held
<1> QED BY <1>1, <1>2 DEF Held

LEMMA HeldLess ==
    ASSUME TypeOK, NEW t \in Boxes, NEW b \in Bufs, b \in held[t], command[b] \in Msgs,
           held' = [held EXCEPT ![t] = @ \ {b}], command' = command
    PROVE  /\ Held' = [Held EXCEPT ![t][command[b]] = @ - 1]
           /\ Held[t][command[b]] > 0
<1>1. ASSUME NEW u \in Boxes, NEW m \in Msgs
      PROVE  /\ Taken(u, m)' = IF u = t /\ m = command[b] THEN Taken(u, m) - 1 ELSE Taken(u, m)
             /\ u = t /\ m = command[b] => Taken(u, m) > 0
  <2> DEFINE k == {x \in held[u] : command[x] = m}
  <2>1. IsFiniteSet(k) /\ Cardinality(k) \in Nat
    BY HeldFinite
  <2>2. Taken(u, m) = Cardinality(k) /\ Taken(u, m)' = Cardinality({x \in held'[u] : command[x] = m})
    BY DEF Taken
  <2>3. CASE u = t /\ m = command[b]
    <3>1. {x \in held'[u] : command[x] = m} = k \ {b} /\ b \in k
      BY <2>3 DEF TypeOK
    <3> HIDE DEF k
    <3>2. Cardinality(k \ {b}) = Cardinality(k) - 1 /\ IsFiniteSet(k \ {b})
      BY <2>1, <3>1, FS_RemoveElement
    <3>3. Cardinality(k \ {b}) \in Nat
      BY <3>2, FS_CardinalityType
    <3>4. Cardinality(k) > 0
      BY <2>1, <3>2, <3>3
    <3>5. Taken(u, m)' = Cardinality(k \ {b})
      BY <2>2, <3>1
    <3> QED BY <2>2, <2>3, <3>2, <3>4, <3>5
  <2>4. CASE ~(u = t /\ m = command[b])
    <3>1. {x \in held'[u] : command[x] = m} = k
      BY <2>4 DEF TypeOK
    <3> QED BY <2>2, <2>4, <3>1
  <2> QED BY <2>3, <2>4
<1>2. Held' = [u \in Boxes |-> [m \in Msgs |-> Taken(u, m)']]
  BY DEF Held
<1> QED BY <1>1, <1>2 DEF Held


-----------------------------------------------------------------------------
(* Each step of the kernel is a step of Mailbox, or none. *)

Seen == [Abstract!Next]_Abstract!mailboxVars

\* A buffer in a context's hands waits in no mailbox and is held by no task.
LEMMA InTransitAlone ==
    ASSUME IInv, NEW c \in Contexts, NEW b \in Bufs, ctx[c].pc = "put", ctx[c].buf = b
    PROVE  /\ InLists(b) = {}
           /\ \A t \in Boxes : b \notin Range(que[t]) /\ b \notin held[t]
<1>1. InLists(b) = {} /\ InHands(b) = {}
  BY DEF IInv, OneOwner, OwnedOnce, InTransit
<1> QED BY <1>1, NullAndBufs DEF InLists, InHands

LEMMA QuesetPutSeen ==
    ASSUME IInv, CommandInv, Mapped, Mapped', NEW c \in Contexts, QuesetPut(c)
    PROVE  CommandInv' /\ Seen
<1>1. PICK b \in Bufs : b = ctx[c].buf
  BY DEF QuesetPut, IInv, TypeOK
<1>2. /\ ctx[c].pc = "put" /\ ctx[c].buf = b
      /\ ctx' = [ctx EXCEPT ![c] = Idle] /\ held' = held
      /\ command' = [command EXCEPT ![b] = ctx[c].msg]
  BY <1>1 DEF QuesetPut
<1>3. PICK id : PutMsg(id, b)
  BY <1>1 DEF QuesetPut
<1>4. PICK p \in Lists : AppendTo(p, b)
  BY <1>3, PutMsgList DEF IInv
<1>5. /\ InLists(b) = {}
      /\ \A t \in Boxes : b \notin Range(que[t]) /\ b \notin held[t]
  BY <1>2, InTransitAlone
<1>6. /\ command'[b] = ctx[c].msg /\ command'[b] \in Msgs
      /\ \A x : x # b => command'[x] = command[x]
  BY <1>2 DEF IInv, TypeOK, CommandInv
<1>7. \A q \in Lists : que'[q] = IF q = p THEN Joined(que[p], b) ELSE que[q]
  BY <1>4 DEF AppendTo, IInv, TypeOK
<1>8. \A x : x \in Range(Joined(que[p], b)) <=> x \in Range(que[p]) \/ x = b
  BY <1>4, <1>5, JoinedFacts, Lists1 DEF IInv, OneOwner, InLists
<1>9. CommandInv'
  <2>1. ASSUME NEW t \in Boxes, NEW x \in Range(que'[t]) \cup held'[t]
        PROVE  command'[x] \in Msgs
    <3>1. x = b \/ x \in Range(que[t]) \cup held[t]
      BY <1>2, <1>7, <1>8, NullAndBufs
    <3> QED BY <1>6, <3>1 DEF CommandInv
  <2>2. ASSUME NEW d \in Contexts, ctx'[d].pc # "idle"
        PROVE  ctx'[d].msg \in Msgs
    BY <1>2, <2>2 DEF CommandInv, Idle, IInv, TypeOK
  <2> QED BY <2>1, <2>2 DEF CommandInv
<1>10. Held' = Held
  BY <1>2, <1>5, <1>6, HeldSame
<1>11. \A u \in Boxes : \A x \in Range(que[u]) : command'[x] = command[x] /\ command[x] \in Msgs
  BY <1>5, <1>6 DEF CommandInv
<1>12. CASE p \in Boxes
  <2>1. \A u \in Boxes : que'[u] = IF u = p THEN Joined(que[p], b) ELSE que[u]
    BY <1>7, NullAndBufs
  <2>2. Shown' = [Shown EXCEPT ![p] = Append(Shown[p], command'[b])]
    BY <1>5, <1>6, <1>11, <1>12, <2>1, ShownJoined
  <2>3. Abstract!Next
    BY <1>6, <1>10, <1>12, <2>2, SeenAsSend
  <2> QED BY <1>9, <2>3 DEF Seen
<1>13. CASE p \notin Boxes
  <2>1. \A u \in Boxes : que'[u] = que[u]
    BY <1>7, <1>13, NullAndBufs
  <2>2. Shown' = Shown
    BY <1>11, <2>1, ShownSame
  <2>3. UNCHANGED Abstract!mailboxVars
    BY <1>10, <2>2, NotSeen
  <2> QED BY <1>9, <2>3 DEF Seen
<1> QED BY <1>12, <1>13

\* Steps of queset that leave the mailboxes, the messages and the hands alone.
LEMMA QuesetSeen ==
    ASSUME IInv, CommandInv, Mapped, Mapped', NEW c \in Contexts,
           \/ \E id \in Boxes \cup {NoBox}, m \in Msgs : Queset(c, id, m)
           \/ GetBuf(c)
    PROVE  CommandInv' /\ Seen
<1>1. command' = command /\ held' = held /\ \A t \in Boxes : que'[t] = que[t]
  BY NullAndBufs DEF Queset, GetBuf, IInv, TypeOK
<1>2. \A d \in Contexts : ctx'[d].pc # "idle" => ctx'[d].msg \in Msgs
  <2>1. ASSUME NEW id, NEW m \in Msgs, Queset(c, id, m)
        PROVE  \A d \in Contexts : ctx'[d].pc # "idle" => ctx'[d].msg \in Msgs
    BY <2>1 DEF Queset, CommandInv, IInv, TypeOK
  <2>2. CASE GetBuf(c)
    <3> DEFINE r == [ctx[c] EXCEPT !.pc = "put", !.buf = msg_top[POOL]]
    <3>1. ctx[c].pc = "alloc" /\ ctx' = [ctx EXCEPT ![c] = r]
      BY <2>2 DEF GetBuf
    <3>2. r.msg = ctx[c].msg /\ ctx[c].msg \in Msgs
      BY <3>1 DEF CommandInv, IInv, TypeOK
    <3> HIDE DEF r
    <3> QED BY <3>1, <3>2 DEF CommandInv, IInv, TypeOK
  <2> QED BY <2>1, <2>2
<1>3. CommandInv'
  BY <1>1, <1>2 DEF CommandInv
<1>4. Shown' = Shown
  BY <1>1, ShownSame
<1>5. Held' = Held
  BY <1>1, HeldSame
<1>6. UNCHANGED Abstract!mailboxVars
  BY <1>4, <1>5, NotSeen
<1> QED BY <1>3, <1>6 DEF Seen


\* A task takes the k-th message, the first of those it wants.
LEMMA TakeSeen ==
    ASSUME IInv, CommandInv, Mapped, Mapped', NEW t \in Boxes, NEW k \in 1 .. Len(que[t]),
           Takes(t, que[t][k]), NEW wanted \in SUBSET Msgs, command[que[t][k]] \in wanted,
           \A i \in 1 .. k - 1 : command[que[t][i]] \notin wanted
    PROVE  CommandInv' /\ Seen
<1> DEFINE b == que[t][k]
<1>1. /\ t \in Lists /\ que[t] \in Seq(Bufs) /\ IsInjective(que[t]) /\ Len(que[t]) \in Nat
      /\ b \in Bufs /\ b \in Range(que[t])
  BY NullAndBufs, Lists1 DEF IInv, OneOwner
<1>2. /\ que' = [que EXCEPT ![t] = Left(que[t], b)]
      /\ held' = [held EXCEPT ![t] = @ \cup {b}]
      /\ command' = command /\ ctx' = ctx
  BY DEF Takes
<1>3. b \notin held[t]
  <2>1. InHands(b) = {}
    BY <1>1 DEF IInv, OneOwner, OwnedOnce, InLists
  <2> QED BY <2>1 DEF InHands
<1>4. \A x : x \in Range(Left(que[t], b)) => x \in Range(que[t])
  BY <1>1, LeftFacts
<1>5. /\ \A u \in Boxes : que'[u] = IF u = t THEN Left(que[t], b) ELSE que[u]
      /\ \A u \in Boxes : held'[u] = IF u = t THEN held[t] \cup {b} ELSE held[u]
  BY <1>2, NullAndBufs DEF IInv, TypeOK
<1>6. /\ \A u \in Boxes : \A x \in Range(que[u]) : command[x] \in Msgs
      /\ command[b] \in Msgs
  BY <1>1 DEF CommandInv
<1>7. CommandInv'
  BY <1>1, <1>2, <1>4, <1>5 DEF CommandInv
<1>8. Shown' = [Shown EXCEPT ![t] =
                  SubSeq(Shown[t], 1, k - 1) \o SubSeq(Shown[t], k + 1, Len(Shown[t]))]
  BY <1>2, <1>5, <1>6, ShownLeft
<1>9. Held' = [Held EXCEPT ![t][command[b]] = @ + 1]
  BY <1>1, <1>2, <1>3, <1>6, HeldMore DEF IInv
<1>10. /\ DOMAIN Shown[t] = 1 .. Len(que[t])
       /\ \A i \in 1 .. Len(que[t]) : Shown[t][i] = command[que[t][i]]
  BY DEF Shown, Carried
<1> HIDE DEF b
<1>11. k \in DOMAIN Shown[t] /\ Shown[t][k] = command[b] /\ command[b] \in wanted
  BY <1>10 DEF b
<1>12. \A i \in 1 .. k - 1 : Shown[t][i] \notin wanted
  <2>1. \A i \in 1 .. k - 1 : i \in 1 .. Len(que[t])
    BY <1>1
  <2> QED BY <1>10, <2>1
<1>13. Held' = [Held EXCEPT ![t][Shown[t][k]] = @ + 1]
  BY <1>9, <1>11
<1>14. Abstract!Next
  BY <1>8, <1>11, <1>12, <1>13, SeenAsReceive
<1> QED BY <1>7, <1>14 DEF Seen

LEMMA GetMsgSeen ==
    ASSUME IInv, CommandInv, Mapped, Mapped', NEW t \in Boxes, GetMsg(t)
    PROVE  CommandInv' /\ Seen
<1>1. msg_top[t] # NULL /\ TakeHead(t) /\ Takes(t, msg_top[t])
  BY DEF GetMsg, MayTake
<1>2. que' = [que EXCEPT ![t] = Left(que[t], msg_top[t])]
  BY <1>1 DEF Takes
<1>3. 1 \in 1 .. Len(que[t]) /\ msg_top[t] = que[t][1]
  BY <1>1, <1>2, HeadSound DEF IInv
<1> DEFINE wanted == {command[que[t][1]]}
<1>4. wanted \in SUBSET Msgs
  BY <1>3, NullAndBufs, Lists1 DEF CommandInv, IInv
<1>5. \A i \in 1 .. 1 - 1 : command[que[t][i]] \notin wanted
  OBVIOUS
<1>6. Takes(t, que[t][1]) /\ command[que[t][1]] \in wanted
  BY <1>1, <1>3
<1> HIDE DEF wanted
<1> QED BY <1>3, <1>4, <1>5, <1>6, TakeSeen

LEMMA TargetSeen ==
    ASSUME IInv, CommandInv, Mapped, Mapped', NEW t \in Boxes, NEW wanted \in SUBSET Msgs,
           Target_MsgGet(t, wanted)
    PROVE  CommandInv' /\ Seen
<1>1. msg_top[t] # NULL
  BY DEF Target_MsgGet, MayTake
<1>2. PICK n \in 1 .. MSGBUF_CNT : \E path \in [1 .. n -> Bufs] :
          Search(t, wanted, n, path) /\ Takes(t, path[n])
  BY DEF Target_MsgGet
<1>3. PICK path \in [1 .. n -> Bufs] : Search(t, wanted, n, path) /\ Takes(t, path[n])
  BY <1>2
<1>4. n <= Len(que[t]) /\ \A i \in 1 .. n : path[i] = que[t][i]
  BY <1>1, <1>3, PathIsList DEF IInv
<1>5. n \in Nat /\ n >= 1 /\ Len(que[t]) \in Nat
  BY SizeAssumption, MailFits
<1>6. n \in 1 .. Len(que[t]) /\ n \in 1 .. n
  BY <1>4, <1>5
<1>7. Takes(t, que[t][n]) /\ command[que[t][n]] \in wanted
  BY <1>3, <1>4, <1>6 DEF Search
<1>8. \A i \in 1 .. n - 1 : command[que[t][i]] \notin wanted
  <2>1. \A i \in 1 .. n - 1 : i \in 1 .. n
    BY <1>5
  <2> QED BY <1>3, <1>4, <2>1 DEF Search
<1> QED BY <1>6, <1>7, <1>8, TakeSeen

\* A task gives up a message: it goes to the pool, or to the end of its mailbox.
LEMMA GiveSeen ==
    ASSUME IInv, CommandInv, Mapped, Mapped', NEW t \in Boxes, NEW b \in Bufs,
           Release(t, b) \/ Requeue(t, b)
    PROVE  CommandInv' /\ Seen
<1>1. /\ b \in held[t] /\ held' = [held EXCEPT ![t] = @ \ {b}]
      /\ command' = command /\ ctx' = ctx
  BY DEF Release, Requeue
<1>2. PICK p \in Lists : /\ AppendTo(p, b) /\ p \in {POOL, t}
                         /\ p = t <=> Requeue(t, b)
                         /\ p = POOL <=> ~ Requeue(t, b)
  BY NullAndBufs DEF Release, Requeue, PutMsg, FreeBuf
<1>3. InLists(b) = {}
  BY <1>1 DEF IInv, OneOwner, OwnedOnce, InHands
<1>4. /\ \A q \in Lists : que'[q] = IF q = p THEN Joined(que[p], b) ELSE que[q]
      /\ \A u \in Boxes : held'[u] = IF u = t THEN held[t] \ {b} ELSE held[u]
  BY <1>1, <1>2 DEF AppendTo, IInv, TypeOK
<1>5. \A x : x \in Range(Joined(que[p], b)) <=> x \in Range(que[p]) \/ x = b
  BY <1>2, <1>3, JoinedFacts, Lists1 DEF IInv, OneOwner, InLists
<1>6. command[b] \in Msgs
  BY <1>1 DEF CommandInv
<1>7. CommandInv'
  <2>1. ASSUME NEW u \in Boxes, NEW x \in Range(que'[u]) \cup held'[u]
        PROVE  command'[x] \in Msgs
    <3>1. x = b \/ x \in Range(que[u]) \cup held[u]
      BY <1>4, <1>5, NullAndBufs
    <3> QED BY <1>1, <1>6, <3>1 DEF CommandInv
  <2> QED BY <1>1, <2>1 DEF CommandInv
<1>8. /\ Held' = [Held EXCEPT ![t][command[b]] = @ - 1]
      /\ Held[t][command[b]] > 0
  BY <1>1, <1>6, HeldLess DEF IInv
<1>9. \A u \in Boxes : \A x \in Range(que[u]) : command'[x] = command[x] /\ command[x] \in Msgs
  BY <1>1 DEF CommandInv
<1>10. CASE p = t
  <2>1. \A u \in Boxes : que'[u] = IF u = t THEN Joined(que[t], b) ELSE que[u]
    BY <1>4, <1>10, NullAndBufs
  <2>2. Shown' = [Shown EXCEPT ![t] = Append(Shown[t], command'[b])]
    BY <1>1, <1>3, <1>6, <1>9, <2>1, ShownJoined
  <2>3. Abstract!Next
    BY <1>1, <1>6, <1>8, <2>2, SeenAsPutBack
  <2> QED BY <1>7, <2>3 DEF Seen
<1>11. CASE p = POOL
  <2>1. \A u \in Boxes : que'[u] = que[u]
    BY <1>4, <1>11, NullAndBufs
  <2>2. Shown' = Shown
    BY <1>9, <2>1, ShownSame
  <2>3. Abstract!Next
    BY <1>6, <1>8, <2>2, SeenAsDone
  <2> QED BY <1>7, <2>3 DEF Seen
<1> QED BY <1>2, <1>10, <1>11

LEMMA NextSeen ==
    ASSUME Load < MSGBUF_CNT, IInv, CommandInv, Mapped, Mapped', [Next]_vars
    PROVE  CommandInv' /\ Seen
<1>1. ASSUME NEW c \in Contexts, ContextStep(c)
      PROVE  CommandInv' /\ Seen
  <2>1. CASE \/ \E id \in Boxes \cup {NoBox}, m \in Msgs : Queset(c, id, m)
             \/ GetBuf(c)
    BY <2>1, QuesetSeen
  <2>2. CASE QuesetFull(c) \/ GetBufRace(c)
    BY <2>2, PoolReady DEF QuesetFull, GetBufRace
  <2>3. CASE QuesetPut(c)
    BY <2>3, QuesetPutSeen
  <2> QED BY <1>1, <2>1, <2>2, <2>3 DEF ContextStep
<1>2. ASSUME NEW t \in Boxes, TaskStep(t)
      PROVE  CommandInv' /\ Seen
  BY <1>2, GetMsgSeen, TargetSeen, GiveSeen DEF TaskStep
<1>3. CASE idle_subtask
  BY <1>3 DEF idle_subtask, IInv
<1>4. CASE UNCHANGED vars
  <2>1. command' = command /\ held' = held /\ que' = que /\ ctx' = ctx
    BY <1>4 DEF vars
  <2>2. CommandInv'
    BY <2>1 DEF CommandInv
  <2>3. Shown' = Shown /\ Held' = Held
    BY <2>1, HeldSame DEF Shown
  <2> QED BY <2>2, <2>3, NotSeen DEF Seen
<1> QED BY <1>1, <1>2, <1>3, <1>4 DEF Next

LEMMA InitSeen == Init => CommandInv /\ Abstract!Init
<1> SUFFICES ASSUME Init
             PROVE  CommandInv /\ Abstract!Init
  OBVIOUS
<1>1. \A t \in Boxes : que[t] = <<>> /\ held[t] = {}
  BY NullAndBufs DEF Init
<1>2. Range(<<>>) = {}
  BY EmptySeq DEF Range
<1>3. CommandInv
  BY <1>1, <1>2 DEF CommandInv, Init, Idle
<1>4. IInv /\ Mapped
  BY InitInv, InvMapped
<1>5. ASSUME NEW t \in Boxes
      PROVE  Contents(t) = <<>>
  <2>1. Contents(t) = [i \in 1 .. 0 |-> command[<<>>[i]]]
    BY <1>1, <1>4, EmptySeq DEF Mapped, Carried
  <2>2. Contents(t) \in [1 .. 0 -> Msgs]
    BY <2>1
  <2>3. Contents(t) \in Seq(Msgs) /\ Len(Contents(t)) = 0
    BY <2>2, SeqByElements
  <2> QED BY <2>3, EmptySeq
<1>6. ASSUME NEW t \in Boxes, NEW m \in Msgs
      PROVE  Taken(t, m) = 0
  <2>1. {b \in held[t] : command[b] = m} = {}
    BY <1>1
  <2> QED BY <2>1, FS_EmptySet DEF Taken
<1> QED BY <1>3, <1>5, <1>6 DEF Abstract!Init

(* The pool, the links and the 8-bit search of idletask.c are, to the tasks,  *)
(* first-in first-out mailboxes with selective receipt: no interrupt at any   *)
(* point of queset makes a message overtake another, go astray or come twice. *)
THEOREM MailboxesHold ==
    ASSUME Load < MSGBUF_CNT, Load <= UCHAR_MOD
    PROVE  Spec => ImplementsMailbox
<1>1. Init => IInv /\ CommandInv /\ Abstract!Init
  BY InitInv, InitSeen
<1>2. IInv => Mapped
  BY InvMapped
<1>3. IInv /\ [Next]_vars => IInv'
  BY NextKeeps
<1>4. IInv /\ CommandInv /\ Mapped /\ Mapped' /\ [Next]_vars
        => CommandInv' /\ [Abstract!Next]_Abstract!mailboxVars
  BY NextSeen DEF Seen
<1> QED BY <1>1, <1>2, <1>3, <1>4, PTL DEF Spec, ImplementsMailbox, Abstract!Spec

=============================================================================
