---------------------------- MODULE MCMsgQueue ----------------------------
(* Model checking of MsgQueue, and its refinement of Mailbox. *)
EXTENDS MsgQueue

CONSTANTS OPETCBNO, CANTCBNO, timeout, ftpRecv

(* Where following msg_next from the head of mailbox t leads, step by step. *)
Walk(t) ==
    LET at[i \in Bufs] == IF i = 1 THEN msg_top[t]
                          ELSE IF at[i - 1] = NULL THEN NULL ELSE msg_next[at[i - 1]]
    IN  at

(* The messages found on the way. *)
Contents(t) ==
    LET at == Walk(t)
    IN  [i \in 1 .. Cardinality({j \in Bufs : at[j] # NULL}) |-> command[at[i]]]

Taken(t, m) == Cardinality({b \in held[t] : command[b] = m})

Abstract == INSTANCE Mailbox WITH
    box <- [t \in Boxes |-> Contents(t)],
    hand <- [t \in Boxes |-> [m \in Msgs |-> Taken(t, m)]]

(* The linked lists behave as the first-in first-out mailboxes the tasks   *)
(* rely on: idletask.c takes "only the mail that is expected, the others   *)
(* stay", and nothing else ever leaves or overtakes.                       *)
ImplementsMailbox == Abstract!Spec
=============================================================================
