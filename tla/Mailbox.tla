------------------------------- MODULE Mailbox -------------------------------
(***************************************************************************)
(* What the message kernel promises its callers, with no buffer and no     *)
(* pointer in sight: each task has a first-in first-out mailbox; a task    *)
(* takes the oldest message, or the oldest of the kinds it asks for and    *)
(* then the others keep their places; what it has taken it keeps until it  *)
(* is done with it or puts it back.                                        *)
(***************************************************************************)
EXTENDS Naturals, Sequences

CONSTANTS Boxes, Msgs

VARIABLES
    box,    \* the messages that wait, oldest first, by mailbox
    hand    \* how many messages of each kind a task has taken, by mailbox

mailboxVars == <<box, hand>>

Init ==
    /\ box = [t \in Boxes |-> <<>>]
    /\ hand = [t \in Boxes |-> [m \in Msgs |-> 0]]

Send(t, m) ==
    /\ box' = [box EXCEPT ![t] = Append(@, m)]
    /\ UNCHANGED hand

(* The oldest of the wanted messages leaves, the others do not move. *)
Receive(t, wanted) ==
    \E k \in DOMAIN box[t] :
        /\ box[t][k] \in wanted
        /\ \A i \in 1 .. k - 1 : box[t][i] \notin wanted
        /\ box' = [box EXCEPT ![t] = SubSeq(@, 1, k - 1) \o SubSeq(@, k + 1, Len(@))]
        /\ hand' = [hand EXCEPT ![t][box[t][k]] = @ + 1]

Done(t, m) ==
    /\ hand[t][m] > 0
    /\ hand' = [hand EXCEPT ![t][m] = @ - 1]
    /\ UNCHANGED box

PutBack(t, m) ==
    /\ hand[t][m] > 0
    /\ hand' = [hand EXCEPT ![t][m] = @ - 1]
    /\ box' = [box EXCEPT ![t] = Append(@, m)]

Next ==
    \E t \in Boxes :
        \/ \E m \in Msgs : Send(t, m) \/ Done(t, m) \/ PutBack(t, m)
        \/ \E wanted \in SUBSET Msgs : Receive(t, wanted)

Spec == Init /\ [][Next]_mailboxVars
=============================================================================
