------------------------------ MODULE MsgFifo ------------------------------
(***************************************************************************)
(* What the users of the camera's message queue rely on: a bounded         *)
(* first-in first-out queue.  CmrMsg implements it.                        *)
(***************************************************************************)
EXTENDS Integers, Sequences

CONSTANTS
    Msgs,      \* the messages
    NoMsg,     \* a getter that has not received one yet
    Getters,   \* the threads that take messages out
    Capacity   \* how many messages are accepted before one is taken out

VARIABLES
    queue,  \* the accepted messages, oldest first
    got     \* the message each getter received last

fifoVars == <<queue, got>>

FifoInit ==
    /\ queue = <<>>
    /\ got = [g \in Getters |-> NoMsg]

Put(m) ==
    /\ Len(queue) < Capacity
    /\ queue' = Append(queue, m)
    /\ UNCHANGED got

Take(g) ==
    /\ queue # <<>>
    /\ queue' = Tail(queue)
    /\ got' = [got EXCEPT ![g] = Head(queue)]

FifoNext ==
    \/ \E m \in Msgs : Put(m)
    \/ \E g \in Getters : Take(g)

FifoSpec == FifoInit /\ [][FifoNext]_fifoVars
=============================================================================
