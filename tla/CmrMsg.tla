------------------------------- MODULE CmrMsg -------------------------------
(***************************************************************************)
(* cmr_msg.c of the camera library: a ring of messages behind a mutex,     *)
(* with a semaphore that counts the messages a getter may take.  The       *)
(* preview, capture, focus, callback and JPEG threads each loop on one.    *)
(*                                                                         *)
(* What a thread does while it holds the mutex is one step; the accesses   *)
(* outside of it are steps of their own: cmr_msg_post reads the write      *)
(* pointer before it locks and posts the semaphore after it unlocked, and  *)
(* the getters pass the semaphore before they lock.                        *)
(***************************************************************************)
EXTENDS Integers, Sequences, FiniteSets

CONSTANTS
    Posters,  \* threads that call cmr_msg_post
    Getters,  \* threads that call cmr_msg_get, cmr_msg_timedget, cmr_msg_peak
    Msgs,     \* messages
    NoMsg,    \* a slot that was never written or was cleared
    Count,    \* msg_count
    Second,   \* the nanoseconds of a second, in units of the model
    Period    \* CMR_MSG_POLLING_PERIOD, in the same units

ASSUME CmrMsgAssumption ==
    /\ Count \in Nat \ {0}
    /\ IsFiniteSet(Posters)
    /\ IsFiniteSet(Getters)
    /\ Posters \cap Getters = {}
    /\ NoMsg \notin Msgs
    /\ Second \in Nat \ {0}
    /\ Period \in 1..Second

VARIABLES
    ring,        \* the slots from msg_head on
    msg_read,
    msg_write,
    msg_number,
    msg_sem,
    mutex,       \* "free", or held by a thread that returned with it
    pc,          \* where each thread is
    message,     \* the message a poster passes, or the one a getter received
    ori_node     \* the write pointer cmr_msg_post read on entry

vars == <<ring, msg_read, msg_write, msg_number, msg_sem, mutex, pc, message, ori_node>>
ringVars == <<ring, msg_read, msg_write, msg_number>>

Threads == Posters \cup Getters
Slots == 0..(Count - 1)
PCs == {"idle", "post", "signal", "wait", "timedwait", "get", "peak"}

\* cmr_msg_queue_create; every thread has the handle and is outside of a call.
Init ==
    /\ ring = [s \in Slots |-> NoMsg]
    /\ msg_read = 0
    /\ msg_write = 0
    /\ msg_number = 0
    /\ msg_sem = 0
    /\ mutex = "free"
    /\ pc = [t \in Threads |-> "idle"]
    /\ message = [t \in Threads |-> NoMsg]
    /\ ori_node = [t \in Posters |-> 0]

Advance(s) == IF s + 1 > Count - 1 THEN 0 ELSE s + 1

-----------------------------------------------------------------------------
(***************************************************************************)
(* cmr_msg_post.                                                           *)
(***************************************************************************)
Post(t, m) ==
    /\ pc[t] = "idle"
    /\ pc' = [pc EXCEPT ![t] = "post"]
    /\ message' = [message EXCEPT ![t] = m]
    /\ ori_node' = [ori_node EXCEPT ![t] = msg_write]
    /\ UNCHANGED <<ringVars, msg_sem, mutex>>

\* Mutant: the ring is filled to its last slot.
FullLate == msg_number >= Count

Full == msg_number + 1 >= Count

\* Its locals end with the call.
PostReturns(t) ==
    /\ pc' = [pc EXCEPT ![t] = "idle"]
    /\ message' = [message EXCEPT ![t] = NoMsg]
    /\ ori_node' = [ori_node EXCEPT ![t] = 0]

PostRefused(t) ==
    /\ pc[t] = "post"
    /\ mutex = "free"
    /\ Full
    /\ PostReturns(t)
    /\ UNCHANGED <<ringVars, msg_sem, mutex>>

\* The write pointer moves on, unless it would meet the read pointer.
Written(t) == IF Advance(msg_write) = msg_read THEN ori_node[t] ELSE Advance(msg_write)

\* Mutant: the slot is the one read before the lock.
PostStoredStale(t) ==
    /\ pc[t] = "post"
    /\ mutex = "free"
    /\ ~Full
    /\ ring' = [ring EXCEPT ![ori_node[t]] = message[t]]
    /\ msg_write' = Written(t)
    /\ msg_number' = msg_number + 1
    /\ pc' = [pc EXCEPT ![t] = "signal"]
    /\ UNCHANGED <<msg_read, msg_sem, mutex, message, ori_node>>

PostStored(t) ==
    /\ pc[t] = "post"
    /\ mutex = "free"
    /\ ~Full
    /\ ring' = [ring EXCEPT ![msg_write] = message[t]]
    /\ msg_write' = Written(t)
    /\ msg_number' = msg_number + 1
    /\ pc' = [pc EXCEPT ![t] = "signal"]
    /\ UNCHANGED <<msg_read, msg_sem, mutex, message, ori_node>>

\* Mutant: a binary semaphore.
SemPostBinary(t) ==
    /\ pc[t] = "signal"
    /\ msg_sem' = 1
    /\ PostReturns(t)
    /\ UNCHANGED <<ringVars, mutex>>

SemPost(t) ==
    /\ pc[t] = "signal"
    /\ msg_sem' = msg_sem + 1
    /\ PostReturns(t)
    /\ UNCHANGED <<ringVars, mutex>>

-----------------------------------------------------------------------------
(***************************************************************************)
(* cmr_msg_get, cmr_msg_timedget and cmr_msg_peak up to the lock: each     *)
(* passes the semaphore, and the last two may return without a message.    *)
(***************************************************************************)
SemPassed(g, next) ==
    /\ msg_sem > 0
    /\ msg_sem' = msg_sem - 1
    /\ pc' = [pc EXCEPT ![g] = next]
    /\ UNCHANGED <<ringVars, mutex, message, ori_node>>

NoMessage(g) ==
    /\ pc' = [pc EXCEPT ![g] = "idle"]
    /\ UNCHANGED <<ringVars, msg_sem, mutex, message, ori_node>>

Blocks(g, where) ==
    /\ msg_sem = 0
    /\ pc' = [pc EXCEPT ![g] = where]
    /\ UNCHANGED <<ringVars, msg_sem, mutex, message, ori_node>>

Get(g) ==
    /\ pc[g] = "idle"
    /\ SemPassed(g, "get") \/ Blocks(g, "wait")

SemWait(g) ==
    /\ pc[g] \in {"wait", "timedwait"}
    /\ SemPassed(g, "get")

\* The nanoseconds of the deadline, from those of the clock.
Deadline(now) == IF now + Period > Second THEN now + Period - Second ELSE now + Period

\* sem_timedwait looks at its deadline only when it has to wait, and refuses
\* one whose nanoseconds are not below a second.
TimedGet(g, now) ==
    /\ pc[g] = "idle"
    /\ \/ SemPassed(g, "get")
       \/ Deadline(now) < Second /\ Blocks(g, "timedwait")
       \/ Deadline(now) >= Second /\ msg_sem = 0 /\ NoMessage(g)

TimedOut(g) ==
    /\ pc[g] = "timedwait"
    /\ NoMessage(g)

Peak(g) ==
    /\ pc[g] = "idle"
    /\ \/ SemPassed(g, "peak")
       \/ msg_sem = 0 /\ NoMessage(g)

-----------------------------------------------------------------------------
(***************************************************************************)
(* The locked part of the getters.                                         *)
(***************************************************************************)
\* cmr_msg_get clears the slot it takes from, cmr_msg_peak does not.
Taken(g, slot) ==
    /\ IF msg_read # msg_write
       THEN /\ message' = [message EXCEPT ![g] = ring[msg_read]]
            /\ ring' = [ring EXCEPT ![msg_read] = slot]
            /\ msg_read' = Advance(msg_read)
       ELSE UNCHANGED <<message, ring, msg_read>>
    /\ msg_number' = msg_number - 1
    /\ pc' = [pc EXCEPT ![g] = "idle"]
    /\ UNCHANGED <<msg_write, msg_sem, mutex, ori_node>>

\* CMR_MSG_UNDERFLOW when there is nothing.
GetLocked(g) ==
    /\ pc[g] = "get"
    /\ mutex = "free"
    /\ IF msg_number = 0 THEN NoMessage(g) ELSE Taken(g, NoMsg)

\* The return for an empty ring does not unlock.
PeakLocked(g) ==
    /\ pc[g] = "peak"
    /\ mutex = "free"
    /\ IF msg_read # msg_write
       THEN Taken(g, ring[msg_read])
       ELSE /\ mutex' = g
            /\ pc' = [pc EXCEPT ![g] = "idle"]
            /\ UNCHANGED <<ringVars, msg_sem, message, ori_node>>

PosterNext(t) ==
    \/ \E m \in Msgs : Post(t, m)
    \/ PostRefused(t) \/ PostStored(t) \/ SemPost(t)

GetterCall(g) == Get(g) \/ Peak(g) \/ \E now \in 0..(Second - 1) : TimedGet(g, now)
GetterLocked(g) == GetLocked(g) \/ PeakLocked(g)
GetterNext(g) == GetterCall(g) \/ SemWait(g) \/ TimedOut(g) \/ GetterLocked(g)

Next ==
    \/ \E t \in Posters : PosterNext(t)
    \/ \E g \in Getters : GetterNext(g)

Spec == Init /\ [][Next]_vars

\* A call that has begun goes on, and the message threads call again for ever
\* (their loops are while(1)); nothing makes a poster post.
Fairness ==
    /\ \A t \in Posters : WF_vars(PostRefused(t) \/ PostStored(t) \/ SemPost(t))
    /\ \A g \in Getters : WF_vars(GetterCall(g)) /\ WF_vars(SemWait(g)) /\ WF_vars(GetterLocked(g))

FairSpec == Spec /\ Fairness

-----------------------------------------------------------------------------
\* The fields have their types, and the mutex is free between two calls: no
\* getter returned from cmr_msg_peak's empty branch, which keeps it locked.
TypeOK ==
    /\ ring \in [Slots -> Msgs \cup {NoMsg}]
    /\ msg_read \in Slots
    /\ msg_write \in Slots
    /\ msg_number \in 0..Count
    /\ msg_sem \in Nat
    /\ mutex = "free"
    /\ pc \in [Threads -> PCs]
    /\ message \in [Threads -> Msgs \cup {NoMsg}]
    /\ ori_node \in [Posters -> Slots]

At(where) == {t \in Threads : pc[t] \in where}

\* The semaphore accounts for every stored message: one unit each, or a poster
\* that has not signalled it yet, or a getter that has passed the semaphore and
\* has not locked yet.
SemAccounts == msg_number = msg_sem + Cardinality(At({"signal"})) + Cardinality(At({"get", "peak"}))

\* A getter that passed the semaphore finds a message: the underflow return,
\* the success without a message (read pointer = write pointer) and
\* cmr_msg_peak's return with the mutex held never happen.
NeverEmptyHanded ==
    \A g \in Getters : pc[g] \in {"get", "peak"} => msg_number # 0 /\ msg_read # msg_write

\* The slot of the i-th message and the messages, oldest first.
SlotOf(i) == IF msg_read + i - 1 > Count - 1 THEN msg_read + i - 1 - Count ELSE msg_read + i - 1
Contents == [i \in 1..msg_number |-> ring[SlotOf(i)]]
Received == [g \in Getters |-> message[g]]

Fifo == INSTANCE MsgFifo WITH Capacity <- Count - 1, queue <- Contents, got <- Received

\* However posters and getters interleave around the mutex, the ring, its
\* pointers and the semaphore are a bounded first-in first-out queue: nothing
\* is lost, repeated or overtaken, although cmr_msg_post may put back a write
\* pointer it read before it held the mutex.
ImplementsFifo == Fifo!FifoSpec

\* A message that was accepted is received.
Delivered ==
    \A m \in Msgs : (\E i \in 1..msg_number : Contents[i] = m) ~> (\E g \in Getters : message[g] = m)
=============================================================================
