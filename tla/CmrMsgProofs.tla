---------------------------- MODULE CmrMsgProofs ----------------------------
(***************************************************************************)
(* What CmrMsg guarantees for every finite set of threads and every size   *)
(* of the ring.                                                            *)
(***************************************************************************)
EXTENDS CmrMsg, FiniteSetTheorems, SequenceTheorems, TLAPS

USE ZenonT(60), CmrMsgAssumption

(***************************************************************************)
(* The inductive invariant.  The semaphore accounts for the messages, and  *)
(* the write pointer is the read pointer advanced by their number, which   *)
(* leaves one slot free: the pointers are equal only in an empty ring.     *)
(***************************************************************************)
WritePointer == IF msg_read + msg_number > Count - 1
                THEN msg_read + msg_number - Count ELSE msg_read + msg_number
RingInv == msg_number \in 0..(Count - 1) /\ msg_write = WritePointer
PosterInv == \A t \in Posters : pc[t] = "post" => message[t] \in Msgs
MsgInv == TypeOK /\ SemAccounts /\ RingInv /\ PosterInv

Signals == At({"signal"})
Passes == At({"get", "peak"})
-----------------------------------------------------------------------------
LEMMA AtFinite ==
  ASSUME NEW S
  PROVE  IsFiniteSet(At(S)) /\ Cardinality(At(S)) \in Nat
<1>1. IsFiniteSet(Threads)
  BY FS_Union DEF Threads
<1>2. At(S) \subseteq Threads
  BY DEF At
<1>. QED  BY <1>1, <1>2, FS_Subset, FS_CardinalityType

\* How many threads are at S after thread t went to l.
LEMMA CountStep ==
  ASSUME TypeOK, NEW S, NEW t \in Threads, NEW l \in PCs, pc' = [pc EXCEPT ![t] = l]
  PROVE  /\ (pc[t] \in S <=> l \in S) => Cardinality(At(S)') = Cardinality(At(S))
         /\ pc[t] \notin S /\ l \in S => Cardinality(At(S)') = Cardinality(At(S)) + 1
         /\ pc[t] \in S /\ l \notin S => Cardinality(At(S)') = Cardinality(At(S)) - 1
<1>1. pc \in [Threads -> PCs]
  BY DEF TypeOK
<1>2. \A u \in Threads : pc'[u] = IF u = t THEN l ELSE pc[u]
  BY <1>1
<1>3. t \in At(S) <=> pc[t] \in S
  BY DEF At
<1>4. ASSUME pc[t] \in S <=> l \in S
      PROVE  At(S)' = At(S)
  BY <1>2, <1>4 DEF At
<1>5. ASSUME pc[t] \notin S, l \in S
      PROVE  At(S)' = At(S) \cup {t}
  BY <1>2, <1>5 DEF At
<1>6. ASSUME pc[t] \in S, l \notin S
      PROVE  At(S)' = At(S) \ {t}
  BY <1>2, <1>6 DEF At
<1>7. ASSUME pc[t] \notin S, l \in S
      PROVE  Cardinality(At(S)') = Cardinality(At(S)) + 1
  BY <1>3, <1>5, <1>7, AtFinite, FS_AddElement
<1>8. ASSUME pc[t] \in S, l \notin S
      PROVE  Cardinality(At(S)') = Cardinality(At(S)) - 1
  BY SMTT(60), <1>3, <1>6, <1>8, AtFinite, FS_RemoveElement
<1>. QED  BY <1>4, <1>7, <1>8

\* A thread that is at S is counted.
LEMMA CountSome ==
  ASSUME NEW S, NEW t \in At(S)
  PROVE  Cardinality(At(S)) >= 1
<1>1. At(S) # {}
  OBVIOUS
<1>. QED  BY SMTT(60), <1>1, AtFinite, FS_EmptySet

-----------------------------------------------------------------------------
\* A getter that passed the semaphore finds a message, from the invariant.
LEMMA Counted ==
  ASSUME MsgInv, NEW g \in Getters, pc[g] \in {"get", "peak"}
  PROVE  msg_number >= 1 /\ msg_read # msg_write
<1>1. g \in Passes
  BY DEF Passes, At, Threads
<1>2. Cardinality(Passes) >= 1
  BY <1>1, CountSome DEF Passes
<1>3. Cardinality(Signals) \in Nat /\ Cardinality(Passes) \in Nat
  BY AtFinite DEF Signals, Passes
<1>4. msg_number = msg_sem + Cardinality(Signals) + Cardinality(Passes)
  BY DEF MsgInv, SemAccounts, Signals, Passes
<1>5. msg_number >= 1
  BY SMTT(60), <1>2, <1>3, <1>4 DEF MsgInv, TypeOK
<1>. QED  BY SMTT(60), <1>5 DEF MsgInv, TypeOK, RingInv, WritePointer, Slots

\* In a ring that is not full cmr_msg_post moves the write pointer on.
LEMMA WrittenAdvances ==
  ASSUME MsgInv, NEW t \in Posters, ~Full
  PROVE  Written(t) = Advance(msg_write) /\ Count > 1
BY SMTT(60) DEF MsgInv, TypeOK, RingInv, WritePointer, Slots, Full, Written, Advance

-----------------------------------------------------------------------------
NSignals == Cardinality(At({"signal"}))
NPasses == Cardinality(At({"get", "peak"}))
Signalling(p) == IF p = "signal" THEN 1 ELSE 0
Passing(p) == IF p \in {"get", "peak"} THEN 1 ELSE 0

\* The counts of SemAccounts after thread t went to l.
LEMMA CountsStep ==
  ASSUME TypeOK, NEW t \in Threads, NEW l \in PCs, pc' = [pc EXCEPT ![t] = l]
  PROVE  /\ NSignals \in Int /\ NSignals' = NSignals + Signalling(l) - Signalling(pc[t])
         /\ NPasses \in Int /\ NPasses' = NPasses + Passing(l) - Passing(pc[t])
<1>1. NSignals \in Int /\ NPasses \in Int
  BY SMTT(60), AtFinite DEF NSignals, NPasses
<1>2. /\ (pc[t] = "signal" <=> l = "signal") => NSignals' = NSignals
      /\ pc[t] # "signal" /\ l = "signal" => NSignals' = NSignals + 1
      /\ pc[t] = "signal" /\ l # "signal" => NSignals' = NSignals - 1
  BY CountStep DEF NSignals
<1>3. /\ (pc[t] \in {"get", "peak"} <=> l \in {"get", "peak"}) => NPasses' = NPasses
      /\ pc[t] \notin {"get", "peak"} /\ l \in {"get", "peak"} => NPasses' = NPasses + 1
      /\ pc[t] \in {"get", "peak"} /\ l \notin {"get", "peak"} => NPasses' = NPasses - 1
  BY CountStep DEF NPasses
<1>. QED  BY SMTT(60), <1>1, <1>2, <1>3 DEF Signalling, Passing

\* SemAccounts is kept by a step whose messages and semaphore follow the counts.
LEMMA SemStep ==
  ASSUME TypeOK, SemAccounts, NEW t \in Threads, NEW l \in PCs,
         pc' = [pc EXCEPT ![t] = l], msg_number' \in Int, msg_sem' \in Int,
         msg_number' - msg_sem' = msg_number - msg_sem
            + Signalling(l) - Signalling(pc[t]) + Passing(l) - Passing(pc[t])
  PROVE  SemAccounts'
<1>1. msg_number = msg_sem + NSignals + NPasses
  BY DEF SemAccounts, NSignals, NPasses
<1>2. msg_number \in Int /\ msg_sem \in Int
  BY SMTT(60) DEF TypeOK
<1>3. /\ Signalling(l) \in Int /\ Signalling(pc[t]) \in Int
      /\ Passing(l) \in Int /\ Passing(pc[t]) \in Int
  BY SMTT(60) DEF Signalling, Passing
<1>4. /\ NSignals \in Int /\ NSignals' = NSignals + Signalling(l) - Signalling(pc[t])
      /\ NPasses \in Int /\ NPasses' = NPasses + Passing(l) - Passing(pc[t])
  BY CountsStep
<1>5. msg_number' = msg_sem' + NSignals' + NPasses'
  BY SMTT(60), <1>1, <1>2, <1>3, <1>4
<1>. QED  BY <1>5 DEF SemAccounts, NSignals, NPasses

\* The next slot is a slot, and the pointers keep their distance.
LEMMA AdvanceSlot ==
  ASSUME NEW s \in Slots
  PROVE  Advance(s) \in Slots
BY SMTT(60) DEF Slots, Advance

-----------------------------------------------------------------------------
LEMMA InitInv == Init => MsgInv
<1>. SUFFICES ASSUME Init PROVE MsgInv
  OBVIOUS
<1>1. TypeOK
  BY SMTT(60) DEF Init, TypeOK, Slots, PCs, Threads
<1>2. At({"signal"}) = {} /\ At({"get", "peak"}) = {}
  BY DEF Init, At
<1>3. Cardinality(At({"signal"})) = 0 /\ Cardinality(At({"get", "peak"})) = 0
  BY <1>2, FS_EmptySet
<1>4. SemAccounts
  BY SMTT(60), <1>3 DEF SemAccounts, Init
<1>5. RingInv
  BY SMTT(60) DEF Init, RingInv, WritePointer
<1>6. PosterInv
  BY DEF Init, PosterInv, Threads
<1>. QED  BY <1>1, <1>4, <1>5, <1>6 DEF MsgInv

LEMMA Shifted ==
  ASSUME NEW n \in Int, NEW s \in Int, NEW r \in Nat, NEW a \in Int, NEW b \in Int,
         NEW c \in Int, NEW d \in Int, s - r = a - b + c - d
  PROVE  n - r = n - s + a - b + c - d
BY SMTT(60)

\* Steps that leave the ring alone.
LEMMA CallInv ==
  ASSUME MsgInv, NEW t \in Threads, NEW l \in PCs, pc' = [pc EXCEPT ![t] = l],
         UNCHANGED <<ringVars, mutex>>, msg_sem' \in Nat,
         msg_sem - msg_sem' =
            Signalling(l) - Signalling(pc[t]) + Passing(l) - Passing(pc[t]),
         message' \in [Threads -> Msgs \cup {NoMsg}],
         ori_node' \in [Posters -> Slots],
         PosterInv'
  PROVE  MsgInv'
<1>1. msg_number \in Int /\ msg_sem \in Int /\ pc \in [Threads -> PCs]
  BY SMTT(60) DEF MsgInv, TypeOK
<1>2. TypeOK'
  BY <1>1 DEF MsgInv, TypeOK, ringVars
<1>3. SemAccounts'
  <2>1. msg_number' = msg_number
    BY DEF ringVars
  <2>2. /\ Signalling(l) \in Int /\ Signalling(pc[t]) \in Int
        /\ Passing(l) \in Int /\ Passing(pc[t]) \in Int
    BY SMTT(60) DEF Signalling, Passing
  <2>3. msg_number' - msg_sem' = msg_number - msg_sem
            + Signalling(l) - Signalling(pc[t]) + Passing(l) - Passing(pc[t])
    <3>1. msg_number - msg_sem' = msg_number - msg_sem
              + Signalling(l) - Signalling(pc[t]) + Passing(l) - Passing(pc[t])
      BY ONLY SMTT(60), <1>1, <2>2, Shifted, msg_sem' \in Nat,
              msg_sem - msg_sem' =
                Signalling(l) - Signalling(pc[t]) + Passing(l) - Passing(pc[t])
    <3>. QED  BY ONLY SMTT(60), <2>1, <3>1
  <2>4. TypeOK /\ SemAccounts /\ msg_number' \in Int /\ msg_sem' \in Int
    BY SMTT(60), <1>1, <2>1 DEF MsgInv
  <2>. QED  BY <2>3, <2>4, SemStep
<1>4. RingInv'
  BY DEF MsgInv, RingInv, WritePointer, ringVars
<1>. QED  BY <1>2, <1>3, <1>4 DEF MsgInv

LEMMA PostCallInv ==
  ASSUME MsgInv, NEW t \in Posters,
         (\E m \in Msgs : Post(t, m)) \/ PostRefused(t) \/ SemPost(t)
  PROVE  MsgInv'
<1>1. t \in Threads /\ "idle" \in PCs /\ "post" \in PCs /\ 0 \in Slots
  BY SMTT(60) DEF Threads, PCs, Slots
<1>2. /\ pc \in [Threads -> PCs] /\ message \in [Threads -> Msgs \cup {NoMsg}]
      /\ ori_node \in [Posters -> Slots]
      /\ msg_sem \in Nat /\ msg_write \in Slots /\ PosterInv
  BY DEF MsgInv, TypeOK
<1>3. CASE \E m \in Msgs : Post(t, m)
  <2>1. PICK m \in Msgs : Post(t, m)
    BY <1>3
  <2>2. /\ pc' = [pc EXCEPT ![t] = "post"] /\ UNCHANGED <<ringVars, mutex>>
        /\ msg_sem' = msg_sem /\ pc[t] = "idle"
        /\ message' = [message EXCEPT ![t] = m] /\ ori_node' = [ori_node EXCEPT ![t] = msg_write]
    BY <2>1 DEF Post
  <2>3. PosterInv'
    BY SMTT(60), <1>1, <1>2, <2>2 DEF PosterInv, Threads
  <2>4. /\ message' \in [Threads -> Msgs \cup {NoMsg}] /\ ori_node' \in [Posters -> Slots]
        /\ msg_sem' \in Nat
    BY <1>2, <2>2
  <2>5. msg_sem - msg_sem' =
          Signalling("post") - Signalling(pc[t]) + Passing("post") - Passing(pc[t])
    BY SMTT(60), <1>2, <2>2 DEF Signalling, Passing
  <2>. QED  BY <1>1, <2>2, <2>3, <2>4, <2>5, CallInv
<1>4. ASSUME PostRefused(t) \/ SemPost(t)
      PROVE  MsgInv'
  <2>1. /\ pc' = [pc EXCEPT ![t] = "idle"] /\ UNCHANGED <<ringVars, mutex>>
        /\ message' = [message EXCEPT ![t] = NoMsg] /\ ori_node' = [ori_node EXCEPT ![t] = 0]
        /\ (pc[t] = "post" /\ msg_sem' = msg_sem) \/ (pc[t] = "signal" /\ msg_sem' = msg_sem + 1)
    BY <1>4 DEF PostRefused, SemPost, PostReturns
  <2>2. PosterInv'
    BY SMTT(60), <1>1, <1>2, <2>1 DEF PosterInv, Threads
  <2>3. /\ message' \in [Threads -> Msgs \cup {NoMsg}] /\ ori_node' \in [Posters -> Slots]
        /\ msg_sem' \in Nat
    BY SMTT(60), <1>1, <1>2, <2>1
  <2>4. msg_sem - msg_sem' =
          Signalling("idle") - Signalling(pc[t]) + Passing("idle") - Passing(pc[t])
    BY SMTT(60), <1>2, <2>1 DEF Signalling, Passing
  <2>. QED  BY <1>1, <2>1, <2>2, <2>3, <2>4, CallInv
<1>. QED  BY <1>3, <1>4

\* What the calls of a getter do before they lock.
LEMMA GetterCallSteps ==
  ASSUME NEW g \in Getters, GetterCall(g) \/ SemWait(g) \/ TimedOut(g)
  PROVE  /\ UNCHANGED <<ringVars, mutex, message, ori_node>>
         /\ pc[g] \in {"idle", "wait", "timedwait"}
         /\ \/ /\ msg_sem > 0 /\ msg_sem' = msg_sem - 1
               /\ \E l \in {"get", "peak"} : pc' = [pc EXCEPT ![g] = l]
            \/ /\ msg_sem' = msg_sem
               /\ \E l \in {"idle", "wait", "timedwait"} : pc' = [pc EXCEPT ![g] = l]
<1>1. CASE Get(g) \/ Peak(g)
  BY SMTT(60), <1>1 DEF Get, Peak, SemPassed, NoMessage, Blocks
<1>2. CASE \E now \in 0..(Second - 1) : TimedGet(g, now)
  BY <1>2 DEF TimedGet, SemPassed, NoMessage, Blocks
<1>3. CASE SemWait(g) \/ TimedOut(g)
  BY <1>3 DEF SemWait, TimedOut, SemPassed, NoMessage
<1>. QED  BY <1>1, <1>2, <1>3 DEF GetterCall

LEMMA GetterCallInv ==
  ASSUME MsgInv, NEW g \in Getters, GetterCall(g) \/ SemWait(g) \/ TimedOut(g)
  PROVE  MsgInv'
<1>1. g \in Threads /\ {"idle", "wait", "timedwait", "get", "peak"} \subseteq PCs
  BY DEF Threads, PCs
<1>2. /\ pc \in [Threads -> PCs] /\ message \in [Threads -> Msgs \cup {NoMsg}]
      /\ ori_node \in [Posters -> Slots]
      /\ msg_sem \in Nat /\ PosterInv
  BY DEF MsgInv, TypeOK
<1>3. /\ UNCHANGED <<ringVars, mutex, message, ori_node>>
      /\ pc[g] \in {"idle", "wait", "timedwait"}
  BY GetterCallSteps
<1>5. PICK l \in {"idle", "wait", "timedwait", "get", "peak"} :
        /\ pc' = [pc EXCEPT ![g] = l]
        /\ IF l \in {"get", "peak"} THEN msg_sem > 0 /\ msg_sem' = msg_sem - 1
                                    ELSE msg_sem' = msg_sem
  BY GetterCallSteps
<1>6. PosterInv'
  <2>1. \A t \in Posters : t # g /\ t \in Threads
    BY DEF Threads
  <2>2. \A t \in Posters : pc'[t] = pc[t] /\ message'[t] = message[t]
    BY SMTT(60), <1>2, <1>3, <1>5, <2>1
  <2>. QED  BY SMTT(60), <1>2, <2>2 DEF PosterInv
<1>7. msg_sem - msg_sem' = Signalling(l) - Signalling(pc[g]) + Passing(l) - Passing(pc[g])
  BY SMTT(60), <1>2, <1>3, <1>5 DEF Signalling, Passing
<1>8. /\ msg_sem' \in Nat /\ message' \in [Threads -> Msgs \cup {NoMsg}]
      /\ ori_node' \in [Posters -> Slots] /\ UNCHANGED <<ringVars, mutex>>
  BY SMTT(60), <1>2, <1>3, <1>5
<1>. QED  BY <1>1, <1>5, <1>6, <1>7, <1>8, CallInv

LEMMA PostStoredInv ==
  ASSUME MsgInv, NEW t \in Posters, PostStored(t)
  PROVE  MsgInv'
<1>1. t \in Threads /\ "signal" \in PCs
  BY DEF Threads, PCs
<1>2. TypeOK /\ SemAccounts /\ RingInv /\ PosterInv
  BY DEF MsgInv
<1>3. /\ pc[t] = "post" /\ msg_number + 1 < Count /\ pc' = [pc EXCEPT ![t] = "signal"]
      /\ ring' = [ring EXCEPT ![msg_write] = message[t]]
      /\ msg_number' = msg_number + 1 /\ msg_write' = Advance(msg_write)
      /\ UNCHANGED <<msg_read, msg_sem, mutex, message, ori_node>>
  BY SMTT(60), <1>2, WrittenAdvances DEF PostStored, Full, TypeOK
<1>4. msg_number \in Int /\ msg_sem \in Int
  BY SMTT(60), <1>2 DEF TypeOK
<1>5. RingInv'
  BY SMTT(60), <1>2, <1>3 DEF TypeOK, RingInv, WritePointer, Advance, Slots
<1>6. TypeOK'
  <2>1. msg_write' \in Slots
    BY <1>2, <1>3, AdvanceSlot DEF TypeOK
  <2>2. msg_number' \in 0..Count
    BY SMTT(60), <1>2, <1>3 DEF TypeOK
  <2>3. ring' \in [Slots -> Msgs \cup {NoMsg}] /\ pc' \in [Threads -> PCs]
    BY <1>1, <1>2, <1>3 DEF TypeOK
  <2>. QED  BY SMTT(60), <1>2, <1>3, <2>1, <2>2, <2>3 DEF TypeOK
<1>7. SemAccounts'
  <2>1. msg_number' - msg_sem' = msg_number - msg_sem + Signalling("signal")
            - Signalling(pc[t]) + Passing("signal") - Passing(pc[t])
    BY SMTT(60), <1>3, <1>4 DEF Signalling, Passing
  <2>2. msg_number' \in Int /\ msg_sem' \in Int /\ pc' = [pc EXCEPT ![t] = "signal"]
    BY SMTT(60), <1>3, <1>4
  <2>. QED  BY <1>1, <1>2, <2>1, <2>2, SemStep
<1>8. PosterInv'
  BY SMTT(60), <1>1, <1>2, <1>3 DEF PosterInv, TypeOK
<1>. QED  BY SMTT(60), <1>5, <1>6, <1>7, <1>8 DEF MsgInv

\* What the locked part of a getter does: it always takes a message.
LEMMA LockedSteps ==
  ASSUME MsgInv, NEW g \in Getters, GetterLocked(g)
  PROVE  /\ pc[g] \in {"get", "peak"} /\ msg_number >= 1
         /\ message' = [message EXCEPT ![g] = ring[msg_read]]
         /\ \E slot \in {NoMsg, ring[msg_read]} : ring' = [ring EXCEPT ![msg_read] = slot]
         /\ msg_read' = Advance(msg_read) /\ msg_number' = msg_number - 1
         /\ pc' = [pc EXCEPT ![g] = "idle"]
         /\ UNCHANGED <<msg_write, msg_sem, mutex, ori_node>>
<1>1. pc[g] \in {"get", "peak"}
  BY DEF GetterLocked, GetLocked, PeakLocked
<1>2. msg_number >= 1 /\ msg_read # msg_write /\ msg_number # 0
  BY SMTT(60), <1>1, Counted DEF MsgInv, TypeOK
<1>3. Taken(g, NoMsg) \/ Taken(g, ring[msg_read])
  BY <1>2 DEF GetterLocked, GetLocked, PeakLocked
<1>. QED  BY SMTT(60), <1>1, <1>2, <1>3 DEF Taken

LEMMA LockedInv ==
  ASSUME MsgInv, NEW g \in Getters, GetterLocked(g)
  PROVE  MsgInv'
<1>1. g \in Threads /\ "idle" \in PCs
  BY DEF Threads, PCs
<1>2. TypeOK /\ SemAccounts /\ RingInv /\ PosterInv
  BY DEF MsgInv
<1>3. /\ pc[g] \in {"get", "peak"} /\ msg_number >= 1
      /\ message' = [message EXCEPT ![g] = ring[msg_read]]
      /\ msg_read' = Advance(msg_read) /\ msg_number' = msg_number - 1
      /\ pc' = [pc EXCEPT ![g] = "idle"]
      /\ UNCHANGED <<msg_write, msg_sem, mutex, ori_node>>
  BY LockedSteps
<1>4. msg_number \in Int /\ msg_sem \in Int
  BY SMTT(60), <1>2 DEF TypeOK
<1>5. RingInv'
  BY SMTT(60), <1>2, <1>3 DEF TypeOK, RingInv, WritePointer, Advance, Slots
<1>6. TypeOK'
  <2>1. msg_read' \in Slots
    BY SMTT(60), <1>2, <1>3, AdvanceSlot DEF TypeOK
  <2>2. msg_number' \in 0..Count
    BY SMTT(60), <1>2, <1>3 DEF TypeOK
  <2>3. ring[msg_read] \in Msgs \cup {NoMsg}
    BY <1>2 DEF TypeOK
  <2>4. ring' \in [Slots -> Msgs \cup {NoMsg}]
    BY SMTT(60), <1>2, <2>3, LockedSteps DEF TypeOK
  <2>5. pc' \in [Threads -> PCs] /\ message' \in [Threads -> Msgs \cup {NoMsg}]
    BY SMTT(60), <1>1, <1>2, <1>3, <2>3 DEF TypeOK
  <2>. QED  BY SMTT(60), <1>2, <1>3, <2>1, <2>2, <2>4, <2>5 DEF TypeOK
<1>7. SemAccounts'
  <2>1. msg_number' - msg_sem' = msg_number - msg_sem + Signalling("idle")
            - Signalling(pc[g]) + Passing("idle") - Passing(pc[g])
    BY SMTT(60), <1>3, <1>4 DEF Signalling, Passing
  <2>2. msg_number' \in Int /\ msg_sem' \in Int /\ pc' = [pc EXCEPT ![g] = "idle"]
    BY SMTT(60), <1>3, <1>4
  <2>. QED  BY <1>1, <1>2, <2>1, <2>2, SemStep
<1>8. PosterInv'
  <2>1. \A t \in Posters : t # g /\ t \in Threads
    BY DEF Threads
  <2>2. \A t \in Posters : pc'[t] = pc[t] /\ message'[t] = message[t]
    BY SMTT(60), <1>2, <1>3, <2>1 DEF TypeOK
  <2>. QED  BY <1>2, <2>2 DEF PosterInv
<1>. QED  BY SMTT(60), <1>5, <1>6, <1>7, <1>8 DEF MsgInv

LEMMA NextInv == MsgInv /\ [Next]_vars => MsgInv'
<1>. SUFFICES ASSUME MsgInv, [Next]_vars PROVE MsgInv'
  OBVIOUS
<1>1. ASSUME NEW t \in Posters, PosterNext(t)
      PROVE  MsgInv'
  BY <1>1, PostCallInv, PostStoredInv DEF PosterNext
<1>2. ASSUME NEW g \in Getters, GetterNext(g)
      PROVE  MsgInv'
  BY <1>2, GetterCallInv, LockedInv DEF GetterNext
<1>3. CASE UNCHANGED vars
  BY <1>3 DEF vars, MsgInv, TypeOK, SemAccounts, At, RingInv, WritePointer, PosterInv
<1>. QED  BY SMTT(60), <1>1, <1>2, <1>3 DEF Next

\* The inductive invariant holds in every reachable state.
THEOREM Invariance == Spec => []MsgInv
BY InitInv, NextInv, PTL DEF Spec

\* For every number of threads and slots the fields of the queue keep their
\* types, and no call of cmr_msg_peak returns with the mutex locked.
THEOREM MsgTypes == Spec => []TypeOK
<1>1. MsgInv => TypeOK
  BY DEF MsgInv
<1>. QED  BY <1>1, Invariance, PTL

\* For every number of threads and slots the semaphore, the posters that have
\* not posted it and the getters that have passed it account for every message.
THEOREM Accounted == Spec => []SemAccounts
<1>1. MsgInv => SemAccounts
  BY DEF MsgInv
<1>. QED  BY <1>1, Invariance, PTL

\* For every number of threads and slots a getter that passed the semaphore
\* finds a message in the ring.
THEOREM NoUnderflow == Spec => []NeverEmptyHanded
<1>1. MsgInv => NeverEmptyHanded
  <2>. SUFFICES ASSUME MsgInv, NEW g \in Getters, pc[g] \in {"get", "peak"}
                PROVE  msg_number # 0 /\ msg_read # msg_write
    BY DEF NeverEmptyHanded
  <2>1. msg_number >= 1 /\ msg_read # msg_write
    BY Counted
  <2>. QED  BY SMTT(60), <2>1
<1>. QED  BY <1>1, Invariance, PTL

-----------------------------------------------------------------------------
(***************************************************************************)
(* The refinement: a stored message is put into the queue, a locked getter *)
(* takes one out, and every other step leaves queue and getters alone.     *)
(***************************************************************************)
LEMMA ContentsType ==
  ASSUME TypeOK, RingInv
  PROVE  /\ Contents \in Seq(Msgs \cup {NoMsg}) /\ Len(Contents) = msg_number
         /\ \A i \in 1..msg_number : SlotOf(i) \in Slots /\ Contents[i] = ring[SlotOf(i)]
<1>1. \A i \in 1..msg_number : SlotOf(i) \in Slots
  BY SMTT(60) DEF TypeOK, RingInv, SlotOf, Slots
<1>2. msg_number \in Nat
  BY SMTT(60) DEF TypeOK
<1>3. Contents \in [1..msg_number -> Msgs \cup {NoMsg}]
  BY <1>1 DEF Contents, TypeOK
<1>. QED  BY SMTT(60), <1>1, <1>2, <1>3 DEF Contents

LEMMA SlotRange ==
  ASSUME NEW r \in Slots, NEW i \in 1..(Count - 1)
  PROVE  (IF r + i - 1 > Count - 1 THEN r + i - 1 - Count ELSE r + i - 1) \in Slots
BY SMTT(60) DEF Slots

LEMMA ContentsTypePrime ==
  ASSUME TypeOK', RingInv'
  PROVE  /\ Contents' \in Seq(Msgs \cup {NoMsg}) /\ Len(Contents') = msg_number'
         /\ \A i \in 1..msg_number' : Contents'[i] = ring'[SlotOf(i)']
<1>1. ASSUME NEW i \in 1..msg_number'
      PROVE  SlotOf(i)' \in Slots
  <2>1. msg_read' \in 0..(Count - 1) /\ i \in Int /\ 1 <= i /\ i <= Count - 1
    BY SMTT(60) DEF TypeOK, RingInv, Slots
  <2>2. msg_read' \in Slots /\ i \in 1..(Count - 1)
    BY SMTT(60), <2>1 DEF Slots
  <2>. QED  BY SMTT(60), <2>2, SlotRange DEF SlotOf
<1>2. msg_number' \in Nat
  BY SMTT(60) DEF TypeOK
<1>3. Contents' = [i \in 1..msg_number' |-> ring'[SlotOf(i)']]
  BY DEF Contents
<1>4. Contents' \in [1..msg_number' -> Msgs \cup {NoMsg}]
  BY <1>1, <1>3 DEF TypeOK
<1>. QED  BY SMTT(60), <1>2, <1>3, <1>4

LEMMA StoredPuts ==
  ASSUME MsgInv, NEW t \in Posters, PostStored(t)
  PROVE  Contents' = Append(Contents, message[t])
<1>1. TypeOK /\ RingInv /\ TypeOK' /\ RingInv'
  BY PostStoredInv DEF MsgInv
<1>2. /\ msg_number + 1 < Count /\ ring' = [ring EXCEPT ![msg_write] = message[t]]
      /\ msg_number' = msg_number + 1 /\ msg_read' = msg_read
  BY SMTT(60), <1>1 DEF PostStored, Full, TypeOK
<1>3. /\ Contents \in Seq(Msgs \cup {NoMsg}) /\ Len(Contents) = msg_number
      /\ \A i \in 1..msg_number : SlotOf(i) \in Slots /\ Contents[i] = ring[SlotOf(i)]
  BY <1>1, ContentsType
<1>4. /\ Contents' \in Seq(Msgs \cup {NoMsg}) /\ Len(Contents') = msg_number + 1
      /\ \A i \in 1..(msg_number + 1) : Contents'[i] = ring'[SlotOf(i)']
  <2>1. /\ Contents' \in Seq(Msgs \cup {NoMsg}) /\ Len(Contents') = msg_number'
        /\ \A i \in 1..msg_number' : Contents'[i] = ring'[SlotOf(i)']
    BY SMTT(60), <1>1, ContentsTypePrime
  <2>. QED  BY SMTT(60), <1>2, <2>1
<1>5. /\ \A i \in 1..(msg_number + 1) : SlotOf(i)' = SlotOf(i)
      /\ \A i \in 1..msg_number : SlotOf(i) # msg_write
  BY SMTT(60), <1>1, <1>2 DEF SlotOf, TypeOK, RingInv, WritePointer, Slots
<1>6. SlotOf(msg_number + 1) = msg_write
  BY SMTT(60), <1>1, <1>2 DEF SlotOf, TypeOK, RingInv, WritePointer, Slots
<1>7. ASSUME NEW i \in 1..msg_number
      PROVE  ring'[SlotOf(i)'] = Contents[i]
  <2>1. SlotOf(i)' = SlotOf(i) /\ SlotOf(i) # msg_write
    <3>1. i \in 1..(msg_number + 1)
      BY SMTT(60), <1>1 DEF TypeOK
    <3>. QED  BY <1>5, <3>1
  <2>2. SlotOf(i) \in Slots /\ Contents[i] = ring[SlotOf(i)]
    BY <1>3
  <2>. QED  BY SMTT(60), <1>1, <1>2, <2>1, <2>2 DEF TypeOK
<1>8. \A i \in 1..(msg_number + 1) : i = msg_number + 1 => ring'[SlotOf(i)'] = message[t]
  BY SMTT(60), <1>1, <1>2, <1>5, <1>6 DEF TypeOK
<1>9. message[t] \in Msgs \cup {NoMsg}
  BY <1>1 DEF TypeOK, Threads
<1>10. /\ Append(Contents, message[t]) \in Seq(Msgs \cup {NoMsg})
       /\ Len(Append(Contents, message[t])) = msg_number + 1
       /\ \A i \in 1..msg_number : Append(Contents, message[t])[i] = Contents[i]
       /\ Append(Contents, message[t])[msg_number + 1] = message[t]
  BY SMTT(60), <1>3, <1>9, AppendProperties
<1>11. ASSUME NEW i \in 1..(msg_number + 1)
       PROVE  Contents'[i] = Append(Contents, message[t])[i]
  <2>1. i \in 1..msg_number \/ i = msg_number + 1
    BY SMTT(60), <1>1 DEF TypeOK
  <2>. QED  BY SMTT(60), <1>4, <1>7, <1>8, <1>10, <2>1
<1>. QED  BY <1>4, <1>10, <1>11, SeqEqual

LEMMA LockedTakes ==
  ASSUME MsgInv, NEW g \in Getters, GetterLocked(g)
  PROVE  Contents # <<>> /\ Contents' = Tail(Contents) /\ Head(Contents) = ring[msg_read]
<1>1. TypeOK /\ RingInv /\ TypeOK' /\ RingInv'
  BY LockedInv DEF MsgInv
<1>2. /\ msg_number >= 1 /\ msg_number' = msg_number - 1 /\ msg_read' = Advance(msg_read)
      /\ \E slot \in {NoMsg, ring[msg_read]} : ring' = [ring EXCEPT ![msg_read] = slot]
  BY LockedSteps
<1>3. /\ Contents \in Seq(Msgs \cup {NoMsg}) /\ Len(Contents) = msg_number
      /\ \A i \in 1..msg_number : SlotOf(i) \in Slots /\ Contents[i] = ring[SlotOf(i)]
  BY <1>1, ContentsType
<1>4. /\ Contents' \in Seq(Msgs \cup {NoMsg}) /\ Len(Contents') = msg_number - 1
      /\ \A i \in 1..(msg_number - 1) : Contents'[i] = ring'[SlotOf(i)']
  <2>1. /\ Contents' \in Seq(Msgs \cup {NoMsg}) /\ Len(Contents') = msg_number'
        /\ \A i \in 1..msg_number' : Contents'[i] = ring'[SlotOf(i)']
    BY <1>1, ContentsTypePrime
  <2>. QED  BY <1>2, <2>1
<1>5. SlotOf(1) = msg_read
  BY SMTT(60), <1>1 DEF SlotOf, TypeOK, Slots
<1>6. \A i \in 1..(msg_number - 1) : SlotOf(i)' = SlotOf(i + 1) /\ SlotOf(i + 1) # msg_read
  BY SMTT(60), <1>1, <1>2 DEF SlotOf, TypeOK, RingInv, Slots, Advance
<1>7. \A i \in 1..(msg_number - 1) : ring'[SlotOf(i)'] = Contents[i + 1]
  BY SMTT(60), <1>1, <1>2, <1>3, <1>6 DEF TypeOK
<1>8. Contents # <<>> /\ Head(Contents) = Contents[1]
  BY SMTT(60), <1>1, <1>2, <1>3 DEF TypeOK
<1>9. /\ Tail(Contents) \in Seq(Msgs \cup {NoMsg}) /\ Len(Tail(Contents)) = msg_number - 1
      /\ \A i \in 1..(msg_number - 1) : Tail(Contents)[i] = Contents[i + 1]
  BY SMTT(60), <1>3, <1>8, HeadTailProperties
<1>10. Contents' = Tail(Contents)
  BY <1>4, <1>7, <1>9, SeqEqual
<1>11. 1 \in 1..msg_number
  BY SMTT(60), <1>1, <1>2 DEF TypeOK
<1>. QED  BY SMTT(60), <1>3, <1>5, <1>8, <1>10, <1>11

\* Steps of the calls outside of the lock.
LEMMA CallStutters ==
  ASSUME UNCHANGED ringVars, \A g \in Getters : message'[g] = message[g]
  PROVE  UNCHANGED <<Contents, Received>>
<1>1. Contents' = Contents
  BY DEF Contents, SlotOf, ringVars
<1>2. Received' = Received
  BY DEF Received
<1>. QED  BY <1>1, <1>2

LEMMA InitFifo == Init => Fifo!FifoInit
<1>. SUFFICES ASSUME Init PROVE Fifo!FifoInit
  OBVIOUS
<1>1. TypeOK /\ RingInv /\ msg_number = 0
  BY InitInv DEF MsgInv, Init
<1>2. Contents = <<>>
  BY <1>1, ContentsType, EmptySeq
<1>3. Received = [g \in Getters |-> NoMsg]
  BY DEF Received, Init, Threads
<1>. QED  BY <1>2, <1>3 DEF Fifo!FifoInit

LEMMA NextFifo == MsgInv /\ [Next]_vars => [Fifo!FifoNext]_(Fifo!fifoVars)
<1>. SUFFICES ASSUME MsgInv, [Next]_vars PROVE [Fifo!FifoNext]_(Fifo!fifoVars)
  OBVIOUS
<1>1. message \in [Threads -> Msgs \cup {NoMsg}] /\ TypeOK /\ RingInv /\ PosterInv
  BY DEF MsgInv, TypeOK
<1>2. ASSUME NEW t \in Posters, PostStored(t)
      PROVE  Fifo!FifoNext
  <2>1. Contents' = Append(Contents, message[t]) /\ message[t] \in Msgs
    BY <1>1, <1>2, StoredPuts DEF PosterInv, PostStored
  <2>2. Received' = Received
    BY <1>2 DEF Received, PostStored
  <2>3. Len(Contents) < Count - 1
    <3>1. Len(Contents) = msg_number
      BY <1>1, ContentsType
    <3>. QED  BY SMTT(60), <1>1, <1>2, <3>1 DEF PostStored, Full, TypeOK
  <2>4. Fifo!Put(message[t])
    BY <2>1, <2>2, <2>3 DEF Fifo!Put
  <2>. QED  BY <2>1, <2>4 DEF Fifo!FifoNext
<1>3. ASSUME NEW t \in Posters, (\E m \in Msgs : Post(t, m)) \/ PostRefused(t) \/ SemPost(t)
      PROVE  UNCHANGED Fifo!fifoVars
  <2>1. UNCHANGED ringVars /\ \E m \in Msgs \cup {NoMsg} : message' = [message EXCEPT ![t] = m]
    BY <1>3 DEF Post, PostRefused, SemPost, PostReturns
  <2>2. \A g \in Getters : g # t /\ g \in Threads
    BY DEF Threads
  <2>3. \A g \in Getters : message'[g] = message[g]
    BY <1>1, <2>1, <2>2
  <2>. QED  BY <2>1, <2>3, CallStutters DEF Fifo!fifoVars
<1>4. ASSUME NEW g \in Getters, GetterCall(g) \/ SemWait(g) \/ TimedOut(g)
      PROVE  UNCHANGED Fifo!fifoVars
  <2>1. UNCHANGED ringVars /\ message' = message
    BY <1>4, GetterCallSteps
  <2>. QED  BY <2>1, CallStutters DEF Fifo!fifoVars
<1>5. ASSUME NEW g \in Getters, GetterLocked(g)
      PROVE  Fifo!FifoNext
  <2>1. Contents # <<>> /\ Contents' = Tail(Contents) /\ Head(Contents) = ring[msg_read]
    BY <1>5, LockedTakes
  <2>2. message' = [message EXCEPT ![g] = ring[msg_read]]
    BY <1>5, LockedSteps
  <2>3. Received' = [Received EXCEPT ![g] = Head(Contents)]
    BY <1>1, <2>1, <2>2 DEF Received, Threads
  <2>4. Fifo!Take(g)
    BY <2>1, <2>3 DEF Fifo!Take
  <2>. QED  BY <2>4 DEF Fifo!FifoNext
<1>6. CASE UNCHANGED vars
  BY <1>6, CallStutters DEF vars, ringVars, Fifo!fifoVars
<1>. QED  BY <1>2, <1>3, <1>4, <1>5, <1>6 DEF Next, PosterNext, GetterNext

\* For every number of threads and slots the ring with its semaphore implements
\* a first-in first-out queue of Count - 1 messages (cmr_msg_post, cmr_msg_get,
\* cmr_msg_peak).
THEOREM RefinesFifo == Spec => ImplementsFifo
BY InitFifo, NextFifo, Invariance, PTL DEF Spec, ImplementsFifo, Fifo!FifoSpec
=============================================================================
