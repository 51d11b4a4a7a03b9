---------------------------- MODULE CmrFdProofs -----------------------------
(***************************************************************************)
(* The safety properties of face detection, for any number of frames,      *)
(* starts and memories.                                                    *)
(***************************************************************************)
EXTENDS CmrFd, TLAPS

USE ZenonT(60)

Starting == {"start", "created", "finalized", "set"}
Closing == {"exiting", "destroy", "deinited", "prev_exiting", "closed"}
Messages == {"START", "EXIT"}
Holds(q, m) == \E i \in 1..Len(q) : q[i] = m
Once(q) == \A i, j \in 1..Len(q) : q[i] = q[j] => i = j

Types ==
    /\ main \in {"idle"} \cup Starting \cup Closing
    /\ prev \in {"get", "type", "post", "wait", "done"}
    /\ fd \in {"none", "start", "get", "lock", "copy", "detect", "exit", "done"}
    /\ app \in {"idle", "starting", "restarting", "set", "flag", "free", "closed"}
    /\ preview_status \in {"preview", "idle"} /\ library \in {"none", "ready"}
    /\ fd_inited \in {0, 1} /\ fd_sync_sem \in Nat /\ fd_lock \in {"free", "fd"}
    /\ addr \in Nat /\ mFDAddr \in Nat /\ allocs \in Nat

\* At most one frame and one end are queued.
QueueTyped == fd_queue \in Seq(Messages) /\ Once(fd_queue)

\* Which calls of the client, phases of the main thread and threads go
\* together.
Phases ==
    /\ preview_status = "preview" => main = "idle" /\ mPreviewing
    /\ main \in Starting => app \in {"starting", "restarting"}
    /\ app \in {"starting", "restarting"} => main \in Starting
    /\ app = "starting" => ~mPreviewing
    /\ app = "restarting" => mPreviewing
    /\ main \in Closing => app = "closed"
    /\ app = "closed" => main \in Closing /\ ~mPreviewing
    /\ queue_alive => fd_inited = 1 /\ fd # "none"
    /\ ~queue_alive => fd_inited = 0
    /\ main \in {"created", "exiting", "destroy"} => queue_alive
    /\ ~queue_alive /\ app # "closed" => fd = "none" /\ prev # "wait"
    /\ fd = "start" => main = "created" /\ fd_sync_sem = 0
    /\ main = "created" => fd \notin {"copy", "detect"}
    /\ Holds(fd_queue, "EXIT") \/ fd \in {"exit", "done"} => app = "closed"

\* A frame that is queued or being copied is one the preview thread waits
\* with, unless its unit of the semaphore was the one of the thread's creation
\* or of its end; then no other frame follows it.
Outstanding ==
    Holds(fd_queue, "START") \/ fd \in {"lock", "copy"} =>
        \/ prev = "wait"
        \/ prev \in {"get", "done"} /\ preview_status = "idle" /\ main = "created"
        \/ prev \in {"get", "done"} /\ preview_status = "idle" /\ fd \in {"exit", "done"}

\* When the main thread has posted the end, and when it has taken a unit for
\* it, be it the one of the preview thread: no frame is left that could still be
\* copied.
Ending ==
    /\ main \in {"exiting", "destroy"} => Holds(fd_queue, "EXIT") \/ fd \in {"exit", "done"}
    /\ main = "destroy" /\ fd \notin {"exit", "done"} => ~Holds(fd_queue, "START") /\ fd \notin {"lock", "copy"}
    /\ ~queue_alive => fd \in {"none", "get", "exit", "done"} /\ fd_queue = <<>>

\* The detection thread is in its critical section only with the lock, while
\* the preview runs or FreeFdmem has yet to take the lock.
Critical ==
    /\ addr # 0 => app = "set" \/ mFDAddr # 0
    /\ fd \in {"copy", "detect"} =>
         /\ fd_lock = "fd" /\ queue_alive
         /\ mPreviewing \/ app = "free"
         /\ app = "set" \/ mFDAddr # 0

FdInv == Types /\ QueueTyped /\ Phases /\ SemBalanced /\ Outstanding /\ Ending /\ FrameHeld /\ Critical

-----------------------------------------------------------------------------
(* The queue of the detection thread *)

\* What cmr_msg_get takes from the queue and leaves in it.
LEMMA QueueGet ==
    ASSUME NEW q \in Seq(Messages), Once(q), q # <<>>, NEW m
    PROVE  /\ Tail(q) \in Seq(Messages) /\ Once(Tail(q)) /\ Len(Tail(q)) = Len(q) - 1 /\ Len(q) > 0
           /\ Head(q) \in Messages /\ Holds(q, Head(q)) /\ ~Holds(Tail(q), Head(q))
           /\ Holds(Tail(q), m) => Holds(q, m)
           /\ Holds(q, m) => Holds(Tail(q), m) \/ m = Head(q)
<1>1. Len(q) > 0 /\ Tail(q) \in Seq(Messages) /\ Len(Tail(q)) = Len(q) - 1 /\ Head(q) = q[1]
  BY SMTT(60)
<1>2. \A i \in 1..Len(Tail(q)) : Tail(q)[i] = q[i + 1] /\ i + 1 \in 1..Len(q)
  BY SMTT(60)
<1>3. Once(Tail(q))
  BY SMTT(60), <1>1, <1>2 DEF Once
<1>4. Head(q) \in Messages /\ Holds(q, Head(q))
  BY SMTT(60), <1>1 DEF Holds
<1>5. ~Holds(Tail(q), Head(q))
  BY SMTT(60), <1>1, <1>2 DEF Once, Holds
<1>6. Holds(Tail(q), m) => Holds(q, m)
  BY <1>2 DEF Holds
<1>7. ASSUME NEW i \in 1..Len(q), q[i] = m, m # Head(q) PROVE Holds(Tail(q), m)
  <2>1. i - 1 \in 1..Len(Tail(q)) /\ Tail(q)[i - 1] = m
    BY SMTT(60), <1>1, <1>2, <1>7
  <2> QED
    BY <2>1 DEF Holds
<1> QED
  BY <1>1, <1>3, <1>4, <1>5, <1>6, <1>7 DEF Holds

\* What cmr_msg_post leaves in the queue.
LEMMA QueuePost ==
    ASSUME NEW q \in Seq(Messages), Once(q), NEW m \in Messages, ~Holds(q, m), NEW n
    PROVE  /\ Append(q, m) \in Seq(Messages) /\ Once(Append(q, m)) /\ Len(Append(q, m)) = Len(q) + 1
           /\ Holds(Append(q, m), n) <=> Holds(q, n) \/ n = m
<1>1. Append(q, m) \in Seq(Messages) /\ Len(Append(q, m)) = Len(q) + 1 /\ Append(q, m)[Len(q) + 1] = m
  BY SMTT(60)
<1>2. \A i \in 1..Len(q) : Append(q, m)[i] = q[i]
  BY SMTT(60)
<1>3. Once(Append(q, m))
  BY SMTT(60), <1>1, <1>2 DEF Once, Holds
<1>4. Holds(Append(q, m), n) => Holds(q, n) \/ n = m
  BY SMTT(60), <1>1, <1>2 DEF Holds
<1>5. Holds(q, n) => Holds(Append(q, m), n)
  BY SMTT(60), <1>1, <1>2 DEF Holds
<1>6. Holds(Append(q, m), m)
  BY SMTT(60), <1>1 DEF Holds
<1> QED
  BY <1>1, <1>3, <1>4, <1>5, <1>6

\* How many messages a queue has.
LEMMA QueueLen ==
    ASSUME NEW q \in Seq(Messages)
    PROVE  /\ Len(q) \in Nat
           /\ Holds(q, "START") \/ Holds(q, "EXIT") => Len(q) > 0
           /\ Holds(q, "START") /\ Holds(q, "EXIT") => Len(q) > 1
<1>1. Len(q) \in Nat
  BY SMTT(60)
<1>2. Holds(q, "START") \/ Holds(q, "EXIT") => Len(q) > 0
  BY SMTT(60), <1>1 DEF Holds
<1>3. Holds(q, "START") /\ Holds(q, "EXIT") => Len(q) > 1
  BY SMTT(60), <1>1 DEF Holds
<1> QED
  BY <1>1, <1>2, <1>3

\* An empty queue.
LEMMA QueueEmpty ==
    ASSUME NEW m
    PROVE  <<>> \in Seq(Messages) /\ Once(<<>>) /\ Len(<<>>) = 0 /\ ~Holds(<<>>, m)
BY SMTT(60) DEF Once, Holds

-----------------------------------------------------------------------------
(* Every step keeps the invariant *)

\* What is known of the queue when the detection thread's end is posted.
LEMMA ExitPosted ==
    ASSUME FdInv, FdExit
    PROVE  /\ Append(fd_queue, "EXIT") \in Seq(Messages) /\ Once(Append(fd_queue, "EXIT"))
           /\ Len(Append(fd_queue, "EXIT")) = Len(fd_queue) + 1
           /\ Holds(Append(fd_queue, "EXIT"), "START") => Holds(fd_queue, "START")
           /\ Holds(Append(fd_queue, "EXIT"), "EXIT")
<1>1. ~Holds(fd_queue, "EXIT")
  BY DEF FdInv, Phases, FdExit
<1>2. fd_queue \in Seq(Messages) /\ Once(fd_queue)
  BY DEF FdInv, QueueTyped
<1> QED
  BY <1>1, <1>2, QueuePost DEF Messages

\* What is known of the queue when a frame is posted.
LEMMA StartPosted ==
    ASSUME FdInv, FdStart
    PROVE  /\ Append(fd_queue, "START") \in Seq(Messages) /\ Once(Append(fd_queue, "START"))
           /\ Len(Append(fd_queue, "START")) = Len(fd_queue) + 1
           /\ Holds(Append(fd_queue, "START"), "EXIT") <=> Holds(fd_queue, "EXIT")
<1>1. ~Holds(fd_queue, "START")
  BY DEF FdInv, Outstanding, FdStart
<1>2. fd_queue \in Seq(Messages) /\ Once(fd_queue)
  BY DEF FdInv, QueueTyped
<1> QED
  BY <1>1, <1>2, QueuePost DEF Messages

\* What is known of the queue when a message is taken.
LEMMA MessageTaken ==
    ASSUME FdInv, fd_queue # <<>>
    PROVE  /\ Tail(fd_queue) \in Seq(Messages) /\ Once(Tail(fd_queue))
           /\ Len(Tail(fd_queue)) = Len(fd_queue) - 1
           /\ Head(fd_queue) \in {"START", "EXIT"} /\ Holds(fd_queue, Head(fd_queue))
           /\ ~Holds(Tail(fd_queue), Head(fd_queue))
           /\ Holds(Tail(fd_queue), "START") => Holds(fd_queue, "START")
           /\ Holds(Tail(fd_queue), "EXIT") => Holds(fd_queue, "EXIT")
           /\ Holds(fd_queue, "EXIT") => Holds(Tail(fd_queue), "EXIT") \/ Head(fd_queue) = "EXIT"
<1>1. fd_queue \in Seq(Messages) /\ Once(fd_queue)
  BY DEF FdInv, QueueTyped
<1> QED
  BY <1>1, QueueGet DEF Messages

\* How many messages are queued.
LEMMA Lengths ==
    ASSUME FdInv
    PROVE  /\ Len(fd_queue) \in Nat
           /\ Holds(fd_queue, "START") \/ Holds(fd_queue, "EXIT") => Len(fd_queue) > 0
           /\ Holds(fd_queue, "START") /\ Holds(fd_queue, "EXIT") => Len(fd_queue) > 1
BY QueueLen DEF FdInv, QueueTyped

\* The preview thread finds a unit while its frame has yet to be copied only if
\* it is the one of the creation or of the end of the detection thread.
LEMMA TakesNone ==
    ASSUME FdInv, prev = "wait", fd_sync_sem > 0, Holds(fd_queue, "START") \/ fd \in {"lock", "copy"}
    PROVE  main = "created" \/ fd \in {"exit", "done"}
<1> SUFFICES ASSUME main # "created", fd \notin {"exit", "done"} PROVE FALSE
  OBVIOUS
<1>1. fd_sync_sem \in Nat
  BY DEF FdInv, Types
<1>2. queue_alive
  BY QueueEmpty DEF FdInv, Ending
<1>3. fd_sync_sem + Len(fd_queue) + Count(fd \in {"start", "lock", "copy", "exit"})
        = Count(main \in {"created", "exiting"}) + Count(prev = "wait")
  BY <1>2 DEF FdInv, SemBalanced
<1>4. CASE main = "exiting"
  <2>1. Holds(fd_queue, "EXIT")
    BY <1>4 DEF FdInv, Ending
  <2> QED
    BY SMTT(60), <1>1, <1>3, <1>4, <2>1, Lengths DEF Count
<1>5. CASE main # "exiting"
  BY SMTT(60), <1>1, <1>3, <1>5, Lengths DEF Count
<1> QED
  BY <1>4, <1>5

\* When the main thread finds a unit for the creation, a frame that is queued is
\* waited with.
LEMMA CreatedHeld ==
    ASSUME FdInv, main = "created", fd_sync_sem > 0, Holds(fd_queue, "START") \/ fd \in {"lock", "copy"}
    PROVE  prev = "wait"
<1>1. fd_sync_sem \in Nat /\ queue_alive
  BY DEF FdInv, Types, Phases
<1>2. fd_sync_sem + Len(fd_queue) + Count(fd \in {"start", "lock", "copy", "exit"})
        = Count(main \in {"created", "exiting"}) + Count(prev = "wait")
  BY <1>1 DEF FdInv, SemBalanced
<1> QED
  BY SMTT(60), <1>1, <1>2, Lengths DEF Count

\* When the main thread finds a unit for the end that it has posted, no frame
\* is left.
LEMMA LeavesNone ==
    ASSUME FdInv, main = "exiting", fd_sync_sem > 0, fd \notin {"exit", "done"}
    PROVE  ~Holds(fd_queue, "START") /\ fd \notin {"lock", "copy"}
<1> SUFFICES ASSUME Holds(fd_queue, "START") \/ fd \in {"lock", "copy"} PROVE FALSE
  OBVIOUS
<1>1. prev = "wait"
  BY DEF FdInv, Outstanding
<1> QED
  BY <1>1, TakesNone

\* No frame is posted once the main thread has taken a unit for the end, unless
\* the detection thread has ended.
LEMMA PostsNone ==
    ASSUME FdInv, main = "destroy", prev = "post"
    PROVE  fd \in {"exit", "done"}
<1> SUFFICES ASSUME fd \notin {"exit", "done"} PROVE FALSE
  OBVIOUS
<1>1. fd_sync_sem \in Nat /\ queue_alive /\ Holds(fd_queue, "EXIT")
  BY DEF FdInv, Types, Phases, Ending
<1>2. fd_sync_sem + Len(fd_queue) + Count(fd \in {"start", "lock", "copy", "exit"})
        = Count(main \in {"created", "exiting"}) + Count(prev = "wait")
  BY <1>1 DEF FdInv, SemBalanced
<1> QED
  BY SMTT(60), <1>1, <1>2, Lengths DEF Count

\* The types are kept.
LEMMA TypesStep ==
    ASSUME FdInv, [Next]_vars
    PROVE  Types'
<1> USE DEF FdInv, Types, Starting, Closing
<1>0. CASE UNCHANGED vars
  BY SMTT(60), <1>0 DEF vars, threads, status, flags, sync, memory, bounds
<1>1. CASE StartPreview
  BY <1>1 DEF StartPreview, status, flags, sync, memory
<1>2. CASE Restart
  BY <1>2 DEF Restart, flags, sync, memory
<1>3. CASE StopPreview
  BY SMTT(60), <1>3 DEF StopPreview, flags, sync, memory, bounds
<1>4. CASE FdExit
  BY SMTT(60), <1>4, ExitPosted DEF FdExit, flags, bounds
<1>5. CASE StartFaceDetection
  BY SMTT(60), <1>5 DEF StartFaceDetection, status, flags, sync
<1>6. CASE StopFaceDetection
  BY SMTT(60), <1>6 DEF StopFaceDetection, status, sync, memory, bounds
<1>7. CASE Frame
  BY SMTT(60), <1>7 DEF Frame, threads, status, flags, sync, memory
<1>8. CASE FdInit
  BY SMTT(60), <1>8, QueueEmpty DEF FdInit, FaceSolid_Init, status, memory, bounds
<1>9. CASE FdCreated
  BY SMTT(60), <1>9 DEF FdCreated, status, flags, memory, bounds
<1>10. CASE FdFinalize
  BY SMTT(60), <1>10 DEF FdFinalize, status, flags, sync, memory, bounds
<1>11. CASE FdInitAgain
  BY SMTT(60), <1>11 DEF FdInitAgain, FaceSolid_Init, status, flags, sync, memory, bounds
<1>12. CASE PreviewSet
  BY SMTT(60), <1>12 DEF PreviewSet, flags, sync, memory, bounds
<1>13. CASE FdExited
  BY SMTT(60), <1>13 DEF FdExited, status, flags, memory, bounds
<1>14. CASE FdDestroy
  BY SMTT(60), <1>14, QueueEmpty DEF FdDestroy, status, bounds
<1>15. CASE PrevExit
  BY SMTT(60), <1>15 DEF PrevExit, status, flags, sync, memory, bounds
<1>16. CASE PrevExited
  BY SMTT(60), <1>16 DEF PrevExited, status, flags, sync, memory, bounds
<1>17. CASE PrevGet
  BY SMTT(60), <1>17 DEF PrevGet, status, flags, sync, memory, bounds
<1>18. CASE SetFrameType
  BY SMTT(60), <1>18 DEF SetFrameType, status, flags, sync, memory, bounds
<1>19. CASE FdStart
  BY SMTT(60), <1>19, StartPosted DEF FdStart, status, flags, memory, bounds
<1>20. CASE FdStarted
  BY SMTT(60), <1>20 DEF FdStarted, status, flags, memory, bounds
<1>21. CASE ThreadStart
  BY SMTT(60), <1>21 DEF ThreadStart, Post, status, flags, memory, bounds
<1>22. CASE ThreadGet
  BY SMTT(60), <1>22, MessageTaken DEF ThreadGet, status, memory, bounds
<1>23. CASE ThreadSkip
  BY SMTT(60), <1>23 DEF ThreadSkip, Post, status, memory, bounds
<1>24. CASE ThreadLock
  BY SMTT(60), <1>24 DEF ThreadLock, status, flags, sync, memory, bounds
<1>25. CASE ThreadCopy
  BY SMTT(60), <1>25 DEF ThreadCopy, Post, status, flags, memory, bounds
<1>26. CASE ThreadDetect
  BY SMTT(60), <1>26 DEF ThreadDetect, status, sync, memory, bounds
<1>27. CASE ThreadExit
  BY SMTT(60), <1>27 DEF ThreadExit, Post, status, flags, memory, bounds
<1>28. CASE SetMem
  BY SMTT(60), <1>28 DEF SetMem, status, flags, sync, bounds
<1>29. CASE SetFlag
  BY SMTT(60), <1>29 DEF SetFlag, status, sync, memory, bounds
<1>30. CASE FreeFdmem
  BY SMTT(60), <1>30 DEF FreeFdmem, status, flags, sync, bounds
<1> QED
  BY <1>0, <1>1, <1>2, <1>3, <1>4, <1>5, <1>6, <1>7, <1>8, <1>9, <1>10, <1>11, <1>12, <1>13,
     <1>14, <1>15, <1>16, <1>17, <1>18, <1>19, <1>20, <1>21, <1>22, <1>23, <1>24, <1>25, <1>26,
     <1>27, <1>28, <1>29, <1>30 DEF Next, Main, Prev, FdThread, Client

\* The queue is still one of messages, each at most once.
LEMMA QueueStep ==
    ASSUME FdInv, [Next]_vars
    PROVE  QueueTyped'
<1> USE DEF FdInv, QueueTyped, Starting, Closing
<1>0. CASE UNCHANGED vars
  BY <1>0 DEF vars, threads, status, flags, sync, memory, bounds
<1>1. CASE StartPreview
  BY <1>1 DEF StartPreview, status, flags, sync, memory
<1>2. CASE Restart
  BY <1>2 DEF Restart, flags, sync, memory
<1>3. CASE StopPreview
  BY <1>3 DEF StopPreview, flags, sync, memory, bounds
<1>4. CASE FdExit
  <2>1. CASE fd_inited = 1
    BY <1>4, <2>1, ExitPosted DEF FdExit, flags, bounds
  <2>2. CASE fd_inited # 1
    BY <1>4, <2>2, ExitPosted DEF FdExit, flags, bounds
  <2> QED
    BY <2>1, <2>2
<1>5. CASE StartFaceDetection
  BY <1>5 DEF StartFaceDetection, status, flags, sync
<1>6. CASE StopFaceDetection
  BY <1>6 DEF StopFaceDetection, status, sync, memory, bounds
<1>7. CASE Frame
  BY <1>7 DEF Frame, threads, status, flags, sync, memory
<1>8. CASE FdInit
  <2>1. CASE main' = "created"
    BY <1>8, <2>1, QueueEmpty DEF FdInit, FaceSolid_Init, status, memory, bounds
  <2>2. CASE main' = "set"
    BY <1>8, <2>2, QueueEmpty DEF FdInit, FaceSolid_Init, status, memory, bounds
  <2> QED
    BY <1>8, <2>1, <2>2 DEF FdInit
<1>9. CASE FdCreated
  BY <1>9 DEF FdCreated, status, flags, memory, bounds
<1>10. CASE FdFinalize
  BY <1>10 DEF FdFinalize, status, flags, sync, memory, bounds
<1>11. CASE FdInitAgain
  BY <1>11 DEF FdInitAgain, FaceSolid_Init, status, flags, sync, memory, bounds
<1>12. CASE PreviewSet
  BY <1>12 DEF PreviewSet, flags, sync, memory, bounds
<1>13. CASE FdExited
  BY <1>13 DEF FdExited, status, flags, memory, bounds
<1>14. CASE FdDestroy
  BY <1>14, QueueEmpty DEF FdDestroy, status, bounds
<1>15. CASE PrevExit
  BY <1>15 DEF PrevExit, status, flags, sync, memory, bounds
<1>16. CASE PrevExited
  BY <1>16 DEF PrevExited, status, flags, sync, memory, bounds
<1>17. CASE PrevGet
  BY <1>17 DEF PrevGet, status, flags, sync, memory, bounds
<1>18. CASE SetFrameType
  BY <1>18 DEF SetFrameType, status, flags, sync, memory, bounds
<1>19. CASE FdStart
  <2>1. CASE fd_busy # 1 /\ queue_alive
    BY <1>19, <2>1, StartPosted DEF FdStart, status, flags, memory, bounds
  <2>2. CASE ~(fd_busy # 1 /\ queue_alive)
    BY <1>19, <2>2, StartPosted DEF FdStart, status, flags, memory, bounds
  <2> QED
    BY <2>1, <2>2
<1>20. CASE FdStarted
  BY <1>20 DEF FdStarted, status, flags, memory, bounds
<1>21. CASE ThreadStart
  BY <1>21 DEF ThreadStart, Post, status, flags, memory, bounds
<1>22. CASE ThreadGet
  <2>1. CASE ~queue_alive
    BY <1>22, <2>1, MessageTaken DEF ThreadGet, status, memory, bounds
  <2>2. CASE queue_alive /\ Head(fd_queue) = "START"
    BY <1>22, <2>2, MessageTaken DEF ThreadGet, status, memory, bounds
  <2>3. CASE queue_alive /\ Head(fd_queue) = "EXIT"
    BY <1>22, <2>3, MessageTaken DEF ThreadGet, status, memory, bounds
  <2> QED
    BY <1>22, <2>1, <2>2, <2>3, MessageTaken DEF ThreadGet
<1>23. CASE ThreadSkip
  BY <1>23 DEF ThreadSkip, Post, status, memory, bounds
<1>24. CASE ThreadLock
  BY <1>24 DEF ThreadLock, status, flags, sync, memory, bounds
<1>25. CASE ThreadCopy
  BY <1>25 DEF ThreadCopy, Post, status, flags, memory, bounds
<1>26. CASE ThreadDetect
  BY <1>26 DEF ThreadDetect, status, sync, memory, bounds
<1>27. CASE ThreadExit
  BY <1>27 DEF ThreadExit, Post, status, flags, memory, bounds
<1>28. CASE SetMem
  BY <1>28 DEF SetMem, status, flags, sync, bounds
<1>29. CASE SetFlag
  BY <1>29 DEF SetFlag, status, sync, memory, bounds
<1>30. CASE FreeFdmem
  BY <1>30 DEF FreeFdmem, status, flags, sync, bounds
<1> QED
  BY <1>0, <1>1, <1>2, <1>3, <1>4, <1>5, <1>6, <1>7, <1>8, <1>9, <1>10, <1>11, <1>12, <1>13,
     <1>14, <1>15, <1>16, <1>17, <1>18, <1>19, <1>20, <1>21, <1>22, <1>23, <1>24, <1>25, <1>26,
     <1>27, <1>28, <1>29, <1>30 DEF Next, Main, Prev, FdThread, Client

\* The threads' phases still go together.
LEMMA PhasesStep ==
    ASSUME FdInv, [Next]_vars
    PROVE  Phases'
<1> USE DEF FdInv, Types, Phases, Starting, Closing
<1>0. CASE UNCHANGED vars
  BY <1>0 DEF vars, threads, status, flags, sync, memory, bounds
<1>1. CASE StartPreview
  BY <1>1 DEF StartPreview, status, flags, sync, memory
<1>2. CASE Restart
  BY <1>2 DEF Restart, flags, sync, memory
<1>3. CASE StopPreview
  BY <1>3 DEF StopPreview, flags, sync, memory, bounds
<1>4. CASE FdExit
  <2>1. CASE fd_inited = 1
    BY SMTT(60), <1>4, <2>1, ExitPosted DEF FdExit, flags, bounds
  <2>2. CASE fd_inited # 1
    BY <1>4, <2>2, ExitPosted DEF FdExit, flags, bounds
  <2> QED
    BY <2>1, <2>2
<1>5. CASE StartFaceDetection
  BY <1>5 DEF StartFaceDetection, status, flags, sync
<1>6. CASE StopFaceDetection
  BY <1>6 DEF StopFaceDetection, status, sync, memory, bounds
<1>7. CASE Frame
  BY <1>7 DEF Frame, threads, status, flags, sync, memory
<1>8. CASE FdInit
  <2>1. CASE main' = "created"
    BY <1>8, <2>1, QueueEmpty DEF FdInit, FaceSolid_Init, status, memory, bounds, Ending
  <2>2. CASE main' = "set"
    BY SMTT(60), <1>8, <2>2, QueueEmpty DEF FdInit, FaceSolid_Init, status, memory, bounds, Ending
  <2> QED
    BY <1>8, <2>1, <2>2 DEF FdInit
<1>9. CASE FdCreated
  BY SMTT(60), <1>9 DEF FdCreated, status, flags, memory, bounds
<1>10. CASE FdFinalize
  BY <1>10 DEF FdFinalize, status, flags, sync, memory, bounds
<1>11. CASE FdInitAgain
  BY <1>11 DEF FdInitAgain, FaceSolid_Init, status, flags, sync, memory, bounds
<1>12. CASE PreviewSet
  BY <1>12 DEF PreviewSet, flags, sync, memory, bounds
<1>13. CASE FdExited
  BY <1>13 DEF FdExited, status, flags, memory, bounds
<1>14. CASE FdDestroy
  BY <1>14, QueueEmpty DEF FdDestroy, status, bounds
<1>15. CASE PrevExit
  BY <1>15 DEF PrevExit, status, flags, sync, memory, bounds
<1>16. CASE PrevExited
  BY <1>16 DEF PrevExited, status, flags, sync, memory, bounds
<1>17. CASE PrevGet
  BY SMTT(60), <1>17 DEF PrevGet, status, flags, sync, memory, bounds
<1>18. CASE SetFrameType
  BY SMTT(60), <1>18 DEF SetFrameType, status, flags, sync, memory, bounds
<1>19. CASE FdStart
  <2>1. CASE fd_busy # 1 /\ queue_alive
    BY <1>19, <2>1, StartPosted DEF FdStart, status, flags, memory, bounds
  <2>2. CASE ~(fd_busy # 1 /\ queue_alive)
    BY SMTT(60), <1>19, <2>2, StartPosted DEF FdStart, status, flags, memory, bounds
  <2> QED
    BY <2>1, <2>2
<1>20. CASE FdStarted
  BY SMTT(60), <1>20 DEF FdStarted, status, flags, memory, bounds
<1>21. CASE ThreadStart
  BY <1>21 DEF ThreadStart, Post, status, flags, memory, bounds
<1>22. CASE ThreadGet
  <2>1. CASE ~queue_alive
    BY <1>22, <2>1, MessageTaken DEF ThreadGet, status, memory, bounds
  <2>2. CASE queue_alive /\ Head(fd_queue) = "START"
    BY <1>22, <2>2, MessageTaken DEF ThreadGet, status, memory, bounds
  <2>3. CASE queue_alive /\ Head(fd_queue) = "EXIT"
    BY <1>22, <2>3, MessageTaken DEF ThreadGet, status, memory, bounds
  <2> QED
    BY <1>22, <2>1, <2>2, <2>3, MessageTaken DEF ThreadGet
<1>23. CASE ThreadSkip
  BY <1>23 DEF ThreadSkip, Post, status, memory, bounds
<1>24. CASE ThreadLock
  BY <1>24 DEF ThreadLock, status, flags, sync, memory, bounds
<1>25. CASE ThreadCopy
  BY <1>25 DEF ThreadCopy, Post, status, flags, memory, bounds
<1>26. CASE ThreadDetect
  BY <1>26 DEF ThreadDetect, status, sync, memory, bounds
<1>27. CASE ThreadExit
  BY <1>27 DEF ThreadExit, Post, status, flags, memory, bounds
<1>28. CASE SetMem
  BY <1>28 DEF SetMem, status, flags, sync, bounds
<1>29. CASE SetFlag
  BY <1>29 DEF SetFlag, status, sync, memory, bounds
<1>30. CASE FreeFdmem
  BY <1>30 DEF FreeFdmem, status, flags, sync, bounds
<1> QED
  BY <1>0, <1>1, <1>2, <1>3, <1>4, <1>5, <1>6, <1>7, <1>8, <1>9, <1>10, <1>11, <1>12, <1>13,
     <1>14, <1>15, <1>16, <1>17, <1>18, <1>19, <1>20, <1>21, <1>22, <1>23, <1>24, <1>25, <1>26,
     <1>27, <1>28, <1>29, <1>30 DEF Next, Main, Prev, FdThread, Client

\* No unit of fd_sync_sem is lost or left over.
LEMMA BalancedStep ==
    ASSUME FdInv, [Next]_vars
    PROVE  SemBalanced'
<1> USE DEF FdInv, Types, Phases, SemBalanced, Count, Starting, Closing
<1>0. CASE UNCHANGED vars
  BY <1>0 DEF vars, threads, status, flags, sync, memory, bounds
<1>1. CASE StartPreview
  BY <1>1, Lengths DEF StartPreview, status, flags, sync, memory
<1>2. CASE Restart
  BY <1>2, Lengths DEF Restart, flags, sync, memory
<1>3. CASE StopPreview
  BY <1>3, Lengths DEF StopPreview, flags, sync, memory, bounds
<1>4. CASE FdExit
  <2>1. CASE fd_inited = 1
    BY SMTT(60), <1>4, <2>1, ExitPosted, Lengths DEF FdExit, flags, bounds
  <2>2. CASE fd_inited # 1
    BY <1>4, <2>2, ExitPosted, Lengths DEF FdExit, flags, bounds
  <2> QED
    BY <2>1, <2>2
<1>5. CASE StartFaceDetection
  BY <1>5, Lengths DEF StartFaceDetection, status, flags, sync
<1>6. CASE StopFaceDetection
  BY <1>6, Lengths DEF StopFaceDetection, status, sync, memory, bounds
<1>7. CASE Frame
  BY <1>7, Lengths DEF Frame, threads, status, flags, sync, memory
<1>8. CASE FdInit
  <2>1. CASE main' = "created"
    BY SMTT(60), <1>8, <2>1, QueueEmpty, Lengths DEF FdInit, FaceSolid_Init, status, memory, bounds, Ending
  <2>2. CASE main' = "set"
    BY <1>8, <2>2, QueueEmpty, Lengths DEF FdInit, FaceSolid_Init, status, memory, bounds, Ending
  <2> QED
    BY <1>8, <2>1, <2>2 DEF FdInit
<1>9. CASE FdCreated
  BY SMTT(60), <1>9, Lengths DEF FdCreated, status, flags, memory, bounds
<1>10. CASE FdFinalize
  BY <1>10, Lengths DEF FdFinalize, status, flags, sync, memory, bounds
<1>11. CASE FdInitAgain
  BY <1>11, Lengths DEF FdInitAgain, FaceSolid_Init, status, flags, sync, memory, bounds
<1>12. CASE PreviewSet
  BY <1>12, Lengths DEF PreviewSet, flags, sync, memory, bounds
<1>13. CASE FdExited
  BY SMTT(60), <1>13, Lengths DEF FdExited, status, flags, memory, bounds
<1>14. CASE FdDestroy
  BY <1>14, QueueEmpty, Lengths DEF FdDestroy, status, bounds
<1>15. CASE PrevExit
  BY <1>15, Lengths DEF PrevExit, status, flags, sync, memory, bounds
<1>16. CASE PrevExited
  BY <1>16, Lengths DEF PrevExited, status, flags, sync, memory, bounds
<1>17. CASE PrevGet
  BY <1>17, Lengths DEF PrevGet, status, flags, sync, memory, bounds
<1>18. CASE SetFrameType
  BY <1>18, Lengths DEF SetFrameType, status, flags, sync, memory, bounds
<1>19. CASE FdStart
  <2>1. CASE fd_busy # 1 /\ queue_alive
    BY SMTT(60), <1>19, <2>1, StartPosted, Lengths DEF FdStart, status, flags, memory, bounds
  <2>2. CASE ~(fd_busy # 1 /\ queue_alive)
    BY <1>19, <2>2, StartPosted, Lengths DEF FdStart, status, flags, memory, bounds
  <2> QED
    BY <2>1, <2>2
<1>20. CASE FdStarted
  BY SMTT(60), <1>20, Lengths DEF FdStarted, status, flags, memory, bounds
<1>21. CASE ThreadStart
  BY SMTT(60), <1>21, Lengths DEF ThreadStart, Post, status, flags, memory, bounds
<1>22. CASE ThreadGet
  <2>1. CASE ~queue_alive
    BY <1>22, <2>1, MessageTaken, Lengths DEF ThreadGet, status, memory, bounds
  <2>2. CASE queue_alive /\ Head(fd_queue) = "START"
    BY SMTT(60), <1>22, <2>2, MessageTaken, Lengths DEF ThreadGet, status, memory, bounds
  <2>3. CASE queue_alive /\ Head(fd_queue) = "EXIT"
    BY SMTT(60), <1>22, <2>3, MessageTaken, Lengths DEF ThreadGet, status, memory, bounds
  <2> QED
    BY <1>22, <2>1, <2>2, <2>3, MessageTaken DEF ThreadGet
<1>23. CASE ThreadSkip
  BY SMTT(60), <1>23, Lengths DEF ThreadSkip, Post, status, memory, bounds
<1>24. CASE ThreadLock
  BY <1>24, Lengths DEF ThreadLock, status, flags, sync, memory, bounds
<1>25. CASE ThreadCopy
  BY SMTT(60), <1>25, Lengths DEF ThreadCopy, Post, status, flags, memory, bounds
<1>26. CASE ThreadDetect
  BY <1>26, Lengths DEF ThreadDetect, status, sync, memory, bounds
<1>27. CASE ThreadExit
  BY SMTT(60), <1>27, Lengths DEF ThreadExit, Post, status, flags, memory, bounds
<1>28. CASE SetMem
  BY <1>28, Lengths DEF SetMem, status, flags, sync, bounds
<1>29. CASE SetFlag
  BY <1>29, Lengths DEF SetFlag, status, sync, memory, bounds
<1>30. CASE FreeFdmem
  BY <1>30, Lengths DEF FreeFdmem, status, flags, sync, bounds
<1> QED
  BY <1>0, <1>1, <1>2, <1>3, <1>4, <1>5, <1>6, <1>7, <1>8, <1>9, <1>10, <1>11, <1>12, <1>13,
     <1>14, <1>15, <1>16, <1>17, <1>18, <1>19, <1>20, <1>21, <1>22, <1>23, <1>24, <1>25, <1>26,
     <1>27, <1>28, <1>29, <1>30 DEF Next, Main, Prev, FdThread, Client

\* A frame that is queued is still waited with.
LEMMA OutstandingStep ==
    ASSUME FdInv, [Next]_vars
    PROVE  Outstanding'
<1> USE DEF FdInv, Types, Phases, Outstanding, Starting, Closing
<1>0. CASE UNCHANGED vars
  BY <1>0 DEF vars, threads, status, flags, sync, memory, bounds
<1>1. CASE StartPreview
  BY <1>1 DEF StartPreview, status, flags, sync, memory
<1>2. CASE Restart
  BY <1>2 DEF Restart, flags, sync, memory
<1>3. CASE StopPreview
  BY <1>3 DEF StopPreview, flags, sync, memory, bounds
<1>4. CASE FdExit
  <2>1. CASE fd_inited = 1
    BY <1>4, <2>1, ExitPosted DEF FdExit, flags, bounds
  <2>2. CASE fd_inited # 1
    BY <1>4, <2>2, ExitPosted DEF FdExit, flags, bounds
  <2> QED
    BY <2>1, <2>2
<1>5. CASE StartFaceDetection
  BY <1>5 DEF StartFaceDetection, status, flags, sync
<1>6. CASE StopFaceDetection
  BY <1>6 DEF StopFaceDetection, status, sync, memory, bounds
<1>7. CASE Frame
  BY <1>7 DEF Frame, threads, status, flags, sync, memory
<1>8. CASE FdInit
  <2>1. CASE main' = "created"
    BY <1>8, <2>1, QueueEmpty DEF FdInit, FaceSolid_Init, status, memory, bounds, Ending
  <2>2. CASE main' = "set"
    BY <1>8, <2>2, QueueEmpty DEF FdInit, FaceSolid_Init, status, memory, bounds, Ending
  <2> QED
    BY <1>8, <2>1, <2>2 DEF FdInit
<1>9. CASE FdCreated
  BY <1>9, CreatedHeld DEF FdCreated, status, flags, memory, bounds
<1>10. CASE FdFinalize
  BY <1>10 DEF FdFinalize, status, flags, sync, memory, bounds
<1>11. CASE FdInitAgain
  BY <1>11 DEF FdInitAgain, FaceSolid_Init, status, flags, sync, memory, bounds
<1>12. CASE PreviewSet
  BY <1>12 DEF PreviewSet, flags, sync, memory, bounds
<1>13. CASE FdExited
  BY <1>13 DEF FdExited, status, flags, memory, bounds
<1>14. CASE FdDestroy
  BY <1>14, QueueEmpty DEF FdDestroy, status, bounds
<1>15. CASE PrevExit
  BY <1>15 DEF PrevExit, status, flags, sync, memory, bounds
<1>16. CASE PrevExited
  BY <1>16 DEF PrevExited, status, flags, sync, memory, bounds
<1>17. CASE PrevGet
  BY <1>17 DEF PrevGet, status, flags, sync, memory, bounds
<1>18. CASE SetFrameType
  BY <1>18 DEF SetFrameType, status, flags, sync, memory, bounds
<1>19. CASE FdStart
  <2>1. CASE fd_busy # 1 /\ queue_alive
    BY <1>19, <2>1, StartPosted DEF FdStart, status, flags, memory, bounds
  <2>2. CASE ~(fd_busy # 1 /\ queue_alive)
    BY <1>19, <2>2, StartPosted DEF FdStart, status, flags, memory, bounds
  <2> QED
    BY <2>1, <2>2
<1>20. CASE FdStarted
  <2>1. CASE main \in {"created", "exiting"}
    BY <1>20, <2>1, TakesNone DEF FdStarted, status, flags, memory, bounds
  <2>2. CASE main \notin {"created", "exiting"}
    BY <1>20, <2>2, TakesNone DEF FdStarted, status, flags, memory, bounds
  <2> QED
    BY <2>1, <2>2
<1>21. CASE ThreadStart
  BY <1>21 DEF ThreadStart, Post, status, flags, memory, bounds
<1>22. CASE ThreadGet
  <2>1. CASE ~queue_alive
    BY <1>22, <2>1, MessageTaken DEF ThreadGet, status, memory, bounds
  <2>2. CASE queue_alive /\ Head(fd_queue) = "START"
    BY <1>22, <2>2, MessageTaken DEF ThreadGet, status, memory, bounds
  <2>3. CASE queue_alive /\ Head(fd_queue) = "EXIT"
    BY <1>22, <2>3, MessageTaken DEF ThreadGet, status, memory, bounds
  <2> QED
    BY <1>22, <2>1, <2>2, <2>3, MessageTaken DEF ThreadGet
<1>23. CASE ThreadSkip
  BY <1>23 DEF ThreadSkip, Post, status, memory, bounds
<1>24. CASE ThreadLock
  BY <1>24 DEF ThreadLock, status, flags, sync, memory, bounds
<1>25. CASE ThreadCopy
  BY <1>25 DEF ThreadCopy, Post, status, flags, memory, bounds
<1>26. CASE ThreadDetect
  BY <1>26 DEF ThreadDetect, status, sync, memory, bounds
<1>27. CASE ThreadExit
  BY <1>27 DEF ThreadExit, Post, status, flags, memory, bounds
<1>28. CASE SetMem
  BY <1>28 DEF SetMem, status, flags, sync, bounds
<1>29. CASE SetFlag
  BY <1>29 DEF SetFlag, status, sync, memory, bounds
<1>30. CASE FreeFdmem
  BY <1>30 DEF FreeFdmem, status, flags, sync, bounds
<1> QED
  BY <1>0, <1>1, <1>2, <1>3, <1>4, <1>5, <1>6, <1>7, <1>8, <1>9, <1>10, <1>11, <1>12, <1>13,
     <1>14, <1>15, <1>16, <1>17, <1>18, <1>19, <1>20, <1>21, <1>22, <1>23, <1>24, <1>25, <1>26,
     <1>27, <1>28, <1>29, <1>30 DEF Next, Main, Prev, FdThread, Client

\* No frame comes to be copied at the end.
LEMMA EndingStep ==
    ASSUME FdInv, [Next]_vars
    PROVE  Ending'
<1> USE DEF FdInv, Types, Phases, Ending, Starting, Closing
<1>0. CASE UNCHANGED vars
  BY <1>0 DEF vars, threads, status, flags, sync, memory, bounds
<1>1. CASE StartPreview
  BY <1>1 DEF StartPreview, status, flags, sync, memory
<1>2. CASE Restart
  BY <1>2 DEF Restart, flags, sync, memory
<1>3. CASE StopPreview
  BY <1>3 DEF StopPreview, flags, sync, memory, bounds
<1>4. CASE FdExit
  <2>1. CASE fd_inited = 1
    <3>1. Holds(fd_queue', "EXIT") /\ main' = "exiting"
      BY <1>4, <2>1, ExitPosted DEF FdExit
    <3>2. queue_alive'
      BY SMTT(60), <1>4, <2>1 DEF FdExit
    <3> QED
      BY <3>1, <3>2
  <2>2. CASE fd_inited # 1
    BY <1>4, <2>2, ExitPosted DEF FdExit, flags, bounds, Critical
  <2> QED
    BY <2>1, <2>2
<1>5. CASE StartFaceDetection
  BY <1>5 DEF StartFaceDetection, status, flags, sync
<1>6. CASE StopFaceDetection
  BY <1>6 DEF StopFaceDetection, status, sync, memory, bounds
<1>7. CASE Frame
  BY <1>7 DEF Frame, threads, status, flags, sync, memory
<1>8. CASE FdInit
  <2>1. CASE main' = "created"
    BY <1>8, <2>1, QueueEmpty DEF FdInit, FaceSolid_Init, status, memory, bounds
  <2>2. CASE main' = "set"
    BY SMTT(60), <1>8, <2>2, QueueEmpty DEF FdInit, FaceSolid_Init, status, memory, bounds
  <2> QED
    BY <1>8, <2>1, <2>2 DEF FdInit
<1>9. CASE FdCreated
  BY <1>9 DEF FdCreated, status, flags, memory, bounds
<1>10. CASE FdFinalize
  BY <1>10 DEF FdFinalize, status, flags, sync, memory, bounds
<1>11. CASE FdInitAgain
  BY <1>11 DEF FdInitAgain, FaceSolid_Init, status, flags, sync, memory, bounds
<1>12. CASE PreviewSet
  BY <1>12 DEF PreviewSet, flags, sync, memory, bounds
<1>13. CASE FdExited
  BY <1>13, LeavesNone DEF FdExited, status, flags, memory, bounds
<1>14. CASE FdDestroy
  BY <1>14, QueueEmpty DEF FdDestroy, status, bounds, Critical
<1>15. CASE PrevExit
  BY <1>15 DEF PrevExit, status, flags, sync, memory, bounds
<1>16. CASE PrevExited
  BY <1>16 DEF PrevExited, status, flags, sync, memory, bounds
<1>17. CASE PrevGet
  BY <1>17 DEF PrevGet, status, flags, sync, memory, bounds
<1>18. CASE SetFrameType
  BY <1>18 DEF SetFrameType, status, flags, sync, memory, bounds
<1>19. CASE FdStart
  <2>1. CASE fd_busy # 1 /\ queue_alive
    BY <1>19, <2>1, StartPosted, PostsNone DEF FdStart, status, flags, memory, bounds
  <2>2. CASE ~(fd_busy # 1 /\ queue_alive)
    BY <1>19, <2>2, StartPosted, PostsNone DEF FdStart, status, flags, memory, bounds
  <2> QED
    BY <2>1, <2>2
<1>20. CASE FdStarted
  BY <1>20 DEF FdStarted, status, flags, memory, bounds
<1>21. CASE ThreadStart
  BY <1>21 DEF ThreadStart, Post, status, flags, memory, bounds
<1>22. CASE ThreadGet
  <2>1. CASE ~queue_alive
    BY <1>22, <2>1, MessageTaken DEF ThreadGet, status, memory, bounds
  <2>2. CASE queue_alive /\ Head(fd_queue) = "START"
    BY <1>22, <2>2, MessageTaken DEF ThreadGet, status, memory, bounds
  <2>3. CASE queue_alive /\ Head(fd_queue) = "EXIT"
    BY <1>22, <2>3, MessageTaken DEF ThreadGet, status, memory, bounds
  <2> QED
    BY <1>22, <2>1, <2>2, <2>3, MessageTaken DEF ThreadGet
<1>23. CASE ThreadSkip
  BY <1>23 DEF ThreadSkip, Post, status, memory, bounds
<1>24. CASE ThreadLock
  BY <1>24 DEF ThreadLock, status, flags, sync, memory, bounds
<1>25. CASE ThreadCopy
  BY <1>25 DEF ThreadCopy, Post, status, flags, memory, bounds
<1>26. CASE ThreadDetect
  BY <1>26 DEF ThreadDetect, status, sync, memory, bounds
<1>27. CASE ThreadExit
  BY <1>27 DEF ThreadExit, Post, status, flags, memory, bounds
<1>28. CASE SetMem
  BY <1>28 DEF SetMem, status, flags, sync, bounds
<1>29. CASE SetFlag
  BY <1>29 DEF SetFlag, status, sync, memory, bounds
<1>30. CASE FreeFdmem
  BY <1>30 DEF FreeFdmem, status, flags, sync, bounds
<1> QED
  BY <1>0, <1>1, <1>2, <1>3, <1>4, <1>5, <1>6, <1>7, <1>8, <1>9, <1>10, <1>11, <1>12, <1>13,
     <1>14, <1>15, <1>16, <1>17, <1>18, <1>19, <1>20, <1>21, <1>22, <1>23, <1>24, <1>25, <1>26,
     <1>27, <1>28, <1>29, <1>30 DEF Next, Main, Prev, FdThread, Client

\* A frame that is copied is still held.
LEMMA HeldStep ==
    ASSUME FdInv, [Next]_vars
    PROVE  FrameHeld'
<1> USE DEF FdInv, Types, Phases, Outstanding, FrameHeld, Starting, Closing
<1>0. CASE UNCHANGED vars
  BY <1>0 DEF vars, threads, status, flags, sync, memory, bounds
<1>1. CASE StartPreview
  BY <1>1 DEF StartPreview, status, flags, sync, memory
<1>2. CASE Restart
  BY <1>2 DEF Restart, flags, sync, memory
<1>3. CASE StopPreview
  BY <1>3 DEF StopPreview, flags, sync, memory, bounds
<1>4. CASE FdExit
  BY <1>4, ExitPosted DEF FdExit, flags, bounds
<1>5. CASE StartFaceDetection
  BY <1>5 DEF StartFaceDetection, status, flags, sync
<1>6. CASE StopFaceDetection
  BY <1>6 DEF StopFaceDetection, status, sync, memory, bounds
<1>7. CASE Frame
  BY <1>7 DEF Frame, threads, status, flags, sync, memory
<1>8. CASE FdInit
  BY <1>8, QueueEmpty DEF FdInit, FaceSolid_Init, status, memory, bounds
<1>9. CASE FdCreated
  BY <1>9 DEF FdCreated, status, flags, memory, bounds
<1>10. CASE FdFinalize
  BY <1>10 DEF FdFinalize, status, flags, sync, memory, bounds
<1>11. CASE FdInitAgain
  BY <1>11 DEF FdInitAgain, FaceSolid_Init, status, flags, sync, memory, bounds
<1>12. CASE PreviewSet
  BY <1>12 DEF PreviewSet, flags, sync, memory, bounds
<1>13. CASE FdExited
  BY <1>13 DEF FdExited, status, flags, memory, bounds
<1>14. CASE FdDestroy
  BY <1>14, QueueEmpty DEF FdDestroy, status, bounds
<1>15. CASE PrevExit
  BY <1>15 DEF PrevExit, status, flags, sync, memory, bounds
<1>16. CASE PrevExited
  BY <1>16 DEF PrevExited, status, flags, sync, memory, bounds
<1>17. CASE PrevGet
  BY <1>17 DEF PrevGet, status, flags, sync, memory, bounds
<1>18. CASE SetFrameType
  BY <1>18 DEF SetFrameType, status, flags, sync, memory, bounds
<1>19. CASE FdStart
  BY <1>19, StartPosted DEF FdStart, status, flags, memory, bounds
<1>20. CASE FdStarted
  BY <1>20, TakesNone DEF FdStarted, status, flags, memory, bounds
<1>21. CASE ThreadStart
  BY <1>21 DEF ThreadStart, Post, status, flags, memory, bounds
<1>22. CASE ThreadGet
  BY <1>22, MessageTaken DEF ThreadGet, status, memory, bounds
<1>23. CASE ThreadSkip
  BY <1>23 DEF ThreadSkip, Post, status, memory, bounds
<1>24. CASE ThreadLock
  BY <1>24 DEF ThreadLock, status, flags, sync, memory, bounds
<1>25. CASE ThreadCopy
  BY <1>25 DEF ThreadCopy, Post, status, flags, memory, bounds
<1>26. CASE ThreadDetect
  BY <1>26 DEF ThreadDetect, status, sync, memory, bounds
<1>27. CASE ThreadExit
  BY <1>27 DEF ThreadExit, Post, status, flags, memory, bounds
<1>28. CASE SetMem
  BY <1>28 DEF SetMem, status, flags, sync, bounds
<1>29. CASE SetFlag
  BY <1>29 DEF SetFlag, status, sync, memory, bounds
<1>30. CASE FreeFdmem
  BY <1>30 DEF FreeFdmem, status, flags, sync, bounds
<1> QED
  BY <1>0, <1>1, <1>2, <1>3, <1>4, <1>5, <1>6, <1>7, <1>8, <1>9, <1>10, <1>11, <1>12, <1>13,
     <1>14, <1>15, <1>16, <1>17, <1>18, <1>19, <1>20, <1>21, <1>22, <1>23, <1>24, <1>25, <1>26,
     <1>27, <1>28, <1>29, <1>30 DEF Next, Main, Prev, FdThread, Client

\* The critical section is still protected.
LEMMA CriticalStep ==
    ASSUME FdInv, [Next]_vars
    PROVE  Critical'
<1> USE DEF FdInv, Types, Phases, Critical, Starting, Closing
<1>0. CASE UNCHANGED vars
  BY <1>0 DEF vars, threads, status, flags, sync, memory, bounds
<1>1. CASE StartPreview
  BY <1>1 DEF StartPreview, status, flags, sync, memory
<1>2. CASE Restart
  BY <1>2 DEF Restart, flags, sync, memory
<1>3. CASE StopPreview
  BY <1>3 DEF StopPreview, flags, sync, memory, bounds
<1>4. CASE FdExit
  BY <1>4, ExitPosted DEF FdExit, flags, bounds
<1>5. CASE StartFaceDetection
  BY <1>5 DEF StartFaceDetection, status, flags, sync
<1>6. CASE StopFaceDetection
  BY <1>6 DEF StopFaceDetection, status, sync, memory, bounds
<1>7. CASE Frame
  BY <1>7 DEF Frame, threads, status, flags, sync, memory
<1>8. CASE FdInit
  BY SMTT(60), <1>8, QueueEmpty DEF FdInit, FaceSolid_Init, status, memory, bounds, Ending
<1>9. CASE FdCreated
  BY <1>9 DEF FdCreated, status, flags, memory, bounds
<1>10. CASE FdFinalize
  BY <1>10 DEF FdFinalize, status, flags, sync, memory, bounds
<1>11. CASE FdInitAgain
  BY <1>11 DEF FdInitAgain, FaceSolid_Init, status, flags, sync, memory, bounds
<1>12. CASE PreviewSet
  BY <1>12 DEF PreviewSet, flags, sync, memory, bounds
<1>13. CASE FdExited
  BY <1>13 DEF FdExited, status, flags, memory, bounds
<1>14. CASE FdDestroy
  BY <1>14, QueueEmpty DEF FdDestroy, status, bounds, Ending
<1>15. CASE PrevExit
  BY <1>15 DEF PrevExit, status, flags, sync, memory, bounds
<1>16. CASE PrevExited
  BY <1>16 DEF PrevExited, status, flags, sync, memory, bounds
<1>17. CASE PrevGet
  BY <1>17 DEF PrevGet, status, flags, sync, memory, bounds
<1>18. CASE SetFrameType
  BY <1>18 DEF SetFrameType, status, flags, sync, memory, bounds
<1>19. CASE FdStart
  BY <1>19, StartPosted DEF FdStart, status, flags, memory, bounds
<1>20. CASE FdStarted
  BY <1>20 DEF FdStarted, status, flags, memory, bounds
<1>21. CASE ThreadStart
  BY <1>21 DEF ThreadStart, Post, status, flags, memory, bounds
<1>22. CASE ThreadGet
  BY <1>22, MessageTaken DEF ThreadGet, status, memory, bounds
<1>23. CASE ThreadSkip
  BY <1>23 DEF ThreadSkip, Post, status, memory, bounds
<1>24. CASE ThreadLock
  BY <1>24 DEF ThreadLock, status, flags, sync, memory, bounds, Ending
<1>25. CASE ThreadCopy
  BY <1>25 DEF ThreadCopy, Post, status, flags, memory, bounds
<1>26. CASE ThreadDetect
  BY <1>26 DEF ThreadDetect, status, sync, memory, bounds
<1>27. CASE ThreadExit
  BY <1>27 DEF ThreadExit, Post, status, flags, memory, bounds
<1>28. CASE SetMem
  BY <1>28 DEF SetMem, status, flags, sync, bounds
<1>29. CASE SetFlag
  BY <1>29 DEF SetFlag, status, sync, memory, bounds
<1>30. CASE FreeFdmem
  BY <1>30 DEF FreeFdmem, status, flags, sync, bounds
<1> QED
  BY <1>0, <1>1, <1>2, <1>3, <1>4, <1>5, <1>6, <1>7, <1>8, <1>9, <1>10, <1>11, <1>12, <1>13,
     <1>14, <1>15, <1>16, <1>17, <1>18, <1>19, <1>20, <1>21, <1>22, <1>23, <1>24, <1>25, <1>26,
     <1>27, <1>28, <1>29, <1>30 DEF Next, Main, Prev, FdThread, Client

\* The invariant holds at the start.
LEMMA InitInv == Init => FdInv
<1> SUFFICES ASSUME Init PROVE FdInv
  OBVIOUS
<1>1. Types /\ QueueTyped
  BY QueueEmpty DEF Init, Types, QueueTyped
<1>2. Phases
  BY QueueEmpty DEF Init, Phases, Starting, Closing
<1>3. SemBalanced /\ Outstanding /\ Ending /\ FrameHeld /\ Critical
  BY QueueEmpty DEF Init, SemBalanced, Outstanding, Ending, FrameHeld, Critical
<1> QED
  BY <1>1, <1>2, <1>3 DEF FdInv

\* Face detection keeps its inductive invariant, whatever overlaps (all of
\* cmr_arith.c's face detection).
THEOREM Invariance == Spec => []FdInv
<1>1. FdInv /\ [Next]_vars => FdInv'
  BY TypesStep, QueueStep, PhasesStep, BalancedStep, OutstandingStep, EndingStep, HeldStep,
     CriticalStep DEF FdInv
<1> QED
  BY InitInv, <1>1, PTL DEF Spec

\* fd_sync_sem has a unit, posted or owed, for each thread that waits on it
\* (arithmetic_fd_init, _start and _deinit).
THEOREM AlwaysBalanced == Spec => []SemBalanced
<1>1. FdInv => SemBalanced
  BY DEF FdInv
<1> QED
  BY <1>1, Invariance, PTL

\* The client never has a frame that is being copied (arithmetic_fd_start).
THEOREM AlwaysHeld == Spec => []FrameHeld
<1>1. FdInv => FrameHeld
  BY DEF FdInv
<1> QED
  BY <1>1, Invariance, PTL

-----------------------------------------------------------------------------
(* The memory and the library *)

\* The OEM layer knows the memory the HAL has allocated, or none.
MemInv ==
    "again" \notin overlap =>
        addr \in {0, mFDAddr} /\ (app = "set" => addr = 0) /\ MemoryLive

\* The memory stays allocated in every step.
LEMMA MemStep ==
    ASSUME FdInv, MemInv, [Next]_vars
    PROVE  MemInv'
<1> USE DEF FdInv, Types, Phases, Critical, MemInv, MemoryLive, Starting, Closing
<1>0. CASE UNCHANGED vars
  BY <1>0 DEF vars, threads, status, flags, sync, memory, bounds
<1>1. CASE StartPreview
  BY <1>1 DEF StartPreview, status, flags, sync, memory
<1>2. CASE Restart
  BY <1>2 DEF Restart, flags, sync, memory
<1>3. CASE StopPreview
  BY <1>3 DEF StopPreview, flags, sync, memory, bounds
<1>4. CASE FdExit
  BY <1>4 DEF FdExit, flags, bounds
<1>5. CASE StartFaceDetection
  BY <1>5 DEF StartFaceDetection, status, flags, sync
<1>6. CASE StopFaceDetection
  BY <1>6 DEF StopFaceDetection, status, sync, memory, bounds
<1>7. CASE Frame
  BY <1>7 DEF Frame, threads, status, flags, sync, memory
<1>8. CASE FdInit
  BY <1>8 DEF FdInit, FaceSolid_Init, status, memory, bounds
<1>9. CASE FdCreated
  BY <1>9 DEF FdCreated, status, flags, memory, bounds
<1>10. CASE FdFinalize
  BY <1>10 DEF FdFinalize, status, flags, sync, memory, bounds
<1>11. CASE FdInitAgain
  BY <1>11 DEF FdInitAgain, FaceSolid_Init, status, flags, sync, memory, bounds
<1>12. CASE PreviewSet
  BY <1>12 DEF PreviewSet, flags, sync, memory, bounds
<1>13. CASE FdExited
  BY <1>13 DEF FdExited, status, flags, memory, bounds
<1>14. CASE FdDestroy
  BY <1>14 DEF FdDestroy, status, bounds
<1>15. CASE PrevExit
  BY <1>15 DEF PrevExit, status, flags, sync, memory, bounds
<1>16. CASE PrevExited
  BY <1>16 DEF PrevExited, status, flags, sync, memory, bounds
<1>17. CASE PrevGet
  BY <1>17 DEF PrevGet, status, flags, sync, memory, bounds
<1>18. CASE SetFrameType
  BY <1>18 DEF SetFrameType, status, flags, sync, memory, bounds
<1>19. CASE FdStart
  BY <1>19 DEF FdStart, status, flags, memory, bounds
<1>20. CASE FdStarted
  BY <1>20 DEF FdStarted, status, flags, memory, bounds
<1>21. CASE ThreadStart
  BY <1>21 DEF ThreadStart, Post, status, flags, memory, bounds
<1>22. CASE ThreadGet
  BY <1>22 DEF ThreadGet, status, memory, bounds
<1>23. CASE ThreadSkip
  BY <1>23 DEF ThreadSkip, Post, status, memory, bounds
<1>24. CASE ThreadLock
  BY <1>24 DEF ThreadLock, status, flags, sync, memory, bounds
<1>25. CASE ThreadCopy
  BY <1>25 DEF ThreadCopy, Post, status, flags, memory, bounds
<1>26. CASE ThreadDetect
  BY <1>26 DEF ThreadDetect, status, sync, memory, bounds
<1>27. CASE ThreadExit
  BY <1>27 DEF ThreadExit, Post, status, flags, memory, bounds
<1>28. CASE SetMem
  BY <1>28 DEF SetMem, status, flags, sync, bounds
<1>29. CASE SetFlag
  BY <1>29 DEF SetFlag, status, sync, memory, bounds
<1>30. CASE FreeFdmem
  BY <1>30 DEF FreeFdmem, status, flags, sync, bounds
<1> QED
  BY <1>0, <1>1, <1>2, <1>3, <1>4, <1>5, <1>6, <1>7, <1>8, <1>9, <1>10, <1>11, <1>12, <1>13,
     <1>14, <1>15, <1>16, <1>17, <1>18, <1>19, <1>20, <1>21, <1>22, <1>23, <1>24, <1>25, <1>26,
     <1>27, <1>28, <1>29, <1>30 DEF Next, Main, Prev, FdThread, Client

\* If memory is given only when there is none, the detection thread works only
\* on memory that is allocated (setFdmem, FreeFdmem, arithmetic_set_mem).
THEOREM AlwaysLive == Spec => []MemoryLive
<1>1. Init => MemInv
  BY DEF Init, MemInv, MemoryLive
<1>2. FdInv /\ MemInv /\ [Next]_vars => MemInv'
  BY MemStep
<1>3. MemInv => MemoryLive
  BY DEF MemInv, MemoryLive
<1> QED
  BY <1>1, <1>2, <1>3, Invariance, PTL DEF Spec

\* The library is initialised except while it is being initialised again.
LibraryInv ==
    "restart" \notin overlap /\ "init" \notin overlap =>
        /\ app # "restarting"
        /\ queue_alive /\ main \in {"idle", "created", "set"} => library = "ready"

\* The library stays initialised in every step.
LEMMA LibraryStep ==
    ASSUME FdInv, LibraryInv, [Next]_vars
    PROVE  LibraryInv'
<1> USE DEF FdInv, Types, Phases, LibraryInv, Starting, Closing
<1>0. CASE UNCHANGED vars
  BY <1>0 DEF vars, threads, status, flags, sync, memory, bounds
<1>1. CASE StartPreview
  BY <1>1 DEF StartPreview, status, flags, sync, memory
<1>2. CASE Restart
  BY <1>2 DEF Restart, flags, sync, memory
<1>3. CASE StopPreview
  BY <1>3 DEF StopPreview, flags, sync, memory, bounds
<1>4. CASE FdExit
  BY <1>4 DEF FdExit, flags, bounds
<1>5. CASE StartFaceDetection
  BY <1>5 DEF StartFaceDetection, status, flags, sync
<1>6. CASE StopFaceDetection
  BY <1>6 DEF StopFaceDetection, status, sync, memory, bounds
<1>7. CASE Frame
  BY <1>7 DEF Frame, threads, status, flags, sync, memory
<1>8. CASE FdInit
  BY <1>8 DEF FdInit, FaceSolid_Init, status, memory, bounds
<1>9. CASE FdCreated
  BY <1>9 DEF FdCreated, status, flags, memory, bounds
<1>10. CASE FdFinalize
  BY <1>10 DEF FdFinalize, status, flags, sync, memory, bounds
<1>11. CASE FdInitAgain
  BY <1>11 DEF FdInitAgain, FaceSolid_Init, status, flags, sync, memory, bounds
<1>12. CASE PreviewSet
  BY <1>12 DEF PreviewSet, flags, sync, memory, bounds
<1>13. CASE FdExited
  BY <1>13 DEF FdExited, status, flags, memory, bounds
<1>14. CASE FdDestroy
  BY <1>14 DEF FdDestroy, status, bounds
<1>15. CASE PrevExit
  BY <1>15 DEF PrevExit, status, flags, sync, memory, bounds
<1>16. CASE PrevExited
  BY <1>16 DEF PrevExited, status, flags, sync, memory, bounds
<1>17. CASE PrevGet
  BY <1>17 DEF PrevGet, status, flags, sync, memory, bounds
<1>18. CASE SetFrameType
  BY <1>18 DEF SetFrameType, status, flags, sync, memory, bounds
<1>19. CASE FdStart
  BY <1>19 DEF FdStart, status, flags, memory, bounds
<1>20. CASE FdStarted
  BY <1>20 DEF FdStarted, status, flags, memory, bounds
<1>21. CASE ThreadStart
  BY <1>21 DEF ThreadStart, Post, status, flags, memory, bounds
<1>22. CASE ThreadGet
  BY <1>22 DEF ThreadGet, status, memory, bounds
<1>23. CASE ThreadSkip
  BY <1>23 DEF ThreadSkip, Post, status, memory, bounds
<1>24. CASE ThreadLock
  BY <1>24 DEF ThreadLock, status, flags, sync, memory, bounds
<1>25. CASE ThreadCopy
  BY <1>25 DEF ThreadCopy, Post, status, flags, memory, bounds
<1>26. CASE ThreadDetect
  BY <1>26 DEF ThreadDetect, status, sync, memory, bounds
<1>27. CASE ThreadExit
  BY <1>27 DEF ThreadExit, Post, status, flags, memory, bounds
<1>28. CASE SetMem
  BY <1>28 DEF SetMem, status, flags, sync, bounds
<1>29. CASE SetFlag
  BY <1>29 DEF SetFlag, status, sync, memory, bounds
<1>30. CASE FreeFdmem
  BY <1>30 DEF FreeFdmem, status, flags, sync, bounds
<1> QED
  BY <1>0, <1>1, <1>2, <1>3, <1>4, <1>5, <1>6, <1>7, <1>8, <1>9, <1>10, <1>11, <1>12, <1>13,
     <1>14, <1>15, <1>16, <1>17, <1>18, <1>19, <1>20, <1>21, <1>22, <1>23, <1>24, <1>25, <1>26,
     <1>27, <1>28, <1>29, <1>30 DEF Next, Main, Prev, FdThread, Client

\* If the preview is not restarted inside the main thread and the library can be
\* initialised, FaceSolid_Function runs only on an initialised library, for
\* FreeFdmem waits for fd_lock between a stop and the next start
\* (arithmetic_fd_init, deinitPreview).
THEOREM AlwaysReady == Spec => []LibraryReady
<1>1. Init => LibraryInv
  BY DEF Init, LibraryInv
<1>2. FdInv /\ LibraryInv /\ [Next]_vars => LibraryInv'
  BY LibraryStep
<1>3. FdInv /\ LibraryInv => LibraryReady
  BY DEF FdInv, Types, Phases, Critical, LibraryInv, LibraryReady, Starting, Closing
<1> QED
  BY <1>1, <1>2, <1>3, Invariance, PTL DEF Spec
=============================================================================
