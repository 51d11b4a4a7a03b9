------------------------------- MODULE CmrFd --------------------------------
(***************************************************************************)
(* Face detection of the camera HAL (cmr_arith.c).  The preview thread     *)
(* hands a frame to the detection thread and waits on fd_sync_sem until it *)
(* is copied; the main thread creates and ends the detection thread and    *)
(* waits for that on the same semaphore.  The client's thread starts and   *)
(* stops the preview, each time waiting for the main thread, and gives and *)
(* takes the memory into which frames are copied.  The preview is not      *)
(* rotated (prev_rot = IMG_ROT_0).                                         *)
(***************************************************************************)
EXTENDS Naturals, Sequences

CONSTANTS
    MaxFrames,   \* preview frames, fewer than CAMERA_PREV_MSG_QUEUE_SIZE
    MaxStarts,   \* starts and restarts of the preview
    MaxAllocs,   \* memories given
    Overlaps     \* the values of overlap

ASSUME FdAssumption ==
    /\ {MaxFrames, MaxStarts, MaxAllocs} \subseteq Nat /\ MaxFrames < 20
    /\ Overlaps \subseteq SUBSET {"close", "restart", "init", "again"}

VARIABLES
    main, prev, fd, app,  \* where the four threads are
    preview_status,       \* of the OEM layer: "preview" or "idle"
    mPreviewing,          \* isPreviewing() of the HAL
    prev_queue,           \* messages to the preview thread
    fd_inited, fd_busy, fd_flag,
    fd_lock,              \* "free", or "fd" while the detection thread holds it
    fd_sync_sem,
    fd_queue,             \* messages to the detection thread
    queue_alive,          \* fd_msg_que_handle # 0
    addr,                 \* the memory of s_arith_cxt, 0 if none
    mFDAddr,              \* the memory the HAL has allocated and not freed
    library,              \* FaceSolid: "none" or "ready"
    frames, starts, allocs,
    overlap               \* never changes: what the code does not exclude but some
                          \* property needs excluded,
                          \* "close": the camera is closed while a frame is handed over,
                          \* "restart": a setting restarts the preview in the main thread,
                          \* "init": FaceSolid_Init or the creation of the queue fails,
                          \* "again": memory is given while there is some

threads == <<main, prev, fd, app>>
status == <<preview_status, mPreviewing>>
flags == <<fd_inited, fd_busy, fd_flag>>
sync == <<fd_sync_sem, fd_queue, queue_alive>>
memory == <<addr, mFDAddr>>
bounds == <<frames, starts, allocs, overlap>>
vars == <<threads, status, prev_queue, flags, fd_lock, sync, memory, library, bounds>>

Init ==
    /\ main = "idle" /\ prev = "get" /\ fd = "none" /\ app = "idle"
    /\ preview_status = "idle" /\ mPreviewing = FALSE /\ prev_queue = <<>>
    /\ fd_inited = 0 /\ fd_busy = 0 /\ fd_flag = 0
    /\ fd_lock = "free" /\ fd_sync_sem = 0 /\ fd_queue = <<>> /\ queue_alive = FALSE
    /\ addr = 0 /\ mFDAddr = 0 /\ library = "none"
    /\ frames = 0 /\ starts = 0 /\ allocs = 0 /\ overlap \in Overlaps

-----------------------------------------------------------------------------
(* Starting the preview *)

StartPreview ==
    /\ app = "idle" /\ ~mPreviewing /\ starts < MaxStarts
    /\ app' = "starting" /\ main' = "start" /\ starts' = starts + 1
    /\ UNCHANGED <<prev, fd, status, prev_queue, flags, fd_lock, sync, memory, library, frames,
                   allocs, overlap>>

\* camera_before_set_internal and camera_after_set_internal
Restart ==
    /\ "restart" \in overlap
    /\ app = "idle" /\ mPreviewing /\ starts < MaxStarts
    /\ app' = "restarting" /\ main' = "start" /\ starts' = starts + 1
    /\ preview_status' = "idle"
    /\ UNCHANGED <<prev, fd, mPreviewing, prev_queue, flags, fd_lock, sync, memory, library,
                   frames, allocs, overlap>>

FaceSolid_Init == library' \in {"ready"} \cup (IF "init" \in overlap THEN {"none"} ELSE {})

\* arithmetic_fd_init: the first start creates the thread, unless the library
\* or the queue fails ...
FdInit ==
    /\ main = "start" /\ fd_inited = 0 /\ FaceSolid_Init
    /\ \/ /\ library' = "ready"
          /\ fd_queue' = <<>> /\ queue_alive' = TRUE /\ fd_sync_sem' = 0 /\ fd_lock' = "free"
          /\ fd' = "start" /\ fd_inited' = 1 /\ main' = "created"
       \/ /\ "init" \in overlap /\ main' = "set"
          /\ UNCHANGED <<fd, fd_inited, fd_lock, fd_sync_sem, fd_queue, queue_alive>>
    /\ UNCHANGED <<prev, app, status, prev_queue, fd_busy, fd_flag, memory, bounds>>

FdCreated ==
    /\ main = "created" /\ fd_sync_sem > 0
    /\ fd_sync_sem' = fd_sync_sem - 1 /\ main' = "set"
    /\ UNCHANGED <<prev, fd, app, status, prev_queue, flags, fd_lock, fd_queue, queue_alive,
                   memory, library, bounds>>

\* ... and a later one only finalises the library and initialises it again.
FdFinalize ==
    /\ main = "start" /\ fd_inited = 1
    /\ library' = "none" /\ main' = "finalized"
    /\ UNCHANGED <<prev, fd, app, status, prev_queue, flags, fd_lock, sync, memory, bounds>>

FdInitAgain ==
    /\ main = "finalized" /\ FaceSolid_Init /\ main' = "set"
    /\ UNCHANGED <<prev, fd, app, status, prev_queue, flags, fd_lock, sync, memory, bounds>>

\* The rest of camera_start_preview_internal; a start that fails ends in
\* deinitPreview, a restart that fails leaves the HAL as it was.
PreviewSet ==
    /\ main = "set" /\ main' = "idle"
    /\ \/ preview_status' = "preview" /\ mPreviewing' = TRUE /\ app' = "idle"
       \/ /\ app' = IF app = "starting" THEN "free" ELSE "idle"
          /\ UNCHANGED <<preview_status, mPreviewing>>
    /\ UNCHANGED <<prev, fd, prev_queue, flags, fd_lock, sync, memory, library, bounds>>

-----------------------------------------------------------------------------
(* Stopping the preview, and closing the camera *)

StopPreviewKeepsMemory ==
    /\ app = "idle" /\ mPreviewing /\ mPreviewing' = FALSE /\ preview_status' = "idle"
    /\ UNCHANGED <<threads, prev_queue, flags, fd_lock, sync, memory, library, bounds>>

\* stopPreviewInternal with the main thread's camera_stop_preview_internal,
\* which waits for neither of the other two threads; deinitPreview follows.
StopPreview ==
    /\ app = "idle" /\ mPreviewing /\ mPreviewing' = FALSE /\ preview_status' = "idle"
    /\ app' = "free"
    /\ UNCHANGED <<main, prev, fd, prev_queue, flags, fd_lock, sync, memory, library, bounds>>

HandingOver == prev \in {"type", "post", "wait"}

\* CMR_EVT_EXIT comes to arithmetic_fd_deinit, which clears the context in
\* any case.
FdExit ==
    /\ app = "idle" /\ ~mPreviewing /\ app' = "closed" /\ preview_status' = "idle"
    /\ "close" \in overlap \/ ~HandingOver
    /\ IF fd_inited = 1
         THEN main' = "exiting" /\ fd_queue' = Append(fd_queue, "EXIT") /\ UNCHANGED addr
         ELSE main' = "deinited" /\ addr' = 0 /\ UNCHANGED fd_queue
    /\ UNCHANGED <<prev, fd, mPreviewing, prev_queue, flags, fd_lock, fd_sync_sem, queue_alive,
                   mFDAddr, library, bounds>>

FdExited ==
    /\ main = "exiting" /\ fd_sync_sem > 0
    /\ fd_sync_sem' = fd_sync_sem - 1 /\ main' = "destroy"
    /\ UNCHANGED <<prev, fd, app, status, prev_queue, flags, fd_lock, fd_queue, queue_alive,
                   memory, library, bounds>>

FdDestroy ==
    /\ main = "destroy" /\ main' = "deinited"
    /\ fd_sync_sem' = 0 /\ fd_lock' = "free" /\ fd_queue' = <<>> /\ queue_alive' = FALSE
    /\ library' = "none" /\ fd_inited' = 0 /\ fd_busy' = 0 /\ addr' = 0
    /\ UNCHANGED <<prev, fd, app, status, prev_queue, fd_flag, mFDAddr, bounds>>

\* camera_prev_thread_deinit
PrevExit ==
    /\ main = "deinited" /\ main' = "prev_exiting" /\ prev_queue' = Append(prev_queue, "EXIT")
    /\ UNCHANGED <<prev, fd, app, status, flags, fd_lock, sync, memory, library, bounds>>

PrevExited ==
    /\ main = "prev_exiting" /\ prev = "done" /\ main' = "closed"
    /\ UNCHANGED <<prev, fd, app, status, prev_queue, flags, fd_lock, sync, memory, library,
                   bounds>>

Main ==
    \/ FdInit \/ FdCreated \/ FdFinalize \/ FdInitAgain \/ PreviewSet
    \/ FdExited \/ FdDestroy \/ PrevExit \/ PrevExited

-----------------------------------------------------------------------------
(* The preview thread: camera_v4l2_preview_handle, camera_set_frame_type   *)
(* and arithmetic_fd_start                                                 *)

Frame ==
    /\ preview_status = "preview" /\ frames < MaxFrames
    /\ frames' = frames + 1 /\ prev_queue' = Append(prev_queue, "FRAME")
    /\ UNCHANGED <<threads, status, flags, fd_lock, sync, memory, library, starts, allocs,
                   overlap>>

PrevGet ==
    /\ prev = "get" /\ prev_queue # <<>> /\ prev_queue' = Tail(prev_queue)
    /\ prev' = IF Head(prev_queue) = "EXIT" THEN "done"
               ELSE IF preview_status = "preview" THEN "type" ELSE "get"
    /\ UNCHANGED <<main, fd, app, status, flags, fd_lock, sync, memory, library, bounds>>

\* Frames are skipped between two that are looked at.
SetFrameType ==
    /\ prev = "type"
    /\ \/ prev' = "get"
       \/ fd_flag = 1 /\ fd_inited = 1 /\ prev' = "post"
    /\ UNCHANGED <<main, fd, app, status, prev_queue, flags, fd_lock, sync, memory, library,
                   bounds>>

\* A busy thread gets no frame, and a queue that is gone takes none.
FdStart ==
    /\ prev = "post"
    /\ IF fd_busy # 1 /\ queue_alive
         THEN prev' = "wait" /\ fd_queue' = Append(fd_queue, "START")
         ELSE prev' = "get" /\ UNCHANGED fd_queue
    /\ UNCHANGED <<main, fd, app, status, prev_queue, flags, fd_lock, fd_sync_sem, queue_alive,
                   memory, library, bounds>>

\* Then the frame goes to the client.
FdStarted ==
    /\ prev = "wait" /\ fd_sync_sem > 0
    /\ fd_sync_sem' = fd_sync_sem - 1 /\ prev' = "get"
    /\ UNCHANGED <<main, fd, app, status, prev_queue, flags, fd_lock, fd_queue, queue_alive,
                   memory, library, bounds>>

Prev == PrevGet \/ SetFrameType \/ FdStart \/ FdStarted

-----------------------------------------------------------------------------
(* arithmetic_fd_thread_proc *)

Post == fd_sync_sem' = fd_sync_sem + 1

ThreadStart ==
    /\ fd = "start" /\ Post /\ fd' = "get"
    /\ UNCHANGED <<main, prev, app, status, prev_queue, flags, fd_lock, fd_queue, queue_alive,
                   memory, library, bounds>>

ThreadGet ==
    /\ fd = "get"
    /\ IF ~queue_alive
         THEN fd' = "done" /\ UNCHANGED <<fd_queue, fd_busy>>
         ELSE /\ fd_queue # <<>> /\ fd_queue' = Tail(fd_queue)
              /\ IF Head(fd_queue) = "START"
                   THEN fd' = "lock" /\ fd_busy' = 1
                   ELSE fd' = "exit" /\ UNCHANGED fd_busy
    /\ UNCHANGED <<main, prev, app, status, prev_queue, fd_inited, fd_flag, fd_lock, fd_sync_sem,
                   queue_alive, memory, library, bounds>>

ThreadSkipNoPost ==
    /\ fd = "lock" /\ fd_lock = "free" /\ (preview_status = "idle" \/ addr = 0)
    /\ fd_busy' = 0 /\ fd' = "get"
    /\ UNCHANGED <<main, prev, app, status, prev_queue, fd_inited, fd_flag, fd_lock, sync,
                   memory, library, bounds>>

\* Without preview or memory the frame is let go at once.
ThreadSkip ==
    /\ fd = "lock" /\ fd_lock = "free" /\ (preview_status = "idle" \/ addr = 0)
    /\ fd_busy' = 0 /\ Post /\ fd' = "get"
    /\ UNCHANGED <<main, prev, app, status, prev_queue, fd_inited, fd_flag, fd_lock, fd_queue,
                   queue_alive, memory, library, bounds>>

ThreadLockPost ==
    /\ fd = "lock" /\ fd_lock = "free" /\ preview_status # "idle" /\ addr # 0
    /\ fd_lock' = "fd" /\ Post /\ fd' = "copy"
    /\ UNCHANGED <<main, prev, app, status, prev_queue, flags, fd_queue, queue_alive, memory,
                   library, bounds>>

ThreadLock ==
    /\ fd = "lock" /\ fd_lock = "free" /\ preview_status # "idle" /\ addr # 0
    /\ fd_lock' = "fd" /\ fd' = "copy"
    /\ UNCHANGED <<main, prev, app, status, prev_queue, flags, sync, memory, library, bounds>>

ThreadCopy ==
    /\ fd = "copy" /\ Post /\ fd' = "detect"
    /\ UNCHANGED <<main, prev, app, status, prev_queue, flags, fd_lock, fd_queue, queue_alive,
                   memory, library, bounds>>

\* FaceSolid_Function, the callback, and the end of the critical section.
ThreadDetect ==
    /\ fd = "detect" /\ fd_busy' = 0 /\ fd_lock' = "free" /\ fd' = "get"
    /\ UNCHANGED <<main, prev, app, status, prev_queue, fd_inited, fd_flag, sync, memory,
                   library, bounds>>

ThreadExit ==
    /\ fd = "exit" /\ Post /\ fd' = "done"
    /\ UNCHANGED <<main, prev, app, status, prev_queue, flags, fd_lock, fd_queue, queue_alive,
                   memory, library, bounds>>

FdThread ==
    ThreadStart \/ ThreadGet \/ ThreadSkip \/ ThreadLock \/ ThreadCopy \/ ThreadDetect \/ ThreadExit

-----------------------------------------------------------------------------
(* The memory: sendCommand with setFdmem and FreeFdmem *)

\* setFdmem frees the old memory and allocates the new, or fails to ...
StartFaceDetection ==
    /\ app = "idle" /\ allocs < MaxAllocs /\ allocs' = allocs + 1
    /\ mFDAddr = 0 \/ "again" \in overlap
    /\ mFDAddr' \in {0, allocs + 1} /\ app' = "set"
    /\ UNCHANGED <<main, prev, fd, status, prev_queue, flags, fd_lock, sync, addr, library,
                   frames, starts, overlap>>

\* ... before arithmetic_set_mem takes the lock; the flag is set last.
SetMem ==
    /\ app = "set" /\ fd_lock = "free" /\ addr' = mFDAddr /\ app' = "flag"
    /\ UNCHANGED <<main, prev, fd, status, prev_queue, flags, fd_lock, sync, mFDAddr, library,
                   bounds>>

SetFlag ==
    /\ app = "flag" /\ fd_flag' = 1 /\ app' = "idle"
    /\ UNCHANGED <<main, prev, fd, status, prev_queue, fd_inited, fd_busy, fd_lock, sync, memory,
                   library, bounds>>

StopFaceDetection ==
    /\ app = "idle" /\ fd_flag' = 0 /\ app' = "free"
    /\ UNCHANGED <<main, prev, fd, status, prev_queue, fd_inited, fd_busy, fd_lock, sync, memory,
                   library, bounds>>

FreeFdmemUnlocked ==
    /\ app = "free" /\ app' = "idle" /\ mFDAddr' = 0
    /\ IF mFDAddr # 0 THEN addr' = 0 ELSE UNCHANGED addr
    /\ UNCHANGED <<main, prev, fd, status, prev_queue, flags, fd_lock, sync, library, bounds>>

\* FreeFdmem takes the memory away under the lock, then frees it.
FreeFdmem ==
    /\ app = "free" /\ app' = "idle" /\ mFDAddr' = 0
    /\ IF mFDAddr # 0 THEN fd_lock = "free" /\ addr' = 0 ELSE UNCHANGED addr
    /\ UNCHANGED <<main, prev, fd, status, prev_queue, flags, fd_lock, sync, library, bounds>>

Client == SetMem \/ SetFlag \/ FreeFdmem

-----------------------------------------------------------------------------
Next ==
    \/ StartPreview \/ Restart \/ StopPreview \/ FdExit
    \/ StartFaceDetection \/ StopFaceDetection \/ Frame
    \/ Main \/ Prev \/ FdThread \/ Client

Spec == Init /\ [][Next]_vars

-----------------------------------------------------------------------------
\* The threads, queues and flags of cmr_arith.c keep their ranges.
TypeOK ==
    /\ main \in {"idle", "start", "created", "finalized", "set", "exiting", "destroy", "deinited",
                 "prev_exiting", "closed"}
    /\ prev \in {"get", "type", "post", "wait", "done"}
    /\ fd \in {"none", "start", "get", "lock", "copy", "detect", "exit", "done"}
    /\ app \in {"idle", "starting", "restarting", "set", "flag", "free", "closed"}
    /\ preview_status \in {"preview", "idle"} /\ library \in {"none", "ready"}
    /\ prev_queue \in Seq({"FRAME", "EXIT"}) /\ fd_queue \in Seq({"START", "EXIT"})
    /\ {fd_inited, fd_busy, fd_flag} \subseteq {0, 1} /\ fd_sync_sem \in 0..2
    /\ fd_lock \in {"free", "fd"} /\ {queue_alive, mPreviewing} \subseteq BOOLEAN
    /\ {addr, mFDAddr} \subseteq 0..MaxAllocs

Count(c) == IF c THEN 1 ELSE 0

\* Until it is destroyed, fd_sync_sem has exactly one unit, posted or still
\* owed by the detection thread, for each thread that waits on it, although
\* two threads wait for three different things (arithmetic_fd_init, _start and
\* _deinit).
SemBalanced ==
    queue_alive =>
        fd_sync_sem + Len(fd_queue) + Count(fd \in {"start", "lock", "copy", "exit"})
            = Count(main \in {"created", "exiting"}) + Count(prev = "wait")

\* While the detection thread copies a frame, the preview thread has not given
\* it to the client, even when another thread takes its unit of the semaphore
\* (arithmetic_fd_start).
FrameHeld == fd = "copy" => prev = "wait"

\* The memory that the detection thread copies into and detects on is
\* allocated as long as it uses it, if memory is given only when there is none
\* (FreeFdmem, arithmetic_set_mem).
MemoryLive ==
    "again" \notin overlap /\ fd \in {"copy", "detect"} => addr # 0 /\ addr = mFDAddr

\* FaceSolid_Function runs only on an initialised library, if the main thread
\* does not restart the preview and FaceSolid_Init succeeds: the preview is
\* started again, which finalises the library, only after FreeFdmem has waited
\* for fd_lock (arithmetic_fd_init, deinitPreview).
LibraryReady ==
    "restart" \notin overlap /\ "init" \notin overlap /\ fd = "detect" => library = "ready"
=============================================================================
