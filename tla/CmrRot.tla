------------------------------- MODULE CmrRot -------------------------------
(***************************************************************************)
(* The rotation engine of the camera HAL (libcamera/sc8830/src):           *)
(* cmr_rotate.c around the driver, and its clients in SprdOEMCamera.c.     *)
(* The preview and the capture thread start rotations and go on; the       *)
(* rotation thread reports the end of one by the registered callback,      *)
(* which posts an event to the main thread, and the main thread's handler  *)
(* finishes the frame.  The redisplay of a taken picture rotates           *)
(* synchronously, with the callback unregistered.  The main thread also    *)
(* stops the preview.  rot_sem guards the engine, cmr_rot_sem the context  *)
(* (rot_state, frame_info) of the asynchronous rotations.                  *)
(***************************************************************************)
EXTENDS Integers, Sequences

Async == {"prev", "cap"}
Users == Async \cup {"redisplay"}

VARIABLES rot_sem, rot_running, rot_evt_cb,
          owner,                    \* history: whose rotation the engine was last given
          dev,                      \* the driver: idle, busy or done
          th,                       \* the rotation thread
          cmr_rot_sem, rot_state, frame_info,
          queue,                    \* rotation events for the main thread
          pc, main,
          job                       \* history: the fate of each user's last rotation
vars == <<rot_sem, rot_running, rot_evt_cb, owner, dev, th, cmr_rot_sem,
          rot_state, frame_info, queue, pc, main, job>>
engine == <<rot_sem, rot_running, rot_evt_cb, owner, dev, th>>
context == <<cmr_rot_sem, rot_state, frame_info, queue, main>>

Init ==
    /\ rot_sem = 1 /\ rot_running = FALSE /\ rot_evt_cb = TRUE /\ owner = "none"
    /\ dev = "idle" /\ th = "wait"
    /\ cmr_rot_sem = 1 /\ rot_state = "IDLE" /\ frame_info = "none"
    /\ queue = <<>> /\ main = "idle"
    /\ pc = [u \in Users |-> "idle"] /\ job = [u \in Users |-> "none"]

Goto(u, l) == pc' = [pc EXCEPT ![u] = l]
Note(u, j) == job' = [job EXCEPT ![u] = j]

-----------------------------------------------------------------------------
(* cmr_rot, for any user *)

SemWait(u) ==
    /\ pc[u] = "rot" /\ rot_sem > 0 /\ rot_sem' = rot_sem - 1 /\ Goto(u, "cfg")
    /\ UNCHANGED <<rot_running, rot_evt_cb, owner, dev, th, context, job>>

\* The format or the configuration is refused.
CfgRefused(u) ==
    /\ pc[u] = "cfg" /\ rot_sem' = rot_sem + 1 /\ Goto(u, "failed")
    /\ UNCHANGED <<rot_running, rot_evt_cb, owner, dev, th, context, job>>

\* A start that fails keeps the semaphore.
RotStart(u) == \E ok \in BOOLEAN :
    /\ pc[u] = "cfg" /\ owner' = u /\ dev' = IF ok THEN "busy" ELSE dev
    /\ Goto(u, IF ok THEN "mark" ELSE "markFailed")
    /\ IF ok THEN Note(u, "running") ELSE UNCHANGED job
    /\ UNCHANGED <<rot_sem, rot_running, rot_evt_cb, th, context>>

\* rot_running is set after the start; the rotation may be over by then.
Mark(u) ==
    /\ pc[u] \in {"mark", "markFailed"} /\ rot_running' = TRUE
    /\ Goto(u, IF pc[u] = "mark" THEN "started" ELSE "failed")
    /\ UNCHANGED <<rot_sem, rot_evt_cb, owner, dev, th, context, job>>

CmrRot(u) == SemWait(u) \/ CfgRefused(u) \/ RotStart(u) \/ Mark(u)

-----------------------------------------------------------------------------
(* The driver and cmr_rot_thread_proc *)

Rotated ==
    /\ dev = "busy" /\ dev' = "done" /\ Note(owner, "rotated")
    /\ UNCHANGED <<rot_sem, rot_running, rot_evt_cb, owner, th, context, pc>>

IsDone ==
    /\ th = "wait" /\ dev = "done" /\ dev' = "idle" /\ th' = "callback"
    /\ UNCHANGED <<rot_sem, rot_running, rot_evt_cb, owner, context, pc, job>>

\* camera_rot_evt_cb posts an event to the main thread, whoever rotated.
Callback ==
    /\ th = "callback" /\ th' = "clear"
    /\ queue' = IF rot_evt_cb THEN Append(queue, owner) ELSE queue
    /\ UNCHANGED <<rot_sem, rot_running, rot_evt_cb, owner, dev, cmr_rot_sem,
                   rot_state, frame_info, main, pc, job>>

Clear ==
    /\ th = "clear" /\ rot_running' = FALSE /\ th' = "post"
    /\ UNCHANGED <<rot_sem, rot_evt_cb, owner, dev, context, pc, job>>

SemPost ==
    /\ th = "post" /\ rot_sem' = rot_sem + 1 /\ th' = "wait"
    /\ UNCHANGED <<rot_running, rot_evt_cb, owner, dev, context, pc, job>>

RotThread == IsDone \/ Callback \/ Clear \/ SemPost

-----------------------------------------------------------------------------
(* camera_start_rotate, in the preview and the capture thread *)

\* A preview frame is dropped while a rotation is under way; a capture frame,
\* of which there is one at a time, waits.
Frame(u) ==
    /\ pc[u] = "idle"
    /\ u = "cap" => job["cap"] \in {"none", "finished"}
    /\ u = "prev" => rot_state # "ROTATING"
    /\ Goto(u, "enter") /\ UNCHANGED <<engine, context, job>>

EnterAnyway(u) ==
    /\ pc[u] = "enter"
    /\ cmr_rot_sem' = IF cmr_rot_sem > 0 THEN cmr_rot_sem - 1 ELSE 0
    /\ rot_state' = "ROTATING" /\ frame_info' = u
    /\ Goto(u, "rot") /\ UNCHANGED <<engine, queue, main, job>>

Enter(u) ==
    /\ pc[u] = "enter" /\ cmr_rot_sem > 0
    /\ cmr_rot_sem' = cmr_rot_sem - 1 /\ rot_state' = "ROTATING" /\ frame_info' = u
    /\ Goto(u, "rot") /\ UNCHANGED <<engine, queue, main, job>>

Leave(u) ==
    \/ /\ pc[u] = "started" /\ Goto(u, "idle") /\ UNCHANGED <<engine, context, job>>
    \/ /\ pc[u] = "failed" /\ rot_state' = "DONE" /\ cmr_rot_sem' = cmr_rot_sem + 1
       /\ Goto(u, "idle") /\ UNCHANGED <<engine, frame_info, queue, main, job>>

-----------------------------------------------------------------------------
(* The synchronous rotation of camera_get_data_redisplay *)

Redisplay ==
    /\ pc["redisplay"] = "idle" /\ rot_evt_cb' = FALSE /\ Goto("redisplay", "rot")
    /\ UNCHANGED <<rot_sem, rot_running, owner, dev, th, context, job>>

NeverWait ==
    /\ pc["redisplay"] \in {"started", "failed"} /\ Goto("redisplay", "done")
    /\ UNCHANGED <<engine, context, job>>

\* cmr_rot_wait_done: rot_running is read, then the engine's semaphore passed.
NeedWait ==
    /\ pc["redisplay"] \in {"started", "failed"}
    /\ Goto("redisplay", IF rot_running THEN "wait" ELSE "done")
    /\ UNCHANGED <<engine, context, job>>

WaitDone ==
    /\ pc["redisplay"] = "wait" /\ rot_sem > 0 /\ Goto("redisplay", "done")
    /\ UNCHANGED <<engine, context, job>>

Redisplayed ==
    /\ pc["redisplay"] = "done" /\ rot_evt_cb' = TRUE
    /\ Goto("redisplay", "idle") /\ Note("redisplay", "none")
    /\ UNCHANGED <<rot_sem, rot_running, owner, dev, th, context>>

-----------------------------------------------------------------------------
(* The main thread *)

\* camera_rotation_handle: in the wrong state the frame is given up, but the
\* context is released; it is kept if the encoder of a capture frame fails.
Handle == \E ok \in BOOLEAN :
    /\ main = "idle" /\ queue # <<>> /\ queue' = Tail(queue)
    /\ IF rot_state = "ROTATING" /\ frame_info = "cap" /\ ~ok
         THEN Note("cap", "failed") /\ UNCHANGED <<rot_state, cmr_rot_sem>>
         ELSE /\ IF rot_state = "ROTATING" THEN Note(frame_info, "finished") ELSE UNCHANGED job
              /\ rot_state' = "DONE" /\ cmr_rot_sem' = cmr_rot_sem + 1
    /\ UNCHANGED <<engine, frame_info, main, pc>>

\* camera_stop_preview_internal: cmr_rot_wait_done, then rot_state is reset.
StopPreview ==
    /\ main = "idle" /\ main' = IF rot_running THEN "stopWait" ELSE "stopEnd"
    /\ UNCHANGED <<engine, cmr_rot_sem, rot_state, frame_info, queue, pc, job>>

StopWait ==
    /\ main = "stopWait" /\ rot_sem > 0 /\ main' = "stopEnd"
    /\ UNCHANGED <<engine, cmr_rot_sem, rot_state, frame_info, queue, pc, job>>

StopEnd ==
    /\ main = "stopEnd" /\ main' = "idle" /\ rot_state' = "DONE"
    /\ UNCHANGED <<engine, cmr_rot_sem, frame_info, queue, pc, job>>

Next ==
    \/ \E u \in Users : CmrRot(u)
    \/ \E u \in Async : Frame(u) \/ Enter(u) \/ Leave(u)
    \/ Rotated \/ RotThread
    \/ Redisplay \/ NeedWait \/ WaitDone \/ Redisplayed
    \/ Handle \/ StopPreview \/ StopWait \/ StopEnd

Spec == Init /\ [][Next]_vars

-----------------------------------------------------------------------------
(* Properties *)

\* cmr_rot_wait_done does not return before the caller's rotation is over, though
\* it reads rot_running and the semaphore in separate steps and rot_running is
\* set only after the rotation has been started.
RotatedWhenDone == pc["redisplay"] = "done" => job["redisplay"] # "running"

\* One rotation at a time in the driver, and the frame that the handler will
\* finish is the one whose rotation the event reports.
EventForFrame ==
    /\ dev # "idle" \/ th # "wait" => rot_sem = 0
    /\ queue # <<>> /\ rot_state = "ROTATING" => frame_info = Head(queue)
=============================================================================
