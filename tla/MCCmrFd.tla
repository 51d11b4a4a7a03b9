------------------------------- MODULE MCCmrFd ------------------------------
(***************************************************************************)
(* Two parts of the camera HAL that share no state, in one model: a        *)
(* behaviour is one of face detection (CmrFd) or one of the rotation       *)
(* engine (CmrRot), and the other part stays in its initial state.         *)
(***************************************************************************)
EXTENDS CmrFd

VARIABLES part, rot_sem, rot_running, rot_evt_cb, owner, dev, th, cmr_rot_sem, rot_state,
          frame_info, queue, pc, rot_main, job

rotVars == <<rot_sem, rot_running, rot_evt_cb, owner, dev, th, cmr_rot_sem, rot_state,
             frame_info, queue, pc, rot_main, job>>
mcVars == <<part, vars, rotVars>>

Rot == INSTANCE CmrRot WITH main <- rot_main

FdStep(A) == part = "fd" /\ A /\ UNCHANGED <<part, rotVars>>
RotStep(A) == part = "rot" /\ A /\ UNCHANGED <<part, vars>>

MCInit == part \in {"fd", "rot"} /\ Init /\ Rot!Init /\ (part = "rot" => overlap = {})
MCNext == FdStep(Next) \/ RotStep(Rot!Next)

MCSpec == MCInit /\ [][MCNext]_mcVars

MCOverlaps == {{}, {"close", "restart", "init", "again"}, {"close", "again"},
               {"close", "restart", "init"}, {"restart", "init", "again"}}

\* cmr_rot_wait_done returns only when the caller's rotation is over.
RotatedWhenDone == Rot!RotatedWhenDone

\* A rotation event finishes the frame that was rotated
\* (camera_rotation_handle).
EventForFrame == Rot!EventForFrame
=============================================================================
