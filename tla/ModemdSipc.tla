----------------------------- MODULE ModemdSipc -----------------------------
(***************************************************************************)
(* modemd's supervision of one SIPC modem (apps/modemd/modemd_sipc.c).     *)
(* detect_sipc_modem, "d", selects on the modem's assert device and on its *)
(* watchdog; detect_modem_blocked, "b", reads from the phone server, which *)
(* notices a modem that does not answer.  Each tells the clients and, if   *)
(* the reset property is set, reloads the modem itself.  Images and        *)
(* wording are abstracted; a step between two lock operations, device      *)
(* writes or broadcasts is one action.  init does not restart modemd (it   *)
(* is oneshot), so exit is final.                                          *)
(***************************************************************************)
EXTENDS Naturals, Sequences

CONSTANTS Environments, \* the values of env
          MaxFailures, MaxResets

VARIABLES modem,        \* "run", "failed" or "stopped"
          how,          \* how it failed last
          assert_dev,   \* messages in the assert device
          wdtirq,       \* the watchdog device is readable
          rfds,         \* detect_sipc_modem's descriptor set
          modem_state,  \* td_modem_state or w_modem_state
          phs,          \* the phone server runs
          sock,         \* and detect_modem_blocked is connected to it
          blocked,      \* "Modem Blocked" can be read from that socket
          pc, is_assert,\* of the two detectors
          told,         \* what the clients were told last
          failures, resets,
          env           \* never changes: what may happen,
                        \* failures: how the modem fails, "assert", "hang" or "silent",
                        \* faults: "late", it also fails during a reload; "both", the phone
                        \* server reports what a device reports too; "open", no stty
                        \* device; "announce", a failed modem says that it was reset,
                        \* resets: the values the reset property may be read with
world == <<how, assert_dev, wdtirq, failures, resets, env>>
phone == <<phs, sock, blocked>>
vars == <<modem, world, rfds, modem_state, phone, pc, is_assert, told>>

Detectors == {"d", "b"}

Init ==
    /\ modem = "run" /\ how = "none" /\ assert_dev = <<>> /\ wdtirq = FALSE
    /\ rfds = {"assert", "wdtirq"} /\ modem_state = "READY"
    /\ phs = TRUE /\ sock = FALSE /\ blocked = FALSE
    /\ pc = [d |-> "select", b |-> "connect"]
    /\ is_assert = [t \in Detectors |-> FALSE] /\ told = "alive"
    /\ failures = 0 /\ resets = 0 /\ env \in Environments

Goto(t, l) == pc' = [pc EXCEPT ![t] = l]

-----------------------------------------------------------------------------
(* The modem and the phone server *)

Idle == pc = [d |-> "select", b |-> "read"] /\ phs /\ sock /\ modem_state = "READY"

Fail ==
    /\ modem = "run" /\ failures < MaxFailures /\ failures' = failures + 1
    /\ "late" \in env.faults \/ Idle
    /\ modem' = "failed" /\ how' \in env.failures
    /\ assert_dev' = IF how' = "assert" THEN Append(assert_dev, "Assert") ELSE assert_dev
    /\ wdtirq' = (wdtirq \/ how' = "hang")
    /\ UNCHANGED <<resets, env, rfds, modem_state, phone, pc, is_assert, told>>

\* A failed modem may announce that it has been reset.
Announce ==
    /\ modem = "failed" /\ "announce" \in env.faults /\ resets < MaxResets /\ resets' = resets + 1
    /\ assert_dev' = Append(assert_dev, "Reset")
    /\ UNCHANGED <<modem, how, wdtirq, failures, env, rfds, modem_state, phone, pc, is_assert,
                   told>>

Report ==
    /\ modem = "failed" /\ phs /\ sock /\ ~blocked
    /\ how = "silent" \/ "both" \in env.faults
    /\ blocked' = TRUE
    /\ UNCHANGED <<modem, world, rfds, modem_state, phs, sock, pc, is_assert, told>>

-----------------------------------------------------------------------------
(* load_sipc_modem_img, called by detector t *)

StopModem(t) ==
    /\ pc[t] = "stop" /\ modem' = "stopped" /\ Goto(t, "load")
    /\ UNCHANGED <<world, rfds, modem_state, phone, is_assert, told>>

\* The images are copied, errors ignored; stop_service then stops the phone
\* server, which breaks its connections.
LoadAndStopService(t) ==
    /\ pc[t] = "load" /\ Goto(t, "start")
    /\ phs' = FALSE /\ sock' = FALSE /\ blocked' = FALSE
    /\ UNCHANGED <<modem, world, rfds, modem_state, is_assert, told>>

StartModem(t) ==
    /\ pc[t] = "start" /\ modem' = "run" /\ Goto(t, "alive")
    /\ UNCHANGED <<world, rfds, modem_state, phone, is_assert, told>>

is_modem_assert(t) == is_assert[t]

InfoAlive(t) ==
    /\ pc[t] = "alive" /\ told' = IF is_modem_assert(t) THEN "alive" ELSE told
    /\ Goto(t, "service")
    /\ UNCHANGED <<modem, world, rfds, modem_state, phone, is_assert>>

\* start_service: the modem must answer AT commands before the phone server is
\* started.  A modem that does not answer ends the daemon; the read may also
\* block, until a modem that runs answers.
StartService(t) ==
    /\ pc[t] = "service"
    /\ \/ modem = "run" /\ phs' = TRUE /\ Goto(t, "ready")
       \/ modem # "run" /\ pc' = [u \in Detectors |-> "exited"] /\ UNCHANGED phs
       \/ "open" \in env.faults /\ Goto(t, "ready") /\ UNCHANGED phs
    /\ sock' = (sock /\ pc'["b"] # "exited") /\ blocked' = (blocked /\ sock')
    /\ UNCHANGED <<modem, world, rfds, modem_state, is_assert, told>>

\* Mutant: the signal is forgotten.
Unsignalled(p) == p
Signalled(p) == IF p = "wait" THEN "connect" ELSE p

\* The state and the signal, under the mutex; the caller clears is_assert and
\* returns to its loop.
SetReady(t) ==
    /\ pc[t] = "ready" /\ modem_state' = "READY"
    /\ is_assert' = [is_assert EXCEPT ![t] = FALSE]
    /\ pc' = IF t = "d" THEN [d |-> "select", b |-> Signalled(pc["b"])]
                        ELSE [pc EXCEPT !["b"] = "read"]
    /\ UNCHANGED <<modem, world, rfds, phone, told>>

load_sipc_modem_img(t) ==
    \/ StopModem(t) \/ LoadAndStopService(t) \/ StartModem(t)
    \/ InfoAlive(t) \/ StartService(t) \/ SetReady(t)

\* The clients are told of a failure; the property says whether to reload.
InfoAndReload(t, loop) ==
    /\ pc[t] = "info" /\ told' = "failed"
    /\ \E is_reset \in env.resets : Goto(t, IF is_reset THEN "stop" ELSE loop)
    /\ UNCHANGED <<modem, world, rfds, modem_state, phone, is_assert>>

-----------------------------------------------------------------------------
(* detect_sipc_modem *)

Readable == {fd \in rfds : IF fd = "assert" THEN assert_dev # <<>> ELSE wdtirq}
Watched == Readable         \* what select leaves in rfds, which is filled once

Detect ==
    /\ pc["d"] = "select" /\ Readable # {} /\ rfds' = Watched
    /\ LET buf == IF "assert" \in Readable THEN Head(assert_dev) ELSE "wdtirq"
       IN  /\ IF "assert" \in Readable
                THEN assert_dev' = Tail(assert_dev) /\ UNCHANGED wdtirq
                ELSE wdtirq' = FALSE /\ UNCHANGED assert_dev
           /\ IF buf = "Reset"
                THEN modem_state' = "RESET" /\ Goto("d", "stop") /\ UNCHANGED is_assert
                ELSE /\ modem_state' = "ASSERT" /\ Goto("d", "info")
                     /\ is_assert' = [is_assert EXCEPT !["d"] = TRUE]
    /\ UNCHANGED <<modem, how, failures, resets, env, phone, told>>

-----------------------------------------------------------------------------
(* detect_modem_blocked *)

Connect ==
    /\ pc["b"] = "connect" /\ phs /\ sock' = TRUE /\ Goto("b", "read")
    /\ UNCHANGED <<modem, world, rfds, modem_state, phs, blocked, is_assert, told>>

\* The connection is broken: wait for the modem if it is being reloaded.
Disconnected ==
    /\ pc["b"] = "read" /\ ~sock
    /\ Goto("b", IF modem_state # "READY" THEN "wait" ELSE "connect")
    /\ UNCHANGED <<modem, world, rfds, modem_state, phone, is_assert, told>>

\* pthread_cond_wait may return unsignalled, and is not repeated.
SpuriousWakeup ==
    /\ pc["b"] = "wait" /\ Goto("b", "connect")
    /\ UNCHANGED <<modem, world, rfds, modem_state, phone, is_assert, told>>

Blocked ==
    /\ pc["b"] = "read" /\ blocked /\ blocked' = FALSE
    /\ IF modem_state # "READY"
         THEN UNCHANGED <<modem_state, pc, is_assert>>
         ELSE /\ modem_state' = "ASSERT" /\ Goto("b", "info")
              /\ is_assert' = [is_assert EXCEPT !["b"] = TRUE]
    /\ UNCHANGED <<modem, world, rfds, phs, sock, told>>

Loop(t) == IF t = "d" THEN "select" ELSE "read"
Step(t) ==
    \/ load_sipc_modem_img(t) \/ InfoAndReload(t, Loop(t))
    \/ t = "d" /\ Detect
    \/ t = "b" /\ (Connect \/ Disconnected \/ Blocked)

Next == Fail \/ Announce \/ Report \/ SpuriousWakeup \/ \E t \in Detectors : Step(t)

Spec == Init /\ [][Next]_vars

-----------------------------------------------------------------------------

\* detect_modem_blocked never waits for a modem that is ready: the state is
\* tested, and set and signalled, under one mutex, so no wakeup is lost,
\* whichever faults occur.
NoLostWakeup == pc["b"] = "wait" => modem_state # "READY"

\* Where only the devices report failures, a modem is marked ready only when
\* it has been started again and the clients have been told.
ReadyAfterReload ==
    /\ "silent" \notin env.failures /\ env.faults \subseteq {"late", "announce"}
    /\ modem_state = "READY"
    => modem # "stopped" /\ told = "alive"

\* A modem that has asserted or fallen silent and is to be reset, and one that
\* runs, with its phone server watched: from the one to the other is what
\* detect_sipc_modem and detect_modem_blocked promise.
Failed ==
    /\ "hang" \notin env.failures /\ env.faults = {} /\ env.resets = {TRUE}
    /\ modem = "failed"
Runs == modem = "run" /\ phs /\ sock /\ modem_state = "READY"
=============================================================================
