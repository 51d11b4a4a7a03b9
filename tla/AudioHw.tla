------------------------------- MODULE AudioHw -------------------------------
(***************************************************************************)
(* The streams of the audio HAL (common/libs/audio/audio_hw.c) and the     *)
(* threads that follow a call on the modem's pipes (vb_control_parameters) *)
(* The player runs out_write and the recorder in_read in a loop; a policy  *)
(* thread puts streams to standby and switches VoIP on and off; for every  *)
(* modem a thread serves the commands HAL_OPEN, SWITCH_CTRL, HAL_CLOSE and *)
(* RSP_CLOSE and gives up after five silent seconds.  The locks are the    *)
(* device's (adev->lock), each stream's, and vbc_lock.  The audio mode is  *)
(* the normal one and the selected devices are not Bluetooth.              *)
(***************************************************************************)
EXTENDS Integers, Sequences

CONSTANTS CPs,        \* the modems with a pipe
          MaxErrors   \* how often opening a PCM, or its I/O, may fail

Streams == {"out", "in"}

ASSUME AudioHwAssumption ==
    /\ CPs \cap (Streams \cup {"policy", "free"}) = {}
    /\ MaxErrors \in Nat

Other(s) == IF s = "out" THEN "in" ELSE "out"

VARIABLES lock,       \* the holder of each mutex: adev, out, in, vbc
          pc,
          stream,     \* per stream: standby, is_sco and the PCM it has open
          active,     \* adev->active_output and active_input are set
          voip_start, voip_state,     \* voip_state: a set of streams
          tmp,        \* voip_state as an unlocked writer has read it
          codec,      \* the modem PCMs (pcm_modem_dl, pcm_modem_ul) are open
          call_start, call_connected, call_prestop,
          pipe, armed,        \* commands in the pipe; cur_timeout # NULL
          goal,       \* what a pipe's thread is doing under adev->lock
          modem,      \* the modem's side of the protocol
          errors      \* how often it has failed
streamVars == <<stream, active, voip_state, codec>>
callVars   == <<call_start, call_connected, call_prestop, pipe, armed, goal, modem>>
vars == <<lock, pc, streamVars, voip_start, tmp, callVars, errors>>

Threads == Streams \cup {"policy"} \cup CPs
Asleep == [standby |-> TRUE, is_sco |-> FALSE, pcm |-> "none"]
InVoip == [standby |-> TRUE, is_sco |-> TRUE, pcm |-> "none"]
Awake(sco, pcm) == [standby |-> FALSE, is_sco |-> sco, pcm |-> pcm]

Init ==
    /\ lock = [m \in Streams \cup {"adev", "vbc"} |-> "free"]
    /\ pc = [t \in Threads |-> "idle"]
    /\ stream = [s \in Streams |-> Asleep] /\ active = [s \in Streams |-> FALSE]
    /\ voip_start = FALSE /\ voip_state = {} /\ tmp = [s \in Streams |-> {}]
    /\ codec = FALSE
    /\ call_start = FALSE /\ call_connected = FALSE /\ call_prestop = FALSE
    /\ pipe = [c \in CPs |-> <<>>] /\ armed = [c \in CPs |-> FALSE]
    /\ goal = [c \in CPs |-> "none"] /\ modem = [c \in CPs |-> "idle"]
    /\ errors = 0

Outcomes == IF errors < MaxErrors THEN BOOLEAN ELSE {TRUE}
Counted(ok) == errors' = IF ok THEN errors ELSE errors + 1

Goto(t, l) == pc' = [pc EXCEPT ![t] = l]
Take(m, t) == lock[m] = "free" /\ lock' = [lock EXCEPT ![m] = t]
Give(ms) == lock' = [m \in DOMAIN lock |-> IF m \in ms THEN "free" ELSE lock[m]]

-----------------------------------------------------------------------------
(* do_output_standby and do_input_standby *)

VoipKept(s) == voip_state
VoipAfter(s) == IF stream[s].is_sco THEN voip_state \ {s} ELSE voip_state

CodecAfter(s, vs) == codec /\ ~(stream[s].is_sco /\ vs = {})

DoStandby(s) ==
    IF stream[s].standby
    THEN UNCHANGED streamVars
    ELSE /\ stream' = [stream EXCEPT ![s] = Asleep]
         /\ active' = [active EXCEPT ![s] = FALSE]
         /\ voip_state' = VoipAfter(s)
         /\ codec' = CodecAfter(s, VoipAfter(s))

-----------------------------------------------------------------------------
(* out_write and in_read *)

Lock(s) ==
    \/ /\ pc[s] = "idle" /\ Take("adev", s) /\ Goto(s, "stream")
       /\ UNCHANGED <<streamVars, voip_start, tmp, callVars, errors>>
    \/ /\ pc[s] = "stream" /\ Take(s, s) /\ Goto(s, "decide")
       /\ UNCHANGED <<streamVars, voip_start, tmp, callVars, errors>>

\* The early returns give both mutexes back.
ReturnsLocked(s) == Give({s})
Returns(s) == Give({"adev", s})

BypassClosing(s) == s = "out" /\ call_prestop
Bypass(s) == s = "out" /\ ((call_start /\ ~call_connected) \/ call_prestop)
WantsVoip == voip_start /\ ~call_start

\* Data thrown away, or the stream joins or leaves the VoIP session.
Decide(s) ==
    /\ pc[s] = "decide"
    /\ \/ /\ Bypass(s)
          /\ Returns(s) /\ Goto(s, "idle") /\ UNCHANGED streamVars
       \/ /\ ~Bypass(s) /\ WantsVoip /\ ~stream[s].is_sco
          /\ voip_state' = voip_state \cup {s} /\ Goto(s, "voip")
          /\ UNCHANGED <<lock, stream, active, codec>>
       \/ /\ ~Bypass(s) /\ (WantsVoip <=> stream[s].is_sco)
          /\ Goto(s, "start") /\ UNCHANGED <<lock, streamVars>>
       \/ /\ ~Bypass(s) /\ ~WantsVoip /\ stream[s].is_sco
          /\ DoStandby(s) /\ Goto(s, "start") /\ UNCHANGED lock
    /\ UNCHANGED <<voip_start, tmp, callVars, errors>>

\* The other stream's mutex that force_standby_for_voip takes.
ForcesOther(s) == active[Other(s)] /\ Other(s) \notin voip_state

ForceStandbyForVoip(s) ==
    /\ pc[s] = "voip"
    /\ IF ForcesOther(s)
       THEN lock[Other(s)] = "free" /\ DoStandby(Other(s))
       ELSE UNCHANGED streamVars
    /\ Goto(s, "join") /\ UNCHANGED <<lock, voip_start, tmp, callVars, errors>>

\* The stream's own standby, then is_sco = true.
JoinVoip(s) ==
    /\ pc[s] = "join"
    /\ stream' = [stream EXCEPT ![s] = InVoip]
    /\ active' = [active EXCEPT ![s] = @ /\ stream[s].standby]
    /\ Goto(s, "start")
    /\ UNCHANGED <<lock, voip_state, codec, voip_start, tmp, callVars, errors>>

\* The PCM that start_output_stream and start_input_stream open, and the one
\* that the write or read uses: for the output both ask call_connected.
Path(s) ==
    CASE stream[s].is_sco -> "sco"
      [] ~stream[s].is_sco /\ (IF s = "out" THEN call_connected ELSE call_start) -> "voice"
      [] OTHER -> "mm"

Dropped(s) == ~stream[s].is_sco /\ voip_state # {}

Start(s) ==
    /\ pc[s] = "start"
    /\ \/ /\ Dropped(s)
          /\ Returns(s) /\ Goto(s, "idle") /\ UNCHANGED <<streamVars, errors>>
       \/ /\ ~Dropped(s) /\ ~stream[s].standby
          /\ Give({"adev"}) /\ Goto(s, "io") /\ UNCHANGED <<streamVars, errors>>
       \/ /\ ~Dropped(s) /\ stream[s].standby
          /\ codec' = (codec \/ stream[s].is_sco)
          /\ \E ok \in Outcomes :
                /\ Counted(ok)
                /\ stream' = [stream EXCEPT ![s] =
                      Awake(@.is_sco, IF ok THEN Path(s) ELSE "none")]
                /\ active' = [active EXCEPT ![s] = ok \/ (s = "out" /\ Path(s) # "mm")]
                /\ Goto(s, IF ok THEN "io" ELSE "exit")
          /\ Give({"adev"}) /\ UNCHANGED voip_state
    /\ UNCHANGED <<voip_start, tmp, callVars>>

\* The PCM write or read, with the stream's mutex only.
Io(s) ==
    /\ pc[s] = "io"
    /\ \E ok \in Outcomes :
          /\ Counted(ok)
          /\ IF ok THEN Give({s}) /\ Goto(s, "idle") ELSE Goto(s, "exit") /\ UNCHANGED lock
    /\ UNCHANGED <<streamVars, voip_start, tmp, callVars>>

\* The exit path puts the stream to standby without adev->lock: voip_state is
\* read, and written back by a later step.
ExitRead(s) ==
    /\ pc[s] = "exit"
    /\ tmp' = [tmp EXCEPT ![s] = VoipAfter(s)] /\ Goto(s, "exit2")
    /\ UNCHANGED <<lock, streamVars, voip_start, callVars, errors>>

ExitWrite(s) ==
    /\ pc[s] = "exit2"
    /\ voip_state' = IF stream[s].is_sco THEN tmp[s] ELSE voip_state
    /\ codec' = CodecAfter(s, voip_state')
    /\ stream' = [stream EXCEPT ![s] = Asleep] /\ active' = [active EXCEPT ![s] = FALSE]
    /\ tmp' = [tmp EXCEPT ![s] = {}]
    /\ Give({s}) /\ Goto(s, "idle") /\ UNCHANGED <<voip_start, callVars, errors>>

StreamStep(s) ==
    \/ Decide(s) \/ ForceStandbyForVoip(s) \/ JoinVoip(s) \/ Start(s)
    \/ Io(s) \/ ExitRead(s) \/ ExitWrite(s)

-----------------------------------------------------------------------------
(* out_standby, in_standby and adev_set_parameters *)

Policy ==
    \/ /\ pc["policy"] = "idle" /\ Take("adev", "policy")
       /\ \E s \in Streams : Goto("policy", s)
       /\ UNCHANGED <<streamVars, voip_start, tmp, callVars, errors>>
    \/ \E s \in Streams :
          /\ pc["policy"] = s /\ lock[s] = "free" /\ DoStandby(s)
          /\ Give({"adev"}) /\ Goto("policy", "idle")
          /\ UNCHANGED <<voip_start, tmp, callVars, errors>>

SetVoip ==
    /\ pc["policy"] = "idle" /\ voip_start' = ~voip_start
    /\ UNCHANGED <<lock, pc, streamVars, tmp, callVars, errors>>

-----------------------------------------------------------------------------
(* The modem, and the thread that serves its pipe *)

\* What the modem sends next; it dies with the pipe reporting an error.
Protocol == {<<"idle", "HAL_OPEN", "opened">>, <<"opened", "SWITCH_CTRL", "connected">>,
             <<"opened", "HAL_CLOSE", "closing">>, <<"connected", "HAL_CLOSE", "closing">>,
             <<"closing", "RSP_CLOSE", "idle">>, <<"opened", "error", "idle">>,
             <<"connected", "error", "idle">>, <<"closing", "error", "idle">>}

ModemSends(c) ==
    /\ pipe[c] = <<>> /\ pc[c] = "idle"
    /\ \E p \in Protocol :
          /\ modem[c] = p[1]
          /\ pipe' = [pipe EXCEPT ![c] = <<p[2]>>] /\ modem' = [modem EXCEPT ![c] = p[3]]
    /\ UNCHANGED <<lock, pc, streamVars, voip_start, tmp, call_start, call_connected,
                   call_prestop, armed, goal, errors>>

ArmedToClose(cmd) == cmd = "HAL_CLOSE"
ArmedAfter(cmd) == cmd \in {"HAL_OPEN", "HAL_CLOSE"}

\* A command is read and its switch case entered.
Command(c) ==
    /\ pc[c] = "idle" /\ pipe[c] # <<>> /\ Head(pipe[c]) # "error" /\ Take("vbc", c)
    /\ LET cmd == Head(pipe[c]) IN
       /\ armed' = [armed EXCEPT ![c] = ArmedAfter(cmd)]
       /\ call_prestop' = CASE cmd = "HAL_CLOSE" -> TRUE
                            [] cmd = "RSP_CLOSE" -> FALSE
                            [] OTHER -> call_prestop
       /\ goal' = [goal EXCEPT ![c] = cmd]
       /\ Goto(c, IF cmd = "RSP_CLOSE" THEN "done" ELSE "lock")
    /\ pipe' = [pipe EXCEPT ![c] = Tail(@)]
    /\ UNCHANGED <<streamVars, voip_start, tmp, call_start, call_connected, modem, errors>>

\* select times out, or the pipe cannot be read: the call is given up, and a
\* modem that was silent for so long does not go on with it.
GiveUp(c) ==
    /\ pc[c] = "idle"
    /\ \/ armed[c] /\ pipe[c] = <<>>
       \/ pipe[c] = <<"error">>
    /\ goal' = [goal EXCEPT ![c] = "timeout"] /\ Goto(c, "lock")
    /\ modem' = [modem EXCEPT ![c] = "idle"]
    /\ UNCHANGED <<lock, streamVars, voip_start, tmp, call_start, call_connected,
                   call_prestop, pipe, armed, errors>>

LockDevice(c) ==
    /\ pc[c] = "lock" /\ Take("adev", c)
    /\ Goto(c, CASE goal[c] = "HAL_OPEN" -> "standbyOut"
                 [] goal[c] = "SWITCH_CTRL" -> "locked"
                 [] OTHER -> IF call_start THEN "standbyOut" ELSE "locked")
    /\ UNCHANGED <<streamVars, voip_start, tmp, callVars, errors>>

ForceIfIdle(c) ==
    /\ \E s \in Streams :
          /\ pc[c] = IF s = "out" THEN "standbyOut" ELSE "standbyIn"
          /\ IF active[s] /\ lock[s] = "free" THEN DoStandby(s) ELSE UNCHANGED streamVars
          /\ Goto(c, IF s = "out" THEN "standbyIn" ELSE "locked")
    /\ UNCHANGED <<lock, voip_start, tmp, callVars, errors>>

\* force_all_standby: the output, then the input.
ForceAllStandby(c) ==
    /\ \E s \in Streams :
          /\ pc[c] = IF s = "out" THEN "standbyOut" ELSE "standbyIn"
          /\ IF active[s]
             THEN lock[s] = "free" /\ DoStandby(s)
             ELSE UNCHANGED streamVars
          /\ Goto(c, IF s = "out" THEN "standbyIn" ELSE "locked")
    /\ UNCHANGED <<lock, voip_start, tmp, callVars, errors>>

ClosesCall(c) == goal[c] \in {"HAL_CLOSE", "timeout"}
EndsCall(c) == ClosesCall(c) /\ call_start


PrestopAfter(c) == call_prestop /\ goal[c] # "timeout"

\* The rest of HAL_OPEN, of SWITCH_CTRL, or of vbc_call_end_process.  HAL_OPEN
\* that cannot open the modem PCMs starts the call all the same and is the last
\* command of its thread.
Locked(c) ==
    /\ pc[c] = "locked"
    /\ \E ok \in (IF goal[c] = "HAL_OPEN" THEN Outcomes ELSE {TRUE}) :
          /\ Counted(ok)
          /\ codec' = IF goal[c] = "HAL_OPEN" THEN ok ELSE codec /\ ~EndsCall(c)
          /\ goal' = [goal EXCEPT ![c] = IF ok THEN @ ELSE "failed"]
    /\ call_start' = (goal[c] = "HAL_OPEN" \/ (call_start /\ ~ClosesCall(c)))
    /\ call_connected' = (goal[c] = "SWITCH_CTRL" \/ (call_connected /\ ~EndsCall(c)))
    /\ call_prestop' = PrestopAfter(c)
    /\ Give({"adev"}) /\ Goto(c, "done")
    /\ UNCHANGED <<stream, active, voip_state, voip_start, tmp, pipe, armed, modem>>

\* vbc_lock is released, or after a timeout the pipe emptied.
Done(c) ==
    /\ pc[c] = "done" /\ goal' = [goal EXCEPT ![c] = "none"]
    /\ Goto(c, IF goal[c] = "failed" THEN "exited" ELSE "idle")
    /\ IF goal[c] = "timeout"
       THEN /\ pipe' = [pipe EXCEPT ![c] = <<>>] /\ armed' = [armed EXCEPT ![c] = FALSE]
            /\ UNCHANGED lock
       ELSE Give({"vbc"}) /\ UNCHANGED <<pipe, armed>>
    /\ UNCHANGED <<streamVars, voip_start, tmp, call_start, call_connected, call_prestop,
                   modem, errors>>

CallThread(c) == ForceAllStandby(c) \/ Locked(c) \/ Done(c)

Next ==
    \/ \E s \in Streams : Lock(s) \/ StreamStep(s)
    \/ Policy \/ SetVoip
    \/ \E c \in CPs : \/ ModemSends(c) \/ Command(c) \/ GiveUp(c)
                      \/ LockDevice(c) \/ CallThread(c)

Spec == Init /\ [][Next]_vars

\* Threads run and each gets a mutex it keeps asking for; a pipe with data, or
\* a select whose five seconds pass, wakes its thread.  Nothing is assumed of
\* the modem, of the policy thread's choices, or of new calls to the streams.
Fairness ==
    /\ \A s \in Streams : /\ WF_vars(StreamStep(s)) /\ SF_vars(Lock(s))
                          /\ SF_vars(ForceStandbyForVoip(s))
    /\ SF_vars(pc["policy"] # "idle" /\ Policy)
    /\ \A c \in CPs : /\ SF_vars(Command(c)) /\ WF_vars(GiveUp(c)) /\ SF_vars(LockDevice(c))
                      /\ SF_vars(CallThread(c))

FairSpec == Spec /\ Fairness

-----------------------------------------------------------------------------
(* Properties *)

\* force_all_standby before call_start: once a call has started no stream has a
\* media PCM open, whatever the streams were doing when HAL_OPEN arrived.
NoMediaInCall == call_start => \A s \in Streams : stream[s].pcm # "mm"

\* The write of out_write goes to a PCM that is open: call_connected, which it
\* reads after releasing adev->lock, still is what start_output_stream read.
\* It needs that there is one modem: vbc_call_end_process clears call_start for
\* all of them, and SWITCH_CTRL does not ask whether it is still set.
WritesOpenPcm == pc["out"] = "io" => stream["out"].pcm = Path("out")

\* A mutex of a stream and of the device that no thread holds.
Unlocked(s) == lock["adev"] = "free" /\ lock[s] = "free"

\* While no PCM fails, the VoIP session is kept together: voip_state has the flag
\* of exactly the streams that are in it (do_output_standby, do_input_standby), and
\* the modem PCMs stay open as long as one of them or the call uses them.
VoipTracked ==
    errors = 0 =>
        /\ \A s \in Streams : Unlocked(s) =>
              /\ s \in voip_state <=> stream[s].is_sco
              /\ stream[s].is_sco => codec
        /\ lock["adev"] = "free" /\ call_start => codec

\* A call that was opened is connected or given up, unless a PCM fails: a
\* HAL_OPEN that fails ends its thread (vbc_ctrl_thread_routine).
CallSettles ==
    call_start /\ ~call_connected ~> call_connected \/ ~call_start \/ errors > 0

\* No thread waits for a mutex forever: every call of out_write, in_read and
\* the standby functions, and every command, comes to its end while no PCM
\* fails.
CallsReturn == \A t \in Threads : pc[t] # "idle" ~> pc[t] = "idle" \/ errors > 0
=============================================================================
