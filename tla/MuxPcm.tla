------------------------------- MODULE MuxPcm -------------------------------
(***************************************************************************)
(* audio_mux_pcm.c: voice playback and capture over the modem's mux.  Each *)
(* stream has a data channel; both send their commands and read all the    *)
(* replies, those to playback's data blocks included, on one control       *)
(* channel.  Its mutex is held from a command to its reply, but not from   *)
(* a data block to its reply.  audio_hw.c opens and closes the streams     *)
(* under the device's lock and writes and reads without it.                *)
(***************************************************************************)
EXTENDS Naturals, Sequences

CONSTANTS
    Blocks,     \* data blocks in one write
    MaxCalls,   \* calls of each stream
    MaxFaults   \* writes that fail

Streams == {"out", "in"}  \* AUDIO_PLAYBACK, AUDIO_CAPTURE

VARIABLES
    pc,         \* of each stream's thread
    cmd,        \* the command it is at
    state,      \* pcm->state: START was sent
    left,       \* blocks left of playback's write
    leaked,     \* pcms given up by a close that failed
    device_lock,\* the audio device's lock
    ctrl_lock,  \* audio_mux_ctrl_mutex
    requests,   \* commands on their way to the modem
    blocks,     \* playback's data on its way to the modem
    replies,    \* the modem's replies
    started,    \* of the modem: the streams it has started
    calls,
    faults      \* the writes that have failed: of a command, of data

modem == <<requests, blocks, replies, started>>
vars == <<pc, cmd, state, left, leaked, device_lock, ctrl_lock, modem, calls, faults>>

Init ==
    /\ pc = [s \in Streams |-> "closed"] /\ cmd = [s \in Streams |-> "NONE"]
    /\ state = [s \in Streams |-> 0] /\ leaked = [s \in Streams |-> 0] /\ left = 0
    /\ device_lock = "free" /\ ctrl_lock = "free"
    /\ requests = <<>> /\ blocks = 0 /\ replies = <<>> /\ started = {}
    /\ calls = [s \in Streams |-> 0] /\ faults = [send |-> 0, data |-> 0]

Goto(s, where) == pc' = [pc EXCEPT ![s] = where]
Command(s, c) == Goto(s, "send") /\ cmd' = [cmd EXCEPT ![s] = c]
Call(s) == calls[s] < MaxCalls /\ calls' = [calls EXCEPT ![s] = @ + 1]
Fault(f) ==
    /\ faults.send + faults.data < MaxFaults
    /\ faults' = [faults EXCEPT ![f] = @ + 1]

-----------------------------------------------------------------------------
(* The calls *)

\* mux_pcm_open; when a device cannot be opened, nothing is left of the call.
Open(s) ==
    /\ pc[s] = "closed" /\ Call(s) /\ device_lock = "free" /\ device_lock' = s
    /\ Command(s, "OPEN") /\ state' = [state EXCEPT ![s] = 0]
    /\ UNCHANGED <<left, leaked, ctrl_lock, modem, faults>>

\* mux_pcm_write and mux_pcm_read: the first sends START.
Transfer(s) ==
    /\ pc[s] = "ready" /\ Call(s) /\ left' = IF s = "out" THEN Blocks ELSE left
    /\ IF state[s] = 0
         THEN Command(s, "START") /\ state' = [state EXCEPT ![s] = 1]
         ELSE Goto(s, "data") /\ UNCHANGED <<cmd, state>>
    /\ UNCHANGED <<leaked, device_lock, ctrl_lock, modem, faults>>

\* mux_pcm_close
Close(s) ==
    /\ pc[s] = "ready" /\ Call(s) /\ device_lock = "free" /\ device_lock' = s
    /\ Command(s, IF state[s] = 1 THEN "STOP" ELSE "CLOSE")
    /\ UNCHANGED <<state, left, leaked, ctrl_lock, modem, faults>>

-----------------------------------------------------------------------------
(* saudio_send_common_cmd, and what its callers do with the result *)

SendUnlocked(s) ==
    /\ pc[s] = "send" /\ ctrl_lock = "free" /\ Goto(s, "reply")
    /\ requests' = Append(requests, [cmd |-> cmd[s], stream |-> s])
    /\ UNCHANGED <<cmd, state, left, leaked, device_lock, ctrl_lock, blocks, replies,
                   started, calls, faults>>

Send(s) ==
    /\ pc[s] = "send" /\ ctrl_lock = "free" /\ ctrl_lock' = s /\ Goto(s, "reply")
    /\ requests' = Append(requests, [cmd |-> cmd[s], stream |-> s])
    /\ UNCHANGED <<cmd, state, left, leaked, device_lock, blocks, replies, started, calls,
                   faults>>

\* A close that fails returns before it closes the channel and frees the pcm,
\* and its caller forgets the pcm.
GiveUp(s) ==
    /\ Goto(s, "closed") /\ leaked' = [leaked EXCEPT ![s] = @ + 1] /\ device_lock' = "free"
    /\ UNCHANGED <<cmd, state>>

Succeeded(s) ==
    \/ /\ cmd[s] = "OPEN" /\ Goto(s, "ready") /\ device_lock' = "free"
       /\ UNCHANGED <<cmd, state, leaked>>
    \/ cmd[s] = "START" /\ Goto(s, "data") /\ UNCHANGED <<cmd, state, leaked, device_lock>>
    \/ /\ cmd[s] = "STOP" /\ Command(s, "CLOSE") /\ state' = [state EXCEPT ![s] = 0]
       /\ UNCHANGED <<leaked, device_lock>>
    \/ /\ cmd[s] = "CLOSE" /\ Goto(s, "closed") /\ device_lock' = "free"
       /\ UNCHANGED <<cmd, state, leaked>>

\* After a failed open audio_hw.c closes what it got; START's caller returns.
Failed(s) ==
    \/ cmd[s] = "OPEN" /\ Command(s, "CLOSE") /\ UNCHANGED <<state, leaked, device_lock>>
    \/ cmd[s] = "START" /\ Goto(s, "ready") /\ UNCHANGED <<cmd, state, leaked, device_lock>>
    \/ cmd[s] \in {"STOP", "CLOSE"} /\ GiveUp(s)

SendFails(s) ==
    /\ pc[s] = "send" /\ ctrl_lock = "free" /\ Fault("send") /\ Failed(s)
    /\ UNCHANGED <<left, ctrl_lock, modem, calls>>

Matched(s) == Head(replies) = cmd[s]

Reply(s) ==
    /\ pc[s] = "reply" /\ replies # <<>> /\ replies' = Tail(replies) /\ ctrl_lock' = "free"
    /\ IF Matched(s) THEN Succeeded(s) ELSE Failed(s)
    /\ UNCHANGED <<left, requests, blocks, started, calls, faults>>

-----------------------------------------------------------------------------
(* Data: mux_pcm_write's loop with saudio_wait_common_cmd, mux_pcm_read's  *)

WriteBlock ==
    /\ pc["out"] = "data" /\ Goto("out", "wait") /\ blocks' = blocks + 1 /\ left' = left - 1
    /\ UNCHANGED <<cmd, state, leaked, device_lock, ctrl_lock, requests, replies, started,
                   calls, faults>>

\* A write that returns -1 is followed by the wait all the same.
WriteFails ==
    /\ pc["out"] = "data" /\ Fault("data") /\ Goto("out", "wait") /\ left' = left - 1
    /\ UNCHANGED <<cmd, state, leaked, device_lock, ctrl_lock, modem, calls>>

Wait ==
    /\ pc["out"] = "wait" /\ ctrl_lock = "free" /\ ctrl_lock' = "out" /\ Goto("out", "received")
    /\ UNCHANGED <<cmd, state, left, leaked, device_lock, modem, calls, faults>>

ReceivedOrAgain ==
    /\ pc["out"] = "received" /\ replies # <<>> /\ replies' = Tail(replies) /\ ctrl_lock' = "free"
    /\ Goto("out", IF Head(replies) # "RECEIVE" THEN "wait"
                   ELSE IF left > 0 THEN "data" ELSE "ready")
    /\ UNCHANGED <<cmd, state, left, leaked, device_lock, requests, blocks, started, calls,
                   faults>>

Received ==
    /\ pc["out"] = "received" /\ replies # <<>> /\ replies' = Tail(replies) /\ ctrl_lock' = "free"
    /\ Goto("out", IF Head(replies) = "RECEIVE" /\ left > 0 THEN "data" ELSE "ready")
    /\ UNCHANGED <<cmd, state, left, leaked, device_lock, requests, blocks, started, calls,
                   faults>>

\* The capture channel has data once the modem has started the stream.
ReadData ==
    /\ pc["in"] = "data" /\ "in" \in started /\ Goto("in", "ready")
    /\ UNCHANGED <<cmd, state, left, leaked, device_lock, ctrl_lock, modem, calls, faults>>

-----------------------------------------------------------------------------
(* The modem answers every command and every block, in any order of the    *)
(* two channels                                                            *)

ModemCommand ==
    /\ requests # <<>> /\ requests' = Tail(requests)
    /\ LET r == Head(requests) IN
         /\ replies' = Append(replies, r.cmd)
         /\ started' = CASE r.cmd = "START" -> started \cup {r.stream}
                         [] r.cmd = "STOP" -> started \ {r.stream}
                         [] OTHER -> started
    /\ UNCHANGED <<pc, cmd, state, left, leaked, device_lock, ctrl_lock, blocks, calls, faults>>

ModemBlock ==
    /\ blocks > 0 /\ blocks' = blocks - 1 /\ replies' = Append(replies, "RECEIVE")
    /\ UNCHANGED <<pc, cmd, state, left, leaked, device_lock, ctrl_lock, requests, started,
                   calls, faults>>

-----------------------------------------------------------------------------
Step(s) == Send(s) \/ Reply(s)
Playback == Step("out") \/ WriteBlock \/ Wait \/ Received
Capture == Step("in") \/ ReadData

Next ==
    \/ \E s \in Streams : Open(s) \/ Transfer(s) \/ Close(s) \/ SendFails(s)
    \/ Playback \/ WriteFails \/ Capture
    \/ ModemCommand \/ ModemBlock

Spec == Init /\ [][Next]_vars

\* The replies that a thread is going to read.
Awaited(s) == IF pc[s] \in {"reply", "wait", "received"} THEN 1 ELSE 0

Unfailed == faults.send + faults.data = 0

\* However often replies are mixed up, there is one on its way for every thread
\* that is going to read one, and no other, unless a data block could not be
\* written: the channel is in step again.
InStep ==
    faults.data = 0 =>
        Len(requests) + blocks + Len(replies) = Awaited("out") + Awaited("in")

\* A command gets another's reply only if it is capture's and playback has a
\* block under way, unless a data block could not be written: commands exclude
\* each other, and a playback that waits for its reply is past the block's own
\* (saudio_send_common_cmd).
MixedOnlyInPlay ==
    [][\A s \in Streams :
          faults.data = 0 /\ Reply(s) /\ ~Matched(s) => s = "in" /\ pc["out"] = "wait"]_vars

\* While no write fails, playback is always closed whole, whatever capture does:
\* no pcm of it is left open at the modem (mux_pcm_close).
PlaybackCloses == Unfailed => leaked["out"] = 0

\* While no write fails, playback writes no block before the modem has started
\* it (mux_pcm_write).
StartedFirst == Unfailed /\ pc["out"] \in {"data", "wait"} => "out" \in started

\* The control channel is in step, with as many replies as threads that will read
\* one (saudio_send_common_cmd, saudio_wait_common_cmd), so playback is started
\* before it writes and is closed whole (mux_pcm_write, mux_pcm_close).
ChannelSound == InStep /\ StartedFirst /\ PlaybackCloses
=============================================================================
