---------------------------- MODULE MuxPcmProofs ----------------------------
(***************************************************************************)
(* The control channel that playback and capture share, for writes of any  *)
(* number of blocks and any numbers of calls and of failed writes.         *)
(*                                                                         *)
(* The inductive invariant:                                                *)
(*   TypeInv, LockInv   the threads' places; the mutex is its holder's     *)
(*              from a command, or a wait, to the reply;                   *)
(*   Balanced   as many replies are to come as threads will read one       *)
(*              (InStep);                                                  *)
(*   ExchangeInv   a command whose thread no block of playback disturbs is *)
(*              alone on the channel, so the next reply is its own;        *)
(*   OutInv     the modem's requests of playback are of the command that   *)
(*              playback is at;                                            *)
(*   PlayInv, StartedInv   the modem has started playback from the reply   *)
(*              to START to the next STOP.                                 *)
(***************************************************************************)
EXTENDS MuxPcm, TLAPS

Commands == {"OPEN", "START", "STOP", "CLOSE"}
Requests == [cmd : Commands, stream : Streams]
Answers == Commands \cup {"RECEIVE"}
Places == {"closed", "ready", "send", "reply", "data", "wait", "received"}

ThreadTypes ==
    /\ pc \in [Streams -> Places]
    /\ cmd \in [Streams -> Commands \cup {"NONE"}] /\ state \in [Streams -> {0, 1}]
    /\ leaked \in [Streams -> Nat]
ModemTypes ==
    /\ requests \in Seq(Requests) /\ blocks \in Nat /\ replies \in Seq(Answers)
    /\ started \subseteq Streams /\ faults \in [send : Nat, data : Nat]
TypeInv ==
    /\ ThreadTypes /\ pc["in"] \notin {"wait", "received"}
    /\ \A s \in Streams : pc[s] \in {"send", "reply"} => cmd[s] \in Commands
    /\ ModemTypes

LockInv ==
    /\ ctrl_lock \in Streams \cup {"free"}
    /\ \A s \in Streams : ctrl_lock = s <=> pc[s] \in {"reply", "received"}

Balanced == Len(requests) + blocks + Len(replies) = Awaited("out") + Awaited("in")

OwnRequest(s) == requests = <<[cmd |-> cmd[s], stream |-> s]>> /\ replies = <<>>
OwnReply(s) == requests = <<>> /\ replies = <<cmd[s]>>
Alone(s) == blocks = 0 /\ (OwnRequest(s) \/ OwnReply(s))
ExchangeInv ==
    \A s \in Streams : pc[s] = "reply" /\ (s = "out" \/ pc["out"] # "wait") => Alone(s)
OutInv == pc["out"] # "reply" => \A x \in 1..Len(requests) : requests[x].stream = "in"

PlayInv ==
    /\ pc["out"] \in {"data", "wait", "received"} => state["out"] = 1
    /\ pc["out"] \in {"send", "reply"} /\ cmd["out"] = "START" => state["out"] = 1
StartedInv ==
    state["out"] = 1 =>
        \/ "out" \in started
        \/ pc["out"] = "send" /\ cmd["out"] = "START"
        \/ pc["out"] = "reply" /\ cmd["out"] = "START" /\ OwnRequest("out")
        \/ pc["out"] = "reply" /\ cmd["out"] = "STOP" /\ OwnReply("out")

ChannelInv == Balanced /\ ExchangeInv /\ OutInv
PlaybackInv == PlayInv /\ StartedInv /\ leaked["out"] = 0
MuxInv ==
    /\ TypeInv /\ LockInv
    /\ faults.data = 0 => ChannelInv
    /\ Unfailed => PlaybackInv
-----------------------------------------------------------------------------
USE ZenonT(60)

LEMMA Taken ==
  ASSUME NEW S, NEW q \in Seq(S), q # <<>>
  PROVE  /\ Head(q) \in S /\ Tail(q) \in Seq(S) /\ Head(q) = q[1] /\ 1 \in 1..Len(q)
         /\ Len(q) \in Nat /\ Len(Tail(q)) \in Nat /\ Len(Tail(q)) + 1 = Len(q)
         /\ \A x \in 1..Len(Tail(q)) : x + 1 \in 1..Len(q) /\ Tail(q)[x] = q[x + 1]
<1>1. Len(q) \in Nat
  BY SMTT(60)
<1>2. Len(q) # 0
  BY SMTT(60)
<1>3. Head(q) \in S
  BY SMTT(60)
<1>4. Tail(q) \in Seq(S)
  BY SMTT(60)
<1>5. Len(Tail(q)) = Len(q) - 1
  BY SMTT(60)
<1>6. \A x \in 1..Len(Tail(q)) : Tail(q)[x] = q[x + 1]
  BY SMTT(60)
<1>. QED  BY SMTT(60), <1>1, <1>2, <1>3, <1>4, <1>5, <1>6

LEMMA Added ==
  ASSUME NEW S, NEW q \in Seq(S), NEW e \in S
  PROVE  /\ Append(q, e) \in Seq(S) /\ Len(q) \in Nat /\ Len(Append(q, e)) = Len(q) + 1
         /\ \A x \in 1..Len(Append(q, e)) :
                Append(q, e)[x] = e \/ (x \in 1..Len(q) /\ Append(q, e)[x] = q[x])
<1>1. Len(q) \in Nat
  BY SMTT(60)
<1>2. Append(q, e) \in Seq(S)
  BY SMTT(60)
<1>3. Len(Append(q, e)) = Len(q) + 1
  BY SMTT(60)
<1>4. Append(q, e)[Len(q) + 1] = e
  BY SMTT(60)
<1>5. \A x \in 1..Len(q) : Append(q, e)[x] = q[x]
  BY SMTT(60)
<1>. QED  BY SMTT(60), <1>1, <1>2, <1>3, <1>4, <1>5

LEMMA None ==
  ASSUME NEW S, NEW q \in Seq(S)
  PROVE  Len(q) \in Nat /\ (Len(q) = 0 <=> q = <<>>)
  BY SMTT(60)

LEMMA One ==
  ASSUME NEW e
  PROVE  /\ <<e>> # <<>> /\ Head(<<e>>) = e /\ Tail(<<e>>) = <<>> /\ Append(<<>>, e) = <<e>>
         /\ Len(<<>>) = 0 /\ Len(<<e>>) = 1
  BY SMTT(60)

-----------------------------------------------------------------------------
(* The threads *)

\* A step of one stream's thread leaves the other's alone.
Only(s) ==
    \A o \in Streams : o # s => /\ pc'[o] = pc[o] /\ cmd'[o] = cmd[o]
                                /\ state'[o] = state[o] /\ leaked'[o] = leaked[o]
Idle == {"closed", "ready", "send", "data"}

LEMMA GotoThread ==
  ASSUME ThreadTypes, NEW s \in Streams, NEW w \in Places, Goto(s, w),
         UNCHANGED <<cmd, state, leaked>>
  PROVE  ThreadTypes' /\ Only(s) /\ pc'[s] = w
  BY DEF ThreadTypes, Only, Goto

LEMMA CommandThread ==
  ASSUME ThreadTypes, NEW s \in Streams, NEW c \in Commands, Command(s, c),
         NEW v \in {0, 1}, state' = [state EXCEPT ![s] = v], UNCHANGED leaked
  PROVE  ThreadTypes' /\ Only(s) /\ pc'[s] = "send" /\ cmd'[s] = c /\ state'[s] = v
<1>1. "send" \in Places
  BY DEF Places
<1>. QED  BY <1>1 DEF ThreadTypes, Only, Goto, Command

LEMMA SameState ==
  ASSUME ThreadTypes, NEW s \in Streams, UNCHANGED state
  PROVE  state[s] \in {0, 1} /\ state' = [state EXCEPT ![s] = state[s]]
<1>1. state[s] \in {0, 1}
  BY DEF ThreadTypes
<1>2. state = [state EXCEPT ![s] = state[s]]
  BY SMTT(60) DEF ThreadTypes
<1>. QED  BY <1>1, <1>2

LEMMA GiveUpThread ==
  ASSUME ThreadTypes, NEW s \in Streams, GiveUp(s)
  PROVE  ThreadTypes' /\ Only(s) /\ pc'[s] = "closed"
<1>1. leaked[s] + 1 \in Nat
  BY SMTT(60) DEF ThreadTypes
<1>2. "closed" \in Places
  BY DEF Places
<1>. QED  BY <1>1, <1>2 DEF ThreadTypes, Only, Goto, GiveUp

LEMMA SucceededThread ==
  ASSUME ThreadTypes, NEW s \in Streams, Succeeded(s)
  PROVE  /\ ThreadTypes' /\ Only(s) /\ pc'[s] \in Idle
         /\ pc'[s] = "send" => cmd'[s] \in Commands
         /\ leaked' = leaked
         /\ \/ cmd[s] = "OPEN" /\ pc'[s] = "ready" /\ state' = state
            \/ cmd[s] = "START" /\ pc'[s] = "data" /\ state' = state
            \/ cmd[s] = "STOP" /\ pc'[s] = "send" /\ cmd'[s] = "CLOSE" /\ state'[s] = 0
            \/ cmd[s] = "CLOSE" /\ pc'[s] = "closed" /\ state' = state
<1>0. "ready" \in Places /\ "data" \in Places /\ "closed" \in Places /\ "CLOSE" \in Commands
  BY DEF Places, Commands
<1>1. CASE cmd[s] = "OPEN" /\ Goto(s, "ready") /\ UNCHANGED <<cmd, state, leaked>>
  BY <1>0, <1>1, GotoThread DEF Idle
<1>2. CASE cmd[s] = "START" /\ Goto(s, "data") /\ UNCHANGED <<cmd, state, leaked>>
  BY <1>0, <1>2, GotoThread DEF Idle
<1>3. CASE cmd[s] = "STOP" /\ Command(s, "CLOSE") /\ state' = [state EXCEPT ![s] = 0]
             /\ UNCHANGED leaked
  BY <1>0, <1>3, CommandThread DEF Idle
<1>4. CASE cmd[s] = "CLOSE" /\ Goto(s, "closed") /\ UNCHANGED <<cmd, state, leaked>>
  BY <1>0, <1>4, GotoThread DEF Idle
<1>. QED  BY <1>1, <1>2, <1>3, <1>4 DEF Succeeded

LEMMA FailedThread ==
  ASSUME ThreadTypes, NEW s \in Streams, Failed(s)
  PROVE  ThreadTypes' /\ Only(s) /\ pc'[s] \in Idle /\ (pc'[s] = "send" => cmd'[s] \in Commands)
<1>0. "ready" \in Places /\ "CLOSE" \in Commands
  BY DEF Places, Commands
<1>1. CASE Command(s, "CLOSE") /\ UNCHANGED <<state, leaked>>
  BY <1>0, <1>1, SameState, CommandThread DEF Idle
<1>2. CASE Goto(s, "ready") /\ UNCHANGED <<cmd, state, leaked>>
  BY <1>0, <1>2, GotoThread DEF Idle
<1>3. CASE GiveUp(s)
  BY <1>3, GiveUpThread DEF Idle
<1>. QED  BY <1>1, <1>2, <1>3 DEF Failed

LEMMA FaultCounts ==
  ASSUME TypeInv, NEW f \in {"send", "data"}, Fault(f)
  PROVE  /\ faults' \in [send : Nat, data : Nat] /\ ~Unfailed'
         /\ faults'.data = 0 => f = "send" /\ faults.data = 0
<1>1. faults \in [send : Nat, data : Nat] /\ faults' = [faults EXCEPT ![f] = @ + 1]
  BY DEF TypeInv, ModemTypes, Fault
<1>2. CASE f = "send"
  BY SMTT(60), <1>1, <1>2 DEF Unfailed
<1>3. CASE f = "data"
  BY SMTT(60), <1>1, <1>3 DEF Unfailed
<1>. QED  BY <1>2, <1>3

LEMMA OpenThread ==
  ASSUME TypeInv, NEW s \in Streams, Open(s)
  PROVE  /\ ThreadTypes' /\ Only(s) /\ pc[s] = "closed" /\ pc'[s] = "send"
         /\ cmd'[s] = "OPEN" /\ state'[s] = 0 /\ leaked' = leaked
         /\ UNCHANGED <<ctrl_lock, modem, faults>>
<1>1. ThreadTypes /\ "OPEN" \in Commands
  BY DEF TypeInv, Commands
<1>. QED  BY <1>1, CommandThread DEF Open

LEMMA TransferThread ==
  ASSUME TypeInv, NEW s \in Streams, Transfer(s)
  PROVE  /\ ThreadTypes' /\ Only(s) /\ pc[s] = "ready" /\ leaked' = leaked
         /\ state'[s] = 1
         /\ \/ pc'[s] = "send" /\ cmd'[s] = "START"
            \/ pc'[s] = "data" /\ state[s] = 1
         /\ UNCHANGED <<ctrl_lock, modem, faults>>
<1>1. ThreadTypes /\ "START" \in Commands /\ "data" \in Places /\ state[s] \in {0, 1}
  BY DEF TypeInv, Commands, Places, ThreadTypes
<1>2. pc[s] = "ready" /\ leaked' = leaked /\ UNCHANGED <<ctrl_lock, modem, faults>>
  BY DEF Transfer
<1>3. CASE Command(s, "START") /\ state' = [state EXCEPT ![s] = 1]
  BY <1>1, <1>2, <1>3, CommandThread
<1>4. CASE state[s] # 0 /\ Goto(s, "data") /\ UNCHANGED <<cmd, state>>
  BY <1>1, <1>2, <1>4, GotoThread
<1>. QED  BY <1>3, <1>4 DEF Transfer

LEMMA CloseThread ==
  ASSUME TypeInv, NEW s \in Streams, Close(s)
  PROVE  /\ ThreadTypes' /\ Only(s) /\ pc[s] = "ready" /\ pc'[s] = "send" /\ leaked' = leaked
         /\ cmd'[s] \in {"STOP", "CLOSE"} /\ state' = state
         /\ UNCHANGED <<ctrl_lock, modem, faults>>
<1>1. ThreadTypes /\ "STOP" \in Commands /\ "CLOSE" \in Commands
  BY DEF TypeInv, Commands
<1>2. /\ pc[s] = "ready" /\ UNCHANGED <<state, leaked, ctrl_lock, modem, faults>>
      /\ Command(s, "STOP") \/ Command(s, "CLOSE")
  BY DEF Close
<1>3. CASE Command(s, "STOP")
  BY <1>1, <1>2, <1>3, SameState, CommandThread
<1>4. CASE Command(s, "CLOSE")
  BY <1>1, <1>2, <1>4, SameState, CommandThread
<1>. QED  BY <1>2, <1>3, <1>4

LEMMA SendThread ==
  ASSUME TypeInv, NEW s \in Streams, Send(s)
  PROVE  /\ ThreadTypes' /\ Only(s) /\ pc[s] = "send" /\ pc'[s] = "reply" /\ ctrl_lock = "free"
         /\ ctrl_lock' = s /\ requests' = Append(requests, [cmd |-> cmd[s], stream |-> s])
         /\ [cmd |-> cmd[s], stream |-> s] \in Requests
         /\ UNCHANGED <<cmd, state, leaked, blocks, replies, started, faults>>
<1>1. ThreadTypes /\ "reply" \in Places
  BY DEF TypeInv, Places
<1>2. pc[s] = "send" /\ Goto(s, "reply") /\ UNCHANGED <<cmd, state, leaked>>
  BY DEF Send
<1>3. cmd[s] \in Commands
  BY <1>2 DEF TypeInv
<1>. QED  BY <1>1, <1>2, <1>3, GotoThread DEF Send, Requests

LEMMA ReplyThread ==
  ASSUME TypeInv, NEW s \in Streams, Reply(s)
  PROVE  /\ ThreadTypes' /\ Only(s) /\ pc[s] = "reply" /\ pc'[s] \in Idle
         /\ pc'[s] = "send" => cmd'[s] \in Commands
         /\ replies # <<>> /\ replies' = Tail(replies) /\ ctrl_lock' = "free"
         /\ UNCHANGED <<requests, blocks, started, faults>>
<1>1. Succeeded(s) \/ Failed(s)
  BY DEF Reply
<1>. QED  BY <1>1, SucceededThread, FailedThread DEF Reply, TypeInv

\* Opening, closing, the start of a transfer and a command that cannot be sent do not
\* touch the channel.
LEMMA CallerThread ==
  ASSUME TypeInv, NEW s \in Streams, Open(s) \/ Transfer(s) \/ Close(s) \/ SendFails(s)
  PROVE  /\ ThreadTypes' /\ Only(s) /\ pc[s] \in Idle /\ pc'[s] \in Idle
         /\ pc'[s] = "send" => cmd'[s] \in Commands
         /\ faults' \in [send : Nat, data : Nat] /\ UNCHANGED <<ctrl_lock, modem>>
<1>1. CASE SendFails(s)
  <2>1. pc[s] = "send" /\ Fault("send") /\ Failed(s) /\ UNCHANGED <<ctrl_lock, modem>>
    BY <1>1 DEF SendFails
  <2>. QED  BY <2>1, FailedThread, FaultCounts DEF TypeInv, Idle
<1>2. faults \in [send : Nat, data : Nat]
  BY DEF TypeInv, ModemTypes
<1>3. CASE Open(s)
  BY <1>2, <1>3, OpenThread DEF Idle, Commands
<1>4. CASE Transfer(s)
  BY <1>2, <1>4, TransferThread DEF Idle, Commands
<1>5. CASE Close(s)
  BY <1>2, <1>5, CloseThread DEF Idle, Commands
<1>. QED  BY <1>1, <1>3, <1>4, <1>5

-----------------------------------------------------------------------------
(* Playback's data, and the modem *)

PlaybackData == WriteBlock \/ WriteFails \/ Wait \/ Received

LEMMA DataThread ==
  ASSUME TypeInv, PlaybackData
  PROVE  /\ ThreadTypes' /\ Only("out") /\ UNCHANGED <<cmd, state, leaked, requests, started>>
         /\ pc["out"] \in {"data", "wait", "received"}
         /\ pc'["out"] \in Places \ {"send", "reply"}
         /\ WriteBlock \/ WriteFails => pc["out"] = "data" /\ pc'["out"] = "wait"
         /\ Wait => pc["out"] = "wait" /\ pc'["out"] = "received"
         /\ Received => pc["out"] = "received" /\ pc'["out"] \in {"data", "ready"}
<1>1. /\ ThreadTypes /\ "out" \in Streams
      /\ "wait" \in Places /\ "received" \in Places /\ "data" \in Places /\ "ready" \in Places
  BY DEF TypeInv, Places, Streams
<1>2. CASE WriteBlock \/ WriteFails
  <2>1. /\ pc["out"] = "data" /\ Goto("out", "wait")
        /\ UNCHANGED <<cmd, state, leaked, requests, started>>
    BY <1>2 DEF WriteBlock, WriteFails, modem
  <2>. QED  BY <1>1, <2>1, GotoThread DEF Wait, Received
<1>3. CASE Wait
  <2>1. /\ pc["out"] = "wait" /\ Goto("out", "received")
        /\ UNCHANGED <<cmd, state, leaked, requests, started>>
    BY <1>3 DEF Wait, modem
  <2>. QED  BY <1>1, <2>1, GotoThread DEF WriteBlock, WriteFails, Received
<1>4. CASE Received
  <2>1. /\ pc["out"] = "received" /\ UNCHANGED <<cmd, state, leaked, requests, started>>
        /\ Goto("out", "data") \/ Goto("out", "ready")
    BY <1>4 DEF Received
  <2>. QED  BY <1>1, <2>1, GotoThread DEF WriteBlock, WriteFails, Wait
<1>. QED  BY <1>2, <1>3, <1>4 DEF PlaybackData

LEMMA ReadThread ==
  ASSUME TypeInv, ReadData
  PROVE  /\ ThreadTypes' /\ Only("in") /\ pc["in"] = "data" /\ pc'["in"] = "ready"
         /\ UNCHANGED <<cmd, state, leaked, ctrl_lock, modem, faults>>
<1>1. ThreadTypes /\ "in" \in Streams /\ "ready" \in Places
  BY DEF TypeInv, Places, Streams
<1>2. pc["in"] = "data" /\ Goto("in", "ready") /\ UNCHANGED <<cmd, state, leaked>>
  BY DEF ReadData
<1>. QED  BY <1>1, <1>2, GotoThread DEF ReadData

LEMMA ModemCommandStep ==
  ASSUME TypeInv, ModemCommand
  PROVE  /\ requests # <<>> /\ Head(requests) \in Requests /\ requests' = Tail(requests)
         /\ replies' = Append(replies, Head(requests).cmd)
         /\ started' \subseteq Streams
         /\ Head(requests).cmd = "START" => started' = started \cup {Head(requests).stream}
         /\ Head(requests).cmd # "STOP" => started \subseteq started'
         /\ Head(requests).stream = "in" => ("out" \in started <=> "out" \in started')
         /\ UNCHANGED <<pc, cmd, state, leaked, ctrl_lock, blocks, faults>>
<1>1. /\ requests # <<>> /\ requests' = Tail(requests)
      /\ replies' = Append(replies, Head(requests).cmd)
      /\ UNCHANGED <<pc, cmd, state, leaked, ctrl_lock, blocks, faults>>
      /\ started' = CASE Head(requests).cmd = "START" -> started \cup {Head(requests).stream}
                      [] Head(requests).cmd = "STOP" -> started \ {Head(requests).stream}
                      [] OTHER -> started
  BY DEF ModemCommand
<1>2. Head(requests) \in Requests /\ started \subseteq Streams
  BY <1>1, Taken DEF TypeInv, ModemTypes
<1>3. Head(requests).stream \in Streams
  BY <1>2 DEF Requests
<1>4. /\ Head(requests).cmd = "START" => started' = started \cup {Head(requests).stream}
      /\ Head(requests).cmd = "STOP" => started' = started \ {Head(requests).stream}
      /\ Head(requests).cmd \notin {"START", "STOP"} => started' = started
  BY SMTT(60), <1>1
<1>. QED  BY <1>1, <1>2, <1>3, <1>4

LEMMA ModemTypesStep ==
  ASSUME TypeInv, ModemCommand \/ ModemBlock
  PROVE  TypeInv'
<1>1. ModemTypes
  BY DEF TypeInv
<1>2. CASE ModemCommand
  <2>1. Tail(requests) \in Seq(Requests) /\ Head(requests).cmd \in Answers
    BY <1>1, <1>2, ModemCommandStep, Taken DEF ModemTypes, Requests, Answers
  <2>2. Append(replies, Head(requests).cmd) \in Seq(Answers)
    BY <1>1, <2>1, Added DEF ModemTypes
  <2>3. ModemTypes'
    BY <1>1, <1>2, <2>1, <2>2, ModemCommandStep DEF ModemTypes
  <2>. QED  BY <1>2, <2>3, ModemCommandStep DEF TypeInv, ThreadTypes
<1>3. CASE ModemBlock
  <2>1. /\ blocks > 0 /\ blocks' = blocks - 1 /\ replies' = Append(replies, "RECEIVE")
        /\ UNCHANGED <<pc, cmd, state, leaked, requests, started, faults>>
    BY <1>3 DEF ModemBlock
  <2>2. blocks' \in Nat
    BY SMTT(60), <1>1, <2>1 DEF ModemTypes
  <2>3. "RECEIVE" \in Answers
    BY DEF Answers
  <2>4. replies' \in Seq(Answers)
    BY <1>1, <2>1, <2>3, Added DEF ModemTypes
  <2>5. ModemTypes'
    BY <1>1, <2>1, <2>2, <2>4 DEF ModemTypes
  <2>. QED  BY <2>1, <2>5 DEF TypeInv, ThreadTypes
<1>. QED  BY <1>2, <1>3

LEMMA TypesKept ==
  ASSUME TypeInv, ThreadTypes', ModemTypes', NEW s \in Streams, Only(s),
         s = "in" => pc'[s] \in Idle \cup {"reply"},
         pc'[s] \in {"send", "reply"} => cmd'[s] \in Commands
  PROVE  TypeInv'
<1>1. "in" \in Streams
  BY DEF Streams
<1>2. pc'["in"] \notin {"wait", "received"}
  BY <1>1 DEF TypeInv, Only, Idle
<1>3. ASSUME NEW o \in Streams, pc'[o] \in {"send", "reply"} PROVE cmd'[o] \in Commands
  BY <1>3 DEF TypeInv, Only
<1>. QED  BY <1>2, <1>3 DEF TypeInv

LEMMA TypeStep ==
  ASSUME TypeInv, Next
  PROVE  TypeInv'
<1>0. ModemTypes /\ "out" \in Streams /\ "in" \in Streams
  BY DEF TypeInv, Streams
<1>1. ASSUME NEW s \in Streams, Open(s) \/ Transfer(s) \/ Close(s) \/ SendFails(s)
      PROVE  TypeInv'
  <2>1. /\ ThreadTypes' /\ Only(s) /\ pc'[s] \in Idle /\ (pc'[s] = "send" => cmd'[s] \in Commands)
        /\ faults' \in [send : Nat, data : Nat] /\ UNCHANGED modem
    BY <1>1, CallerThread
  <2>2. ModemTypes'
    BY <1>0, <2>1 DEF ModemTypes, modem
  <2>. QED  BY <2>1, <2>2, TypesKept DEF Idle
<1>2. ASSUME NEW s \in Streams, Send(s) PROVE TypeInv'
  <2>1. /\ ThreadTypes' /\ Only(s) /\ pc[s] = "send" /\ pc'[s] = "reply" /\ cmd' = cmd
        /\ requests' = Append(requests, [cmd |-> cmd[s], stream |-> s])
        /\ [cmd |-> cmd[s], stream |-> s] \in Requests
        /\ UNCHANGED <<blocks, replies, started, faults>>
    BY <1>2, SendThread
  <2>2. requests' \in Seq(Requests)
    BY <1>0, <2>1, Added DEF ModemTypes
  <2>3. ModemTypes'
    BY <1>0, <2>1, <2>2 DEF ModemTypes
  <2>4. cmd[s] \in Commands
    BY <2>1 DEF TypeInv
  <2>. QED  BY <2>1, <2>3, <2>4, TypesKept
<1>3. ASSUME NEW s \in Streams, Reply(s) PROVE TypeInv'
  <2>1. /\ ThreadTypes' /\ Only(s) /\ pc'[s] \in Idle /\ (pc'[s] = "send" => cmd'[s] \in Commands)
        /\ replies # <<>> /\ replies' = Tail(replies)
        /\ UNCHANGED <<requests, blocks, started, faults>>
    BY <1>3, ReplyThread
  <2>2. replies' \in Seq(Answers)
    BY <1>0, <2>1, Taken DEF ModemTypes
  <2>3. ModemTypes'
    BY <1>0, <2>1, <2>2 DEF ModemTypes
  <2>. QED  BY <2>1, <2>3, TypesKept DEF Idle
<1>4. CASE PlaybackData
  <2>1. blocks' \in Nat /\ replies' \in Seq(Answers) /\ faults' \in [send : Nat, data : Nat]
    <3>1. CASE WriteBlock
      BY SMTT(60), <1>0, <3>1 DEF WriteBlock, ModemTypes
    <3>2. CASE WriteFails
      BY <1>0, <3>2, FaultCounts DEF WriteFails, ModemTypes, modem
    <3>3. CASE Wait
      BY <1>0, <3>3 DEF Wait, ModemTypes, modem
    <3>4. CASE Received
      BY <1>0, <3>4, Taken DEF Received, ModemTypes
    <3>. QED  BY <1>4, <3>1, <3>2, <3>3, <3>4 DEF PlaybackData
  <2>2. ModemTypes'
    BY <1>0, <1>4, <2>1, DataThread DEF ModemTypes
  <2>. QED  BY <1>0, <1>4, <2>2, DataThread, TypesKept
<1>5. CASE ReadData
  <2>1. ModemTypes'
    BY <1>0, <1>5, ReadThread DEF ModemTypes, modem
  <2>. QED  BY <1>0, <1>5, <2>1, ReadThread, TypesKept DEF Idle
<1>6. CASE ModemCommand \/ ModemBlock
  BY <1>6, ModemTypesStep
<1>. QED  BY <1>0, <1>1, <1>2, <1>3, <1>4, <1>5, <1>6
          DEF Next, Playback, Capture, Step, PlaybackData

\* Only its thread takes and releases the mutex.
LEMMA LockKept ==
  ASSUME LockInv, NEW s \in Streams, Only(s),
         ctrl_lock' \in {s, "free"} \/ ctrl_lock' = ctrl_lock,
         ctrl_lock \in {s, "free"} \/ ctrl_lock' = ctrl_lock,
         ctrl_lock' = s <=> pc'[s] \in {"reply", "received"}
  PROVE  LockInv'
<1>1. "free" \notin Streams
  BY DEF Streams
<1>2. ASSUME NEW o \in Streams PROVE ctrl_lock' = o <=> pc'[o] \in {"reply", "received"}
  BY <1>1 DEF LockInv, Only
<1>. QED  BY <1>2 DEF LockInv

LEMMA LockStep ==
  ASSUME TypeInv, LockInv, Next
  PROVE  LockInv'
<1>0. "out" \in Streams /\ "in" \in Streams /\ "free" \notin Streams
  BY DEF Streams
<1>1. ASSUME NEW s \in Streams, Open(s) \/ Transfer(s) \/ Close(s) \/ SendFails(s)
      PROVE  LockInv'
  <2>1. Only(s) /\ pc[s] \in Idle /\ pc'[s] \in Idle /\ ctrl_lock' = ctrl_lock
    BY <1>1, CallerThread
  <2>. QED  BY <2>1, LockKept DEF Idle, LockInv
<1>2. ASSUME NEW s \in Streams, Send(s) PROVE LockInv'
  BY <1>0, <1>2, SendThread, LockKept
<1>3. ASSUME NEW s \in Streams, Reply(s) PROVE LockInv'
  <2>1. Only(s) /\ pc[s] = "reply" /\ pc'[s] \in Idle /\ ctrl_lock' = "free"
    BY <1>3, ReplyThread
  <2>2. ctrl_lock = s
    BY <2>1 DEF LockInv
  <2>. QED  BY <1>0, <2>1, <2>2, LockKept DEF Idle
<1>4. CASE PlaybackData
  <2>1. CASE WriteBlock \/ WriteFails
    <3>1. ctrl_lock' = ctrl_lock
      BY <2>1 DEF WriteBlock, WriteFails
    <3>2. Only("out") /\ pc["out"] = "data" /\ pc'["out"] = "wait"
      BY <1>4, <2>1, DataThread
    <3>. QED  BY <1>0, <3>1, <3>2, LockKept DEF LockInv
  <2>2. CASE Wait
    <3>1. ctrl_lock = "free" /\ ctrl_lock' = "out"
      BY <2>2 DEF Wait
    <3>2. Only("out") /\ pc'["out"] = "received"
      BY <1>4, <2>2, DataThread
    <3>. QED  BY <1>0, <3>1, <3>2, LockKept
  <2>3. CASE Received
    <3>1. ctrl_lock' = "free"
      BY <2>3 DEF Received
    <3>2. Only("out") /\ pc["out"] = "received" /\ pc'["out"] \in {"data", "ready"}
      BY <1>4, <2>3, DataThread
    <3>3. ctrl_lock = "out"
      BY <1>0, <3>2 DEF LockInv
    <3>. QED  BY <1>0, <3>1, <3>2, <3>3, LockKept
  <2>. QED  BY <1>4, <2>1, <2>2, <2>3 DEF PlaybackData
<1>5. CASE ReadData
  <2>1. Only("in") /\ pc["in"] = "data" /\ pc'["in"] = "ready" /\ ctrl_lock' = ctrl_lock
    BY <1>5, ReadThread
  <2>. QED  BY <1>0, <2>1, LockKept DEF LockInv
<1>6. CASE ModemCommand \/ ModemBlock
  <2>1. UNCHANGED <<pc, ctrl_lock>>
    BY <1>6 DEF ModemCommand, ModemBlock
  <2>. QED  BY <2>1 DEF LockInv
<1>. QED  BY <1>0, <1>1, <1>2, <1>3, <1>4, <1>5, <1>6
          DEF Next, Playback, Capture, Step, PlaybackData

-----------------------------------------------------------------------------
(* The channel *)

Awaiting == {"reply", "wait", "received"}

LEMMA AwaitedValues ==
  ASSUME NEW s
  PROVE  /\ pc[s] \in Awaiting => Awaited(s) = 1
         /\ pc[s] \notin Awaiting => Awaited(s) = 0
         /\ pc'[s] \in Awaiting => Awaited(s)' = 1
         /\ pc'[s] \notin Awaiting => Awaited(s)' = 0
  BY DEF Awaited, Awaiting

LEMMA AwaitedKept ==
  ASSUME NEW s \in Streams, Only(s)
  PROVE  \A o \in Streams : o # s => Awaited(o)' = Awaited(o)
  BY DEF Awaited, Only

\* Nothing is on the channel when no thread waits.
LEMMA Quiet ==
  ASSUME TypeInv, Balanced, pc["out"] \notin Awaiting, pc["in"] \notin Awaiting
  PROVE  requests = <<>> /\ blocks = 0 /\ replies = <<>>
<1>1. Len(requests) + blocks + Len(replies) = 0 + 0
  BY AwaitedValues DEF Balanced
<1>2. Len(requests) \in Nat /\ Len(replies) \in Nat /\ blocks \in Nat
  BY None DEF TypeInv, ModemTypes
<1>3. Len(requests) = 0 /\ Len(replies) = 0 /\ blocks = 0
  BY SMTT(60), <1>1, <1>2
<1>. QED  BY <1>3, None DEF TypeInv, ModemTypes

LEMMA ChannelKept ==
  ASSUME ChannelInv, NEW s \in Streams, Only(s), pc[s] \in Idle, pc'[s] \in Idle,
         UNCHANGED <<requests, blocks, replies>>
  PROVE  ChannelInv'
<1>0. Streams = {"out", "in"} /\ pc[s] \notin Awaiting /\ pc'[s] \notin Awaiting
  BY DEF Streams, Idle, Awaiting
<1>1. Awaited("out")' = Awaited("out") /\ Awaited("in")' = Awaited("in")
  BY <1>0, AwaitedKept, AwaitedValues
<1>2. Balanced'
  BY <1>1 DEF ChannelInv, Balanced
<1>3. ASSUME NEW o \in Streams, pc'[o] = "reply", o = "out" \/ pc'["out"] # "wait"
      PROVE  Alone(o)'
  <2>1. o # s /\ pc[o] = "reply" /\ cmd'[o] = cmd[o]
    BY <1>0, <1>3 DEF Only, Awaiting
  <2>2. o = "out" \/ pc["out"] # "wait"
    BY <1>0, <1>3, <2>1 DEF Only, Awaiting
  <2>3. Alone(o)
    BY <2>1, <2>2 DEF ChannelInv, ExchangeInv
  <2>. QED  BY <2>1, <2>3 DEF Alone, OwnRequest, OwnReply
<1>4. OutInv'
  <2>1. pc'["out"] # "reply" => pc["out"] # "reply"
    BY <1>0 DEF Only, Awaiting
  <2>. QED  BY <2>1 DEF ChannelInv, OutInv
<1>. QED  BY <1>2, <1>3, <1>4 DEF ChannelInv, ExchangeInv

\* No thread is between a command and its reply while the mutex is free.
LEMMA FreeLock ==
  ASSUME TypeInv, LockInv, ctrl_lock = "free"
  PROVE  /\ pc["in"] \notin Awaiting /\ pc["out"] \notin {"reply", "received"}
         /\ pc["out"] # "wait" => pc["out"] \notin Awaiting
  BY DEF TypeInv, LockInv, Streams, Awaiting

LEMMA OneHolder ==
  ASSUME LockInv, NEW s \in Streams, pc[s] \in {"reply", "received"}, NEW o \in Streams, o # s
  PROVE  pc[o] \notin {"reply", "received"}
  BY DEF LockInv

LEMMA SendChannel ==
  ASSUME TypeInv, LockInv, ChannelInv, NEW s \in Streams, Send(s)
  PROVE  ChannelInv'
<1>0. Streams = {"out", "in"} /\ ModemTypes
  BY DEF Streams, TypeInv
<1>1. /\ Only(s) /\ pc[s] = "send" /\ pc'[s] = "reply" /\ ctrl_lock = "free"
      /\ requests' = Append(requests, [cmd |-> cmd[s], stream |-> s])
      /\ [cmd |-> cmd[s], stream |-> s] \in Requests /\ UNCHANGED <<cmd, blocks, replies>>
  BY SendThread
<1>2. Awaited(s) = 0 /\ Awaited(s)' = 1
  BY <1>1, AwaitedValues DEF Awaiting
<1>r. PICK r \in Requests : r.stream = s /\ requests' = Append(requests, r)
  BY <1>1
<1>3. /\ Len(requests) \in Nat /\ Len(requests') = Len(requests) + 1
      /\ \A x \in 1..Len(requests') :
             requests'[x] = r \/ (x \in 1..Len(requests) /\ requests'[x] = requests[x])
  <2>1. requests \in Seq(Requests)
    BY <1>0 DEF ModemTypes
  <2>. QED  BY SMTT(60), <1>r, <2>1, Added
<1>4. Balanced'
  <2>1. Len(replies) \in Nat /\ blocks \in Nat
    BY <1>0, None DEF ModemTypes
  <2>2. Len(requests) + blocks + Len(replies) = Awaited("out") + Awaited("in")
    BY DEF ChannelInv, Balanced
  <2>3. CASE s = "out"
    <3>1. Awaited("in")' = Awaited("in") /\ Awaited("in") \in {0, 1}
      BY <1>0, <1>1, <2>3, AwaitedKept, AwaitedValues
    <3>. QED  BY SMTT(60), <1>1, <1>2, <1>3, <2>1, <2>2, <2>3, <3>1 DEF Balanced
  <2>4. CASE s = "in"
    <3>1. Awaited("out")' = Awaited("out") /\ Awaited("out") \in {0, 1}
      BY <1>0, <1>1, <2>4, AwaitedKept, AwaitedValues
    <3>. QED  BY SMTT(60), <1>1, <1>2, <1>3, <2>1, <2>2, <2>4, <3>1 DEF Balanced
  <2>. QED  BY <1>0, <2>3, <2>4
<1>5. ASSUME NEW o \in Streams, pc'[o] = "reply", o = "out" \/ pc'["out"] # "wait"
      PROVE  Alone(o)'
  <2>1. /\ pc["in"] \notin Awaiting /\ pc["out"] # "reply"
        /\ pc["out"] # "wait" => pc["out"] \notin Awaiting
    BY <1>1, FreeLock
  <2>2. o = s
    BY <1>0, <1>1, <1>5, <2>1 DEF Only, Awaiting
  <2>3. pc["out"] # "wait"
    BY <1>0, <1>1, <1>5, <2>2 DEF Only
  <2>4. requests = <<>> /\ blocks = 0 /\ replies = <<>>
    BY <2>1, <2>3, Quiet DEF ChannelInv
  <2>5. requests' = <<[cmd |-> cmd[s], stream |-> s]>>
    BY <1>1, <2>4, One
  <2>. QED  BY <1>1, <2>2, <2>4, <2>5 DEF Alone, OwnRequest
<1>6. OutInv'
  <2>1. SUFFICES ASSUME pc'["out"] # "reply", NEW x \in 1..Len(requests')
                 PROVE  requests'[x].stream = "in"
    BY DEF OutInv
  <2>2. s = "in" /\ pc["out"] # "reply"
    BY <1>0, <1>1, <2>1 DEF Only
  <2>. QED  BY <1>r, <1>3, <2>1, <2>2 DEF ChannelInv, OutInv
<1>. QED  BY <1>4, <1>5, <1>6 DEF ChannelInv, ExchangeInv

\* A command that is alone on the channel gets its own reply.
LEMMA AloneMatched ==
  ASSUME NEW s \in Streams, Alone(s), replies # <<>>
  PROVE  OwnReply(s) /\ Matched(s)
<1>1. requests = <<>> /\ replies = <<cmd[s]>>
  BY DEF Alone, OwnRequest, OwnReply
<1>. QED  BY <1>1, One DEF OwnReply, Matched

LEMMA ReplyChannel ==
  ASSUME TypeInv, LockInv, ChannelInv, NEW s \in Streams, Reply(s)
  PROVE  ChannelInv'
<1>0. Streams = {"out", "in"} /\ ModemTypes
  BY DEF Streams, TypeInv
<1>1. /\ Only(s) /\ pc[s] = "reply" /\ pc'[s] \in Idle
      /\ replies # <<>> /\ replies' = Tail(replies)
      /\ UNCHANGED <<requests, blocks>>
  BY ReplyThread
<1>2. Awaited(s) = 1 /\ Awaited(s)' = 0
  BY <1>1, AwaitedValues DEF Awaiting, Idle
<1>3. Len(replies') \in Nat /\ Len(replies') + 1 = Len(replies)
  BY <1>0, <1>1, Taken DEF ModemTypes
<1>4. Balanced'
  <2>1. Len(requests) \in Nat /\ blocks \in Nat
    BY <1>0, None DEF ModemTypes
  <2>2. Len(requests) + blocks + Len(replies) = Awaited("out") + Awaited("in")
    BY DEF ChannelInv, Balanced
  <2>3. CASE s = "out"
    <3>1. Awaited("in")' = Awaited("in") /\ Awaited("in") \in {0, 1}
      BY <1>0, <1>1, <2>3, AwaitedKept, AwaitedValues
    <3>. QED  BY SMTT(60), <1>1, <1>2, <1>3, <2>1, <2>2, <2>3, <3>1 DEF Balanced
  <2>4. CASE s = "in"
    <3>1. Awaited("out")' = Awaited("out") /\ Awaited("out") \in {0, 1}
      BY <1>0, <1>1, <2>4, AwaitedKept, AwaitedValues
    <3>. QED  BY SMTT(60), <1>1, <1>2, <1>3, <2>1, <2>2, <2>4, <3>1 DEF Balanced
  <2>. QED  BY <1>0, <2>3, <2>4
<1>5. ASSUME NEW o \in Streams PROVE pc'[o] # "reply"
  BY <1>1, OneHolder DEF Only, Idle
<1>6. OutInv'
  <2>1. CASE s = "out"
    <3>1. Alone("out")
      BY <1>0, <1>1, <2>1 DEF ChannelInv, ExchangeInv
    <3>2. requests = <<>>
      BY <1>0, <1>1, <3>1, AloneMatched DEF OwnReply
    <3>3. 1..Len(requests') = {}
      BY SMTT(60), <1>1, <3>2, One
    <3>. QED  BY <3>3 DEF OutInv
  <2>2. CASE s = "in"
    BY <1>0, <1>1, <2>2 DEF ChannelInv, OutInv, Only
  <2>. QED  BY <1>0, <2>1, <2>2
<1>. QED  BY <1>4, <1>5, <1>6 DEF ChannelInv, ExchangeInv

LEMMA DataChannel ==
  ASSUME TypeInv, LockInv, ChannelInv, PlaybackData, ~WriteFails
  PROVE  ChannelInv'
<1>0. Streams = {"out", "in"} /\ "out" \in Streams /\ "in" \in Streams /\ ModemTypes
  BY DEF Streams, TypeInv
<1>1. /\ Only("out") /\ requests' = requests /\ pc["out"] # "reply" /\ pc'["out"] # "reply"
      /\ pc'["in"] = pc["in"] /\ Awaited("in")' = Awaited("in")
  BY <1>0, DataThread, AwaitedKept DEF Only
<1>2. Len(requests) \in Nat /\ blocks \in Nat /\ Len(replies) \in Nat /\ Awaited("in") \in {0, 1}
  BY <1>0, None, AwaitedValues DEF ModemTypes
<1>3. Len(requests) + blocks + Len(replies) = Awaited("out") + Awaited("in")
  BY DEF ChannelInv, Balanced
<1>4. OutInv'
  BY <1>1 DEF ChannelInv, OutInv
<1>5. CASE WriteBlock
  <2>1. blocks' = blocks + 1 /\ replies' = replies /\ Awaited("out") = 0 /\ Awaited("out")' = 1
    BY <1>5, DataThread, AwaitedValues DEF WriteBlock, Awaiting
  <2>2. Balanced'
    BY SMTT(60), <1>1, <1>2, <1>3, <2>1 DEF Balanced
  <2>3. pc'["out"] = "wait"
    BY <1>5, DataThread
  <2>. QED  BY <1>0, <1>1, <1>4, <2>2, <2>3 DEF ChannelInv, ExchangeInv
<1>6. CASE Wait
  <2>1. UNCHANGED <<blocks, replies>> /\ ctrl_lock = "free"
    BY <1>6 DEF Wait, modem
  <2>2. Awaited("out") = 1 /\ Awaited("out")' = 1
    BY <1>6, DataThread, AwaitedValues DEF Awaiting
  <2>3. Balanced'
    BY <1>1, <1>3, <2>1, <2>2 DEF Balanced
  <2>4. pc["in"] # "reply"
    BY <2>1, FreeLock DEF Awaiting
  <2>. QED  BY <1>0, <1>1, <1>4, <2>3, <2>4 DEF ChannelInv, ExchangeInv
<1>7. CASE Received
  <2>1. blocks' = blocks /\ replies # <<>> /\ replies' = Tail(replies)
    BY <1>7 DEF Received
  <2>2. Awaited("out") = 1 /\ Awaited("out")' = 0 /\ pc["out"] = "received"
    BY <1>7, DataThread, AwaitedValues DEF Awaiting
  <2>3. Len(replies') \in Nat /\ Len(replies') + 1 = Len(replies)
    BY <1>0, <2>1, Taken DEF ModemTypes
  <2>4. Balanced'
    BY SMTT(60), <1>1, <1>2, <1>3, <2>1, <2>2, <2>3 DEF Balanced
  <2>5. pc["in"] # "reply"
    BY <1>0, <2>2, OneHolder
  <2>. QED  BY <1>0, <1>1, <1>4, <2>4, <2>5 DEF ChannelInv, ExchangeInv
<1>. QED  BY <1>5, <1>6, <1>7 DEF PlaybackData

LEMMA ModemChannel ==
  ASSUME TypeInv, ChannelInv, ModemCommand \/ ModemBlock
  PROVE  ChannelInv'
<1>0. ModemTypes
  BY DEF TypeInv
<1>1. UNCHANGED <<pc, cmd>>
  BY DEF ModemCommand, ModemBlock
<1>2. /\ Awaited("out")' = Awaited("out") /\ Awaited("in")' = Awaited("in")
      /\ Len(requests) + blocks + Len(replies) = Awaited("out") + Awaited("in")
      /\ Len(requests) \in Nat /\ Len(replies) \in Nat /\ blocks \in Nat
  BY <1>0, <1>1, None DEF Awaited, ChannelInv, Balanced, ModemTypes
<1>3. CASE ModemCommand
  <2>1. PICK r \in Requests : /\ r = Head(requests) /\ requests # <<>>
                              /\ requests' = Tail(requests)
                              /\ replies' = Append(replies, r.cmd) /\ blocks' = blocks
    BY <1>3, ModemCommandStep
  <2>2. /\ Len(requests') \in Nat /\ Len(requests') + 1 = Len(requests)
        /\ \A x \in 1..Len(requests') :
               x + 1 \in 1..Len(requests) /\ requests'[x] = requests[x + 1]
    BY <1>0, <2>1, Taken DEF ModemTypes
  <2>3. r.cmd \in Answers
    BY DEF Requests, Answers
  <2>4. Len(replies') = Len(replies) + 1
    BY <1>0, <2>1, <2>3, Added DEF ModemTypes
  <2>5. Balanced'
    BY SMTT(60), <1>2, <2>1, <2>2, <2>4 DEF Balanced
  <2>6. ASSUME NEW s \in Streams, Alone(s) PROVE Alone(s)'
    <3>1. requests = <<[cmd |-> cmd[s], stream |-> s]>> /\ replies = <<>> /\ blocks = 0
      BY <2>1, <2>6 DEF Alone, OwnRequest, OwnReply
    <3>2. requests' = <<>> /\ r.cmd = cmd[s]
      <4>1. PICK e : e = [cmd |-> cmd[s], stream |-> s]
        OBVIOUS
      <4>2. requests = <<e>>
        BY <3>1, <4>1
      <4>3. requests' = <<>> /\ r = e
        BY <2>1, <4>2, One
      <4>. QED  BY <4>1, <4>3
    <3>3. replies' = <<cmd[s]>>
      BY <2>1, <3>1, <3>2, One
    <3>. QED  BY <1>1, <2>1, <3>1, <3>2, <3>3 DEF Alone, OwnReply
  <2>7. OutInv'
    BY <1>1, <2>2 DEF ChannelInv, OutInv
  <2>. QED  BY <1>1, <2>5, <2>6, <2>7 DEF ChannelInv, ExchangeInv
<1>4. CASE ModemBlock
  <2>1. /\ blocks > 0 /\ blocks' = blocks - 1 /\ requests' = requests
        /\ replies' = Append(replies, "RECEIVE")
    BY <1>4 DEF ModemBlock
  <2>2. "RECEIVE" \in Answers
    BY DEF Answers
  <2>3. Len(replies') = Len(replies) + 1
    BY <1>0, <2>1, <2>2, Added DEF ModemTypes
  <2>4. Balanced'
    BY SMTT(60), <1>2, <2>1, <2>3 DEF Balanced
  <2>5. blocks # 0
    BY SMTT(60), <1>2, <2>1
  <2>6. ExchangeInv'
    BY <1>1, <2>5 DEF ChannelInv, ExchangeInv, Alone
  <2>. QED  BY <1>1, <2>1, <2>4, <2>6 DEF ChannelInv, OutInv
<1>. QED  BY <1>3, <1>4

LEMMA ChannelStep ==
  ASSUME TypeInv, LockInv, ChannelInv, Next, ~WriteFails
  PROVE  ChannelInv'
<1>1. ASSUME NEW s \in Streams, Open(s) \/ Transfer(s) \/ Close(s) \/ SendFails(s)
      PROVE  ChannelInv'
  BY <1>1, CallerThread, ChannelKept DEF modem
<1>2. CASE ReadData
  <2>1. Only("in") /\ pc["in"] = "data" /\ pc'["in"] = "ready" /\ UNCHANGED modem
    BY <1>2, ReadThread
  <2>. QED  BY <2>1, ChannelKept DEF modem, Streams, Idle
<1>3. "out" \in Streams /\ "in" \in Streams
  BY DEF Streams
<1>. QED  BY <1>1, <1>2, <1>3, SendChannel, ReplyChannel, DataChannel, ModemChannel
          DEF Next, Playback, Capture, Step, PlaybackData

-----------------------------------------------------------------------------
(* Playback, while no write fails *)

LEMMA PlayKept ==
  ASSUME PlaybackInv, NEW s \in Streams, s # "out", Only(s), started' = started,
         pc["out"] # "reply" \/ UNCHANGED <<requests, replies>>
  PROVE  PlaybackInv'
<1>1. /\ pc'["out"] = pc["out"] /\ cmd'["out"] = cmd["out"]
      /\ state'["out"] = state["out"] /\ leaked'["out"] = leaked["out"]
  BY DEF Only, Streams
<1>2. StartedInv'
  BY <1>1 DEF PlaybackInv, StartedInv, OwnRequest, OwnReply
<1>. QED  BY <1>1, <1>2 DEF PlaybackInv, PlayInv

LEMMA PlayCalls ==
  ASSUME TypeInv, PlaybackInv, Open("out") \/ Transfer("out") \/ Close("out")
  PROVE  PlaybackInv'
<1>0. "out" \in Streams
  BY DEF Streams
<1>1. CASE Open("out")
  <2>1. pc'["out"] = "send" /\ cmd'["out"] = "OPEN" /\ state'["out"] = 0 /\ leaked' = leaked
    BY <1>0, <1>1, OpenThread
  <2>2. state'["out"] # 1
    BY SMTT(60), <2>1
  <2>. QED  BY <2>1, <2>2 DEF PlaybackInv, PlayInv, StartedInv
<1>2. CASE Transfer("out")
  <2>1. /\ pc["out"] = "ready" /\ leaked' = leaked /\ state'["out"] = 1 /\ started' = started
        /\ \/ pc'["out"] = "send" /\ cmd'["out"] = "START"
           \/ pc'["out"] = "data" /\ state["out"] = 1
    BY <1>0, <1>2, TransferThread DEF modem
  <2>2. state["out"] = 1 => "out" \in started
    BY <2>1 DEF PlaybackInv, StartedInv
  <2>. QED  BY <2>1, <2>2 DEF PlaybackInv, PlayInv, StartedInv
<1>3. CASE Close("out")
  <2>1. /\ pc["out"] = "ready" /\ pc'["out"] = "send" /\ leaked' = leaked /\ started' = started
        /\ cmd'["out"] \in {"STOP", "CLOSE"} /\ state' = state
    BY <1>0, <1>3, CloseThread DEF modem
  <2>2. state["out"] = 1 => "out" \in started
    BY <2>1 DEF PlaybackInv, StartedInv
  <2>. QED  BY <2>1, <2>2 DEF PlaybackInv, PlayInv, StartedInv
<1>. QED  BY <1>1, <1>2, <1>3

LEMMA PlaySend ==
  ASSUME TypeInv, LockInv, ChannelInv, PlaybackInv, Send("out")
  PROVE  PlaybackInv'
<1>0. "out" \in Streams
  BY DEF Streams
<1>1. /\ pc["out"] = "send" /\ pc'["out"] = "reply"
      /\ UNCHANGED <<cmd, state, leaked, replies, started>>
      /\ ctrl_lock = "free"
      /\ requests' = Append(requests, [cmd |-> cmd["out"], stream |-> "out"])
  BY <1>0, SendThread
<1>2. requests = <<>> /\ replies = <<>>
  BY <1>1, FreeLock, Quiet DEF ChannelInv, Awaiting
<1>3. OwnRequest("out")'
  BY <1>1, <1>2, One DEF OwnRequest
<1>4. StartedInv'
  BY <1>1, <1>3 DEF PlaybackInv, StartedInv
<1>. QED  BY <1>1, <1>4 DEF PlaybackInv, PlayInv

LEMMA PlayReply ==
  ASSUME TypeInv, ChannelInv, PlaybackInv, Reply("out")
  PROVE  PlaybackInv'
<1>0. "out" \in Streams
  BY DEF Streams
<1>1. pc["out"] = "reply" /\ replies # <<>> /\ started' = started
  BY <1>0, ReplyThread
<1>2. Alone("out")
  BY <1>0, <1>1 DEF ChannelInv, ExchangeInv
<1>3. Succeeded("out")
  BY <1>0, <1>1, <1>2, AloneMatched DEF Reply
<1>4. /\ leaked' = leaked
      /\ \/ cmd["out"] = "OPEN" /\ pc'["out"] = "ready" /\ state' = state
         \/ cmd["out"] = "START" /\ pc'["out"] = "data" /\ state' = state
         \/ /\ cmd["out"] = "STOP" /\ state'["out"] = 0
            /\ pc'["out"] = "send" /\ cmd'["out"] = "CLOSE"
         \/ cmd["out"] = "CLOSE" /\ pc'["out"] = "closed" /\ state' = state
  BY <1>0, <1>3, SucceededThread DEF TypeInv
<1>5. state["out"] = 1 /\ cmd["out"] # "STOP" => "out" \in started
  BY <1>1 DEF PlaybackInv, StartedInv, OwnRequest
<1>6. 0 # 1
  BY SMTT(60)
<1>7. StartedInv'
  BY <1>1, <1>4, <1>5, <1>6 DEF StartedInv
<1>8. PlayInv'
  BY <1>1, <1>4 DEF PlaybackInv, PlayInv
<1>. QED  BY <1>4, <1>7, <1>8 DEF PlaybackInv

LEMMA PlayData ==
  ASSUME TypeInv, PlaybackInv, PlaybackData
  PROVE  PlaybackInv'
<1>1. /\ pc["out"] \in {"data", "wait", "received"} /\ pc'["out"] \notin {"send", "reply"}
      /\ UNCHANGED <<cmd, state, leaked, started>>
  BY DataThread
<1>2. state["out"] = 1 /\ "out" \in started
  BY <1>1 DEF PlaybackInv, PlayInv, StartedInv
<1>. QED  BY <1>1, <1>2 DEF PlaybackInv, PlayInv, StartedInv

LEMMA PlayModem ==
  ASSUME TypeInv, ChannelInv, PlaybackInv, ModemCommand \/ ModemBlock
  PROVE  PlaybackInv'
<1>0. "out" \in Streams
  BY DEF Streams
<1>1. UNCHANGED <<pc, cmd, state, leaked>>
  BY DEF ModemCommand, ModemBlock
<1>2. CASE pc["out"] = "reply"
  <2>1. Alone("out") /\ Alone("out")'
    BY <1>0, <1>1, <1>2, ModemChannel DEF ChannelInv, ExchangeInv
  <2>2. ~ModemBlock
    <3>1. blocks = 0
      BY <2>1 DEF Alone
    <3>2. ~(blocks > 0)
      BY SMTT(60), <3>1
    <3>. QED  BY <3>2 DEF ModemBlock
  <2>3. PICK r \in Requests : /\ r = Head(requests) /\ requests # <<>>
                              /\ requests' = Tail(requests)
                              /\ r.cmd = "START" => started' = started \cup {r.stream}
                              /\ r.cmd # "STOP" => started \subseteq started'
    BY <2>2, ModemCommandStep
  <2>4. PICK e : e = [cmd |-> cmd["out"], stream |-> "out"]
    OBVIOUS
  <2>5. requests = <<e>>
    BY <2>1, <2>3, <2>4 DEF Alone, OwnRequest, OwnReply
  <2>6. r = e /\ requests' = <<>>
    BY <2>3, <2>5, One
  <2>7. /\ cmd["out"] = "START" => "out" \in started'
        /\ cmd["out"] # "STOP" => started \subseteq started'
    <3>1. r.cmd = cmd["out"] /\ r.stream = "out"
      BY <2>4, <2>6
    <3>. QED  BY <2>3, <3>1
  <2>8. OwnReply("out")'
    BY <2>1, <2>6, One DEF Alone, OwnRequest
  <2>9. StartedInv'
    BY <1>1, <1>2, <2>7, <2>8 DEF PlaybackInv, StartedInv
  <2>. QED  BY <1>1, <2>9 DEF PlaybackInv, PlayInv
<1>3. CASE pc["out"] # "reply"
  <2>1. "out" \in started => "out" \in started'
    <3>1. CASE ModemCommand
      <4>1. Head(requests) = requests[1] /\ 1 \in 1..Len(requests)
        BY <3>1, ModemCommandStep, Taken DEF TypeInv, ModemTypes
      <4>2. Head(requests).stream = "in"
        BY <1>3, <4>1 DEF ChannelInv, OutInv
      <4>. QED  BY <3>1, <4>2, ModemCommandStep
    <3>2. CASE ModemBlock
      BY <3>2 DEF ModemBlock
    <3>. QED  BY <3>1, <3>2
  <2>2. StartedInv'
    BY <1>1, <1>3, <2>1 DEF PlaybackInv, StartedInv
  <2>. QED  BY <1>1, <2>2 DEF PlaybackInv, PlayInv
<1>. QED  BY <1>2, <1>3

LEMMA PlaybackStep ==
  ASSUME TypeInv, LockInv, ChannelInv, PlaybackInv, Next, Unfailed'
  PROVE  PlaybackInv'
<1>0. Streams = {"out", "in"} /\ "out" \in Streams /\ "in" \in Streams
  BY DEF Streams
<1>1. ~WriteFails /\ \A s \in Streams : ~SendFails(s)
  BY FaultCounts DEF WriteFails, SendFails
<1>2. CASE Open("in") \/ Transfer("in") \/ Close("in")
  BY <1>0, <1>2, CallerThread, PlayKept DEF modem
<1>3. CASE ReadData
  BY <1>0, <1>3, ReadThread, PlayKept DEF modem
<1>4. CASE Send("in")
  <2>1. Only("in") /\ started' = started /\ ctrl_lock = "free"
    BY <1>0, <1>4, SendThread
  <2>. QED  BY <1>0, <2>1, FreeLock, PlayKept
<1>5. CASE Reply("in")
  <2>1. Only("in") /\ started' = started /\ pc["in"] = "reply"
    BY <1>0, <1>5, ReplyThread
  <2>. QED  BY <1>0, <2>1, OneHolder, PlayKept
<1>. QED  BY <1>0, <1>1, <1>2, <1>3, <1>4, <1>5, PlayCalls, PlaySend, PlayReply,
             PlayData, PlayModem
          DEF Next, Playback, Capture, Step, PlaybackData

-----------------------------------------------------------------------------
(* The theorems *)

LEMMA MuxInvInit ==
  ASSUME Init
  PROVE  MuxInv
<1>1. /\ pc = [s \in Streams |-> "closed"] /\ cmd = [s \in Streams |-> "NONE"]
      /\ state = [s \in Streams |-> 0] /\ leaked = [s \in Streams |-> 0] /\ ctrl_lock = "free"
      /\ requests = <<>> /\ blocks = 0 /\ replies = <<>> /\ started = {}
      /\ faults = [send |-> 0, data |-> 0]
  BY DEF Init
<1>2. /\ "out" \in Streams /\ "in" \in Streams /\ "free" \notin Streams /\ "closed" \in Places
      /\ 0 \in Nat /\ 0 # 1
  BY SMTT(60) DEF Streams, Places
<1>3. ThreadTypes /\ \A s \in Streams : pc[s] = "closed" /\ state[s] = 0 /\ leaked[s] = 0
  BY <1>1, <1>2 DEF ThreadTypes
<1>4. ModemTypes
  <2>1. requests \in Seq(Requests) /\ replies \in Seq(Answers)
    BY SMTT(60), <1>1
  <2>. QED  BY <1>1, <1>2, <2>1 DEF ModemTypes
<1>5. TypeInv /\ LockInv
  BY <1>1, <1>2, <1>3, <1>4 DEF TypeInv, LockInv
<1>6. Balanced
  <2>1. Awaited("out") = 0 /\ Awaited("in") = 0 /\ Len(requests) = 0 /\ Len(replies) = 0
    BY <1>1, <1>2, <1>3, One DEF Awaited
  <2>. QED  BY SMTT(60), <1>1, <2>1 DEF Balanced
<1>7. ExchangeInv /\ OutInv
  <2>1. 1..Len(requests) = {}
    BY SMTT(60), <1>1, One
  <2>. QED  BY <1>3, <2>1 DEF ExchangeInv, OutInv
<1>8. PlaybackInv
  BY <1>2, <1>3 DEF PlaybackInv, PlayInv, StartedInv
<1>. QED  BY <1>5, <1>6, <1>7, <1>8 DEF MuxInv, ChannelInv

LEMMA FaultsStep ==
  ASSUME TypeInv, Next
  PROVE  /\ faults'.data = 0 => faults.data = 0 /\ ~WriteFails
         /\ Unfailed' => Unfailed
         /\ Unfailed => faults.data = 0
<1>1. \/ faults' = faults /\ ~WriteFails
      \/ Fault("data")
      \/ Fault("send") /\ ~WriteFails
  <2>1. CASE WriteFails
    BY <2>1 DEF WriteFails
  <2>2. CASE \E s \in Streams : SendFails(s)
    BY <2>2 DEF SendFails, WriteFails
  <2>3. CASE ~WriteFails /\ ~\E s \in Streams : SendFails(s)
    BY <2>3 DEF Next, Playback, Capture, Step, Open, Transfer, Close, Send, Reply, WriteBlock,
                Wait, Received, ReadData, ModemCommand, ModemBlock
  <2>. QED  BY <2>1, <2>2, <2>3
<1>2. faults.send \in Nat /\ faults.data \in Nat
  BY DEF TypeInv, ModemTypes
<1>3. Unfailed => faults.data = 0
  BY SMTT(60), <1>2 DEF Unfailed
<1>4. CASE faults' = faults /\ ~WriteFails
  BY <1>3, <1>4 DEF Unfailed
<1>5. CASE Fault("data")
  BY <1>3, <1>5, FaultCounts
<1>6. CASE Fault("send") /\ ~WriteFails
  BY <1>3, <1>6, FaultCounts
<1>. QED  BY <1>1, <1>4, <1>5, <1>6

LEMMA MuxStep ==
  ASSUME MuxInv, [Next]_vars
  PROVE  MuxInv'
<1>1. CASE Next
  <2>1. TypeInv' /\ LockInv'
    BY <1>1, TypeStep, LockStep DEF MuxInv
  <2>2. faults'.data = 0 => ChannelInv'
    BY <1>1, FaultsStep, ChannelStep DEF MuxInv
  <2>3. Unfailed' => PlaybackInv'
    BY <1>1, FaultsStep, PlaybackStep DEF MuxInv
  <2>. QED  BY <2>1, <2>2, <2>3 DEF MuxInv
<1>2. CASE UNCHANGED vars
  BY <1>2 DEF vars, modem, MuxInv, TypeInv, ThreadTypes, ModemTypes, LockInv, ChannelInv,
              Balanced, Awaited, ExchangeInv, Alone, OwnRequest, OwnReply, OutInv, Unfailed,
              PlaybackInv, PlayInv, StartedInv
<1>. QED  BY <1>1, <1>2

LEMMA MuxInvariance == Spec => []MuxInv
<1>. QED  BY MuxInvInit, MuxStep, PTL DEF Spec

\* The threads' and the channel's state keeps its types.
THEOREM MuxTypes == Spec => []TypeInv
<1>1. MuxInv => TypeInv
  BY DEF MuxInv
<1>. QED  BY <1>1, MuxInvariance, PTL

\* However the replies of playback's blocks and of the commands are mixed up, the channel
\* stays in step (saudio_send_common_cmd, saudio_wait_common_cmd); playback writes to a
\* modem that has started it and is closed whole (mux_pcm_write, mux_pcm_close).
THEOREM AlwaysChannelSound == Spec => []ChannelSound
<1>1. MuxInv => InStep
  BY DEF MuxInv, InStep, ChannelInv, Balanced
<1>2. MuxInv => StartedFirst
  BY DEF MuxInv, StartedFirst, PlaybackInv, PlayInv, StartedInv
<1>3. MuxInv => PlaybackCloses
  BY DEF MuxInv, PlaybackCloses, PlaybackInv
<1>4. MuxInv => ChannelSound
  BY <1>1, <1>2, <1>3 DEF ChannelSound
<1>. QED  BY <1>4, MuxInvariance, PTL

\* Only a command of capture, and only while playback waits for a block's reply, is
\* answered with another's reply, as long as every block could be written
\* (saudio_send_common_cmd).
THEOREM AlwaysMixedOnlyInPlay == Spec => MixedOnlyInPlay
<1>1. ASSUME MuxInv, NEW s \in Streams, faults.data = 0, Reply(s), ~Matched(s)
      PROVE  s = "in" /\ pc["out"] = "wait"
  <2>1. pc[s] = "reply" /\ replies # <<>>
    BY <1>1 DEF Reply
  <2>2. ~Alone(s)
    BY <1>1, <2>1, AloneMatched
  <2>3. ExchangeInv
    BY <1>1 DEF MuxInv, ChannelInv
  <2>. QED  BY <2>1, <2>2, <2>3 DEF ExchangeInv, Streams
<1>2. MuxInv => [\A s \in Streams : faults.data = 0 /\ Reply(s) /\ ~Matched(s) =>
                                       s = "in" /\ pc["out"] = "wait"]_vars
  BY <1>1
<1>. QED  BY <1>2, MuxInvariance, PTL DEF MixedOnlyInPlay
=============================================================================
