----------------------------- MODULE AudioRoute -----------------------------
(***************************************************************************)
(* The routing manager of the audio HAL (common/libs/audio/audio_hw.c).    *)
(* The streams write adev->out_devices and adev->in_devices and raise      *)
(* device_switch; the routing thread compares the fields with the previous *)
(* ones and programs the mixer, first the devices to turn on, then those   *)
(* to turn off, one dev_cfgs entry at a time.  The flag is handled under   *)
(* device_switch_mutex and a condition variable, the two device fields     *)
(* under adev->lock only, which the routing thread never takes.            *)
(***************************************************************************)
EXTENDS Integers, Sequences

CONSTANTS dev_cfgs,     \* the configured devices, in the order of the loops
          Outs, Ins     \* which of them are outputs and inputs

ASSUME RouteAssumption ==
    /\ dev_cfgs \in Seq(Outs \cup Ins)
    /\ Outs \cap Ins = {} /\ Outs # {}
    /\ \A d \in Outs \cup Ins : \E k \in DOMAIN dev_cfgs : dev_cfgs[k] = d

VARIABLES out_devices, in_devices, prev_devices,
          on,             \* the devices the mixer has on
          device_switch, mutex,       \* mutex: device_switch_mutex
          adev_lock,      \* held by a stream until its signal is out
          rt, i,          \* the routing thread's place and loop index
          wt,             \* the place of each stream's thread
          in_call, in_voip,           \* adev->call_start, and voip_state is not 0
          owed, raced     \* history: see the properties
routeVars == <<out_devices, in_devices, prev_devices, on, device_switch, mutex,
               adev_lock, rt, i, wt, in_call, in_voip, owed, raced>>

Selectors == {"out", "in"}    \* the streams, which select devices
Passing == rt \in {"on", "off"}
devices == <<out_devices, in_devices>>

\* The first selection (adev_open selects one output) is already signalled.
RouteInit ==
    /\ out_devices \in {{d} : d \in Outs} /\ in_devices = {}
    /\ prev_devices = <<{}, {}>> /\ on = {}
    /\ device_switch = TRUE /\ mutex = "free" /\ adev_lock = "free"
    /\ rt = "lock" /\ i = 1 /\ wt = [s \in Selectors |-> "idle"]
    /\ in_call = FALSE /\ in_voip = FALSE
    /\ owed = FALSE /\ raced = FALSE

-----------------------------------------------------------------------------
(* The streams *)

\* select_devices_signal is called next (signalled), or the caller returns.
Selected(s, signalled, locked) ==
    /\ wt' = [wt EXCEPT ![s] = IF signalled THEN "signal" ELSE "idle"]
    /\ adev_lock' = IF signalled /\ locked THEN s ELSE adev_lock
    /\ owed' = ~signalled
    /\ raced' = (raced \/ Passing)
    /\ UNCHANGED <<prev_devices, on, device_switch, mutex, rt, i, in_call,
                   in_voip>>

\* out_set_parameters, for the routing key with a new device; start_output_stream
\* outside a call does the same, and signals even when the device is the same.
SelectOutput(d) ==
    /\ wt["out"] = "idle" /\ adev_lock = "free"
    /\ out_devices' = {d} /\ UNCHANGED in_devices
    /\ Selected("out", ~in_call /\ ~in_voip, TRUE)

\* start_input_stream outside a call, and in_set_parameters with a new device.
SelectInput(d) ==
    /\ wt["in"] = "idle" /\ adev_lock = "free" /\ ~in_call
    /\ in_devices' = {d} /\ UNCHANGED out_devices
    /\ Selected("in", TRUE, TRUE)

\* do_input_standby: under adev->lock from in_standby, without it from in_read.
StandbyInput(locked) ==
    /\ wt["in"] = "idle" /\ (locked => adev_lock = "free")
    /\ in_devices # {}
    /\ in_devices' = {} /\ UNCHANGED out_devices
    /\ Selected("in", TRUE, locked)

Release(s) == IF adev_lock = s THEN "free" ELSE adev_lock

\* A wait that the routing thread may be in ends with the signal.
Woken == IF rt = "wait" THEN "woken" ELSE rt

UnguardedSignal(s) ==
    /\ wt[s] = "signal"
    /\ device_switch' = TRUE /\ rt' = Woken
    /\ wt' = [wt EXCEPT ![s] = "idle"] /\ adev_lock' = Release(s)
    /\ UNCHANGED <<out_devices, in_devices, prev_devices, on, mutex, i,
                   in_call, in_voip, owed, raced>>

select_devices_signal(s) ==
    /\ wt[s] = "signal" /\ mutex = "free"
    /\ device_switch' = TRUE /\ rt' = Woken
    /\ wt' = [wt EXCEPT ![s] = "idle"] /\ adev_lock' = Release(s)
    /\ UNCHANGED <<out_devices, in_devices, prev_devices, on, mutex, i,
                   in_call, in_voip, owed, raced>>

\* A call or a VoIP session begins or ends, under adev->lock.
Session ==
    /\ adev_lock = "free"
    /\ \/ in_call' = ~in_call /\ UNCHANGED in_voip
       \/ in_voip' = ~in_voip /\ UNCHANGED in_call
    /\ UNCHANGED <<out_devices, in_devices, prev_devices, on, device_switch,
                   mutex, adev_lock, rt, i, wt, owed, raced>>

-----------------------------------------------------------------------------
(* stream_routing_thread_entry *)

RouteRest == UNCHANGED <<out_devices, in_devices, adev_lock, wt, in_call, in_voip>>

RouteLock ==
    /\ rt = "lock" /\ mutex = "free"
    /\ rt' = IF device_switch THEN "select" ELSE "wait"
    /\ mutex' = IF device_switch THEN "route" ELSE "free"
    /\ UNCHANGED <<prev_devices, on, device_switch, i, owed, raced>> /\ RouteRest

\* pthread_cond_wait returns: signalled, or spuriously; it needs the mutex.
WakeUp ==
    /\ rt \in {"wait", "woken"} /\ mutex = "free" /\ rt' = "lock"
    /\ UNCHANGED <<prev_devices, on, device_switch, mutex, i, owed, raced>> /\ RouteRest

Finish == device_switch' = FALSE /\ mutex' = "free" /\ rt' = "lock" /\ i' = 1

\* do_select_devices up to its loops.
Compare ==
    /\ rt = "select"
    /\ IF in_voip \/ prev_devices = devices
       THEN /\ Finish /\ owed' = (owed \/ in_voip)
            /\ UNCHANGED <<prev_devices, raced>>
       ELSE /\ prev_devices' = devices /\ rt' = "on" /\ raced' = FALSE
            /\ UNCHANGED <<device_switch, mutex, i, owed>>
    /\ UNCHANGED on /\ RouteRest

Selects(d) == d \in out_devices \cup in_devices

NextCfg == IF i < Len(dev_cfgs) THEN i + 1 ELSE 1

\* One turn of the loop that turns the selected devices on.
TurnOn ==
    /\ rt = "on"
    /\ on' = on \cup {d \in {dev_cfgs[i]} : Selects(d)}
    /\ i' = NextCfg
    /\ rt' = IF NextCfg = 1 THEN "off" ELSE "on"
    /\ UNCHANGED <<prev_devices, device_switch, mutex, owed, raced>> /\ RouteRest

\* One turn of the loop that turns the others off; the last one ends the pass.
TurnOffFromSecond ==
    /\ rt = "off"
    /\ on' = {d \in on : d # dev_cfgs[i] \/ Selects(d) \/ i = 1}
    /\ IF NextCfg = 1
       THEN Finish
       ELSE i' = NextCfg /\ UNCHANGED <<device_switch, mutex, rt>>
    /\ UNCHANGED <<prev_devices, owed, raced>> /\ RouteRest

TurnOff ==
    /\ rt = "off"
    /\ on' = {d \in on : d # dev_cfgs[i] \/ Selects(d)}
    /\ IF NextCfg = 1
       THEN Finish
       ELSE i' = NextCfg /\ UNCHANGED <<device_switch, mutex, rt>>
    /\ UNCHANGED <<prev_devices, owed, raced>> /\ RouteRest

RoutingThread == RouteLock \/ WakeUp \/ Compare \/ TurnOn \/ TurnOff

RouteNext ==
    \/ \E d \in Outs : SelectOutput(d)
    \/ \E d \in Ins : SelectInput(d)
    \/ \E locked \in BOOLEAN : StandbyInput(locked)
    \/ \E s \in Selectors : select_devices_signal(s)
    \/ Session
    \/ RoutingThread

RouteSpec == RouteInit /\ [][RouteNext]_routeVars

-----------------------------------------------------------------------------
(* Properties *)

TypeOK ==
    /\ out_devices \in SUBSET Outs /\ in_devices \in SUBSET Ins
    /\ prev_devices \in (SUBSET Outs) \X (SUBSET Ins) /\ on \in SUBSET (Outs \cup Ins)
    /\ device_switch \in BOOLEAN /\ mutex \in {"free", "route"}
    /\ adev_lock \in Selectors \cup {"free"}
    /\ rt \in {"lock", "wait", "woken", "select", "on", "off"}
    /\ i \in 1..Len(dev_cfgs) /\ wt \in [Selectors -> {"idle", "signal"}]
    /\ {in_call, in_voip, owed, raced} \subseteq BOOLEAN

\* Nothing is under way: no request raised or about to be raised, no pass.
Quiet == ~device_switch /\ mutex = "free" /\ \A s \in Selectors : wt[s] = "idle"

\* No device change is lost between the streams and the routing thread: when
\* nothing is under way, the last pass of do_select_devices compared the mixer
\* with the devices selected now.  (owed: the last change was not signalled, or
\* its pass was skipped, because a call or a VoIP session owns the routes.)
NoLostChange == Quiet /\ ~owed => prev_devices = devices

\* do_select_devices leaves exactly the selected devices on, unless a stream
\* wrote a device field while the pass was in its loops (raced).
RoutedUnlessRaced == Quiet /\ ~owed /\ ~raced => on = out_devices \cup in_devices
=============================================================================
