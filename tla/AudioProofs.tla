----------------------------- MODULE AudioProofs -----------------------------
(***************************************************************************)
(* The safety properties of the audio HAL.                                 *)
(*                                                                         *)
(* First the routing manager (AudioRoute): it loses no device change, and  *)
(* a pass that no stream disturbs leaves exactly the selected devices on,  *)
(* for any table dev_cfgs of any length and any outputs and inputs.        *)
(*                                                                         *)
(* Then the streams and the calls (AudioHw), for any number of modems:     *)
(*   MediaInv   who holds which mutex, and what a thread that opens or     *)
(*              ends a call has closed: NoMediaInCall;                     *)
(*   VoipInv    a stream's place, its flag in voip_state, is_sco and the   *)
(*              modem PCMs agree while no PCM has failed: VoipTracked;     *)
(*   CallInv, OutInv   the modem's protocol agrees with call_start and the *)
(*              output's PCM with call_connected: WritesOpenPcm, for one   *)
(*              modem.                                                     *)
(***************************************************************************)
EXTENDS AudioRoute, AudioHw, TLAPS

USE ZenonT(60)

-----------------------------------------------------------------------------
(* The routing manager *)

\* device_switch_mutex is the routing thread's from the test of device_switch to
\* the end of the pass, and the flag stays raised as long.
MutexInv ==
    /\ mutex = "route" <=> rt \in {"select", "on", "off"}
    /\ mutex = "route" => device_switch

\* A change that no pass has compared yet is still going to be: its stream has
\* yet to raise the flag, or the flag is raised and the pass has not begun.
Signalling == \E s \in Selectors : wt[s] = "signal"
ChangeInv ==
    prev_devices # devices /\ ~owed => Signalling \/ (device_switch /\ ~Passing)

\* How far a pass without a race has come.
Chosen == out_devices \cup in_devices
OnSoFar == \A k \in 1..(i - 1) : dev_cfgs[k] \in Chosen => dev_cfgs[k] \in on
OffSoFar == \A k \in 1..(i - 1) : dev_cfgs[k] \in on => dev_cfgs[k] \in Chosen
MixerInv ==
    /\ ~Passing => i = 1
    /\ ~raced =>
          /\ Passing => prev_devices = devices
          /\ rt = "on" => OnSoFar
          /\ rt = "off" => Chosen \subseteq on /\ OffSoFar
          /\ ~Passing => on = prev_devices[1] \cup prev_devices[2]

RouteInv == TypeOK /\ MutexInv /\ ChangeInv /\ MixerInv

-----------------------------------------------------------------------------
\* The table of devices is not empty, and its entries are devices.
LEMMA Table ==
    /\ Len(dev_cfgs) \in Nat \ {0}
    /\ \A k \in 1..Len(dev_cfgs) : dev_cfgs[k] \in Outs \cup Ins
    /\ \A d \in Outs \cup Ins : \E k \in 1..Len(dev_cfgs) : dev_cfgs[k] = d
<1>1. /\ dev_cfgs \in Seq(Outs \cup Ins) /\ Outs # {}
      /\ \A d \in Outs \cup Ins : \E k \in DOMAIN dev_cfgs : dev_cfgs[k] = d
  BY RouteAssumption
<1>2. DOMAIN dev_cfgs = 1..Len(dev_cfgs) /\ Len(dev_cfgs) \in Nat
  BY SMTT(60), <1>1
<1>3. \A k \in 1..Len(dev_cfgs) : dev_cfgs[k] \in Outs \cup Ins
  BY SMTT(60), <1>1, <1>2
<1>4. PICK d \in Outs : TRUE
  BY <1>1
<1>5. PICK k \in 1..Len(dev_cfgs) : dev_cfgs[k] = d
  BY <1>1, <1>2
<1>6. Len(dev_cfgs) # 0
  BY SMTT(60), <1>2, <1>5
<1>. QED  BY <1>1, <1>2, <1>3, <1>6

LEMMA NextCfgType ==
    ASSUME i \in 1..Len(dev_cfgs)
    PROVE  NextCfg \in 1..Len(dev_cfgs)
BY SMTT(60), Table DEF NextCfg

LEMMA InitInv == RouteInit => RouteInv
<1>. SUFFICES ASSUME RouteInit PROVE RouteInv
  OBVIOUS
<1>1. PICK d \in Outs : out_devices = {d}
  BY DEF RouteInit
<1>2. TypeOK
  <2>1. {in_call, in_voip, owed, raced} \subseteq BOOLEAN /\ device_switch \in BOOLEAN
    BY DEF RouteInit
  <2>2. wt \in [Selectors -> {"idle", "signal"}]
    BY DEF RouteInit
  <2>3. i \in 1..Len(dev_cfgs)
    BY SMTT(60), Table DEF RouteInit
  <2>4. prev_devices \in (SUBSET Outs) \X (SUBSET Ins)
    BY DEF RouteInit
  <2>. QED  BY <1>1, <2>1, <2>2, <2>3, <2>4 DEF RouteInit, TypeOK
<1>3. MutexInv /\ ChangeInv
  BY DEF RouteInit, MutexInv, ChangeInv, Passing
<1>4. MixerInv
  BY DEF RouteInit, MixerInv, Passing
<1>. QED  BY <1>2, <1>3, <1>4 DEF RouteInv

-----------------------------------------------------------------------------
(* The streams *)

\* A write of a device field: what Selected does, with the new fields.
LEMMA SelectedInv ==
    ASSUME RouteInv, NEW s \in Selectors, NEW signalled \in BOOLEAN,
           NEW locked \in BOOLEAN, Selected(s, signalled, locked),
           out_devices' \in SUBSET Outs, in_devices' \in SUBSET Ins
    PROVE  RouteInv'
<1>0. TypeOK /\ MutexInv /\ ChangeInv /\ MixerInv
  BY DEF RouteInv
<1>1. TypeOK'
  <2>1. wt' \in [Selectors -> {"idle", "signal"}]
    BY <1>0 DEF TypeOK, Selected
  <2>2. adev_lock' \in Selectors \cup {"free"}
    BY <1>0 DEF TypeOK, Selected
  <2>3. {in_call', in_voip', owed', raced'} \subseteq BOOLEAN
    BY <1>0 DEF TypeOK, Selected, Passing
  <2>. QED  BY <1>0, <2>1, <2>2, <2>3 DEF TypeOK, Selected
<1>2. MutexInv'
  BY <1>0 DEF MutexInv, Selected
<1>3. ChangeInv'
  <2>1. CASE signalled
    <3>1. wt'[s] = "signal"
      BY <1>0, <2>1 DEF TypeOK, Selected
    <3>. QED  BY <3>1 DEF ChangeInv, Signalling
  <2>2. CASE ~signalled
    BY <2>2 DEF ChangeInv, Selected
  <2>. QED  BY <2>1, <2>2
<1>4. MixerInv'
  BY <1>0 DEF MixerInv, Selected, Passing
<1>. QED  BY <1>1, <1>2, <1>3, <1>4 DEF RouteInv

LEMMA StreamsInv ==
    ASSUME RouteInv,
           \/ \E d \in Outs : SelectOutput(d)
           \/ \E d \in Ins : SelectInput(d)
           \/ \E locked \in BOOLEAN : StandbyInput(locked)
    PROVE  RouteInv'
<1>0. TypeOK
  BY DEF RouteInv
<1>1. CASE \E d \in Outs : SelectOutput(d)
  <2>1. PICK d \in Outs : SelectOutput(d)
    BY <1>1
  <2>2. (~in_call /\ ~in_voip) \in BOOLEAN /\ "out" \in Selectors /\ TRUE \in BOOLEAN
    BY DEF Selectors
  <2>3. Selected("out", ~in_call /\ ~in_voip, TRUE)
        /\ out_devices' \in SUBSET Outs /\ in_devices' \in SUBSET Ins
    BY <1>0, <2>1 DEF SelectOutput, TypeOK
  <2>. QED  BY <2>2, <2>3, SelectedInv
<1>2. CASE \E d \in Ins : SelectInput(d)
  <2>1. PICK d \in Ins : SelectInput(d)
    BY <1>2
  <2>2. "in" \in Selectors /\ TRUE \in BOOLEAN
    BY DEF Selectors
  <2>3. Selected("in", TRUE, TRUE)
        /\ out_devices' \in SUBSET Outs /\ in_devices' \in SUBSET Ins
    BY <1>0, <2>1 DEF SelectInput, TypeOK
  <2>. QED  BY <2>2, <2>3, SelectedInv
<1>3. CASE \E locked \in BOOLEAN : StandbyInput(locked)
  <2>1. PICK locked \in BOOLEAN : StandbyInput(locked)
    BY <1>3
  <2>2. "in" \in Selectors /\ TRUE \in BOOLEAN
    BY DEF Selectors
  <2>3. Selected("in", TRUE, locked)
        /\ out_devices' \in SUBSET Outs /\ in_devices' \in SUBSET Ins
    BY <1>0, <2>1 DEF StandbyInput, TypeOK
  <2>. QED  BY <2>1, <2>2, <2>3, SelectedInv
<1>. QED  BY <1>1, <1>2, <1>3

LEMMA SignalInv ==
    ASSUME RouteInv, NEW s \in Selectors, select_devices_signal(s)
    PROVE  RouteInv'
<1>0. TypeOK /\ MutexInv /\ ChangeInv /\ MixerInv
  BY DEF RouteInv
<1>1. rt \notin {"select", "on", "off"} /\ rt' \notin {"select", "on", "off"}
  BY <1>0 DEF MutexInv, select_devices_signal, Woken
<1>2. TypeOK'
  <2>1. wt' \in [Selectors -> {"idle", "signal"}]
    BY <1>0 DEF TypeOK, select_devices_signal
  <2>2. adev_lock' \in Selectors \cup {"free"}
    BY <1>0 DEF TypeOK, select_devices_signal, Release
  <2>3. rt' \in {"lock", "wait", "woken", "select", "on", "off"}
    BY <1>0 DEF TypeOK, select_devices_signal, Woken
  <2>. QED  BY <1>0, <2>1, <2>2, <2>3 DEF TypeOK, select_devices_signal
<1>3. MutexInv'
  BY <1>0, <1>1 DEF MutexInv, select_devices_signal
<1>4. ChangeInv'
  BY <1>0, <1>1 DEF ChangeInv, select_devices_signal, Passing
<1>5. MixerInv'
  BY <1>0, <1>1 DEF MixerInv, select_devices_signal, Passing, devices
<1>. QED  BY <1>2, <1>3, <1>4, <1>5 DEF RouteInv

LEMMA SessionInv == ASSUME RouteInv, Session PROVE RouteInv'
<1>0. TypeOK /\ MutexInv /\ ChangeInv /\ MixerInv
  BY DEF RouteInv
<1>1. TypeOK'
  <2>1. {in_call', in_voip', owed', raced'} \subseteq BOOLEAN
    BY <1>0 DEF TypeOK, Session
  <2>. QED  BY <1>0, <2>1 DEF TypeOK, Session
<1>2. MutexInv' /\ ChangeInv'
  BY <1>0 DEF MutexInv, ChangeInv, Signalling, Passing, devices, Session
<1>3. MixerInv'
  BY <1>0 DEF MixerInv, Passing, devices, Chosen, OnSoFar, OffSoFar, Session
<1>. QED  BY <1>1, <1>2, <1>3 DEF RouteInv

-----------------------------------------------------------------------------
(* The routing thread *)

\* A step of the thread that is neither a pass nor the start of one.
LEMMA WaitingInv == ASSUME RouteInv, RouteLock \/ WakeUp PROVE RouteInv'
<1>0. TypeOK /\ MutexInv /\ ChangeInv /\ MixerInv
  BY DEF RouteInv
<1>1. ~Passing /\ ~Passing'
  BY DEF RouteLock, WakeUp, Passing
<1>2. TypeOK'
  BY <1>0 DEF TypeOK, RouteLock, WakeUp, RouteRest
<1>3. MutexInv'
  BY SMTT(60), <1>0 DEF MutexInv, RouteLock, WakeUp
<1>4. ChangeInv'
  BY <1>0, <1>1 DEF ChangeInv, Signalling, devices, RouteLock, WakeUp, RouteRest
<1>5. MixerInv'
  <2>1. rt' \notin {"on", "off"}
    BY <1>1 DEF Passing
  <2>. QED  BY <1>0, <1>1, <2>1 DEF MixerInv, RouteLock, WakeUp, RouteRest
<1>. QED  BY <1>2, <1>3, <1>4, <1>5 DEF RouteInv

LEMMA CompareInv == ASSUME RouteInv, Compare PROVE RouteInv'
<1>0. TypeOK /\ MutexInv /\ ChangeInv /\ MixerInv
  BY DEF RouteInv
<1>1. rt = "select" /\ ~Passing /\ i = 1 /\ mutex = "route" /\ device_switch
  BY <1>0 DEF Compare, Passing, MixerInv, MutexInv
<1>r. on' = on /\ RouteRest
  BY DEF Compare
<1>2. CASE in_voip \/ prev_devices = devices
  <2>1. Finish /\ owed' = (owed \/ in_voip) /\ UNCHANGED <<prev_devices, raced>>
    BY <1>2 DEF Compare
  <2>2. TypeOK'
    <3>1. {in_call', in_voip', owed', raced'} \subseteq BOOLEAN
      BY <1>0, <1>r, <2>1 DEF TypeOK, RouteRest
    <3>2. i' \in 1..Len(dev_cfgs)
      BY SMTT(60), <2>1, Table DEF Finish
    <3>. QED  BY <1>0, <1>r, <2>1, <3>1, <3>2 DEF TypeOK, Finish, RouteRest
  <2>3. MutexInv'
    BY <2>1 DEF MutexInv, Finish
  <2>4. ChangeInv'
    BY <1>2, <1>r, <2>1 DEF ChangeInv, RouteRest, devices
  <2>5. MixerInv'
    BY <1>0, <1>1, <1>r, <2>1 DEF MixerInv, Finish, Passing
  <2>. QED  BY <2>2, <2>3, <2>4, <2>5 DEF RouteInv
<1>3. CASE ~(in_voip \/ prev_devices = devices)
  <2>1. /\ prev_devices' = devices /\ rt' = "on" /\ raced' = FALSE
        /\ UNCHANGED <<device_switch, mutex, i, owed>>
    BY <1>3 DEF Compare
  <2>2. TypeOK'
    <3>1. {in_call', in_voip', owed', raced'} \subseteq BOOLEAN
      BY <1>0, <1>r, <2>1 DEF TypeOK, RouteRest
    <3>2. prev_devices' \in (SUBSET Outs) \X (SUBSET Ins)
      BY <1>0, <2>1 DEF TypeOK, devices
    <3>. QED  BY <1>0, <1>r, <2>1, <3>1, <3>2 DEF TypeOK, RouteRest
  <2>3. MutexInv'
    BY <1>1, <2>1 DEF MutexInv
  <2>4. devices' = prev_devices'
    BY <1>r, <2>1 DEF devices, RouteRest
  <2>5. ChangeInv'
    BY <2>4 DEF ChangeInv
  <2>6. OnSoFar'
    BY SMTT(60), <1>1, <2>1 DEF OnSoFar
  <2>7. MixerInv'
    BY <2>1, <2>4, <2>6 DEF MixerInv, Passing
  <2>. QED  BY <2>2, <2>3, <2>5, <2>7 DEF RouteInv
<1>. QED  BY <1>2, <1>3

\* A turn of the loop that turns devices on keeps the ones turned on so far on;
\* after the last turn every selected device is on.
LEMMA TurnOnInv == ASSUME RouteInv, TurnOn PROVE RouteInv'
<1>0. TypeOK /\ MutexInv /\ ChangeInv /\ MixerInv
  BY DEF RouteInv
<1>1. /\ rt = "on" /\ rt' \in {"on", "off"}
      /\ on' = on \cup {d \in {dev_cfgs[i]} : d \in Chosen}
      /\ i' = NextCfg /\ rt' = IF NextCfg = 1 THEN "off" ELSE "on"
      /\ UNCHANGED <<prev_devices, device_switch, mutex, owed, raced>>
      /\ RouteRest
  BY DEF TurnOn, Selects, Chosen
<1>2. i \in 1..Len(dev_cfgs) /\ i' \in 1..Len(dev_cfgs)
  BY <1>0, <1>1, NextCfgType DEF TypeOK
<1>3. Chosen' = Chosen /\ devices' = devices
  BY <1>1 DEF Chosen, devices, RouteRest
<1>4. TypeOK'
  <2>1. dev_cfgs[i] \in Outs \cup Ins
    BY <1>2, Table
  <2>2. on' \in SUBSET (Outs \cup Ins)
    BY <1>0, <1>1, <2>1 DEF TypeOK
  <2>3. {in_call', in_voip', owed', raced'} \subseteq BOOLEAN
    BY <1>0, <1>1 DEF TypeOK, RouteRest
  <2>. QED  BY <1>0, <1>1, <1>2, <2>2, <2>3 DEF TypeOK, RouteRest
<1>5. MutexInv'
  BY <1>0, <1>1 DEF MutexInv
<1>6. ChangeInv'
  BY <1>0, <1>1, <1>3 DEF ChangeInv, Signalling, Passing, RouteRest
<1>7. ASSUME ~raced' PROVE prev_devices' = devices'
  BY <1>0, <1>1, <1>3, <1>7 DEF MixerInv, Passing
<1>8. ASSUME ~raced
      PROVE  \A k \in 1..i : dev_cfgs[k] \in Chosen => dev_cfgs[k] \in on'
  <2>1. OnSoFar
    BY <1>0, <1>1, <1>8 DEF MixerInv
  <2>2. SUFFICES ASSUME NEW k \in 1..i, dev_cfgs[k] \in Chosen PROVE dev_cfgs[k] \in on'
    OBVIOUS
  <2>3. CASE k = i
    BY <1>1, <2>2, <2>3
  <2>4. CASE k \in 1..(i - 1)
    BY <1>1, <2>1, <2>2, <2>4 DEF OnSoFar
  <2>. QED  BY SMTT(60), <1>2, <2>3, <2>4
<1>9. CASE i < Len(dev_cfgs)
  <2>1. i' = i + 1 /\ rt' = "on" /\ i' - 1 = i
    BY SMTT(60), <1>1, <1>2, <1>9, Table DEF NextCfg
  <2>2. ASSUME ~raced' PROVE OnSoFar'
    BY <1>1, <1>3, <1>8, <2>1, <2>2 DEF OnSoFar
  <2>3. MixerInv'
    BY <1>7, <2>1, <2>2 DEF MixerInv, Passing
  <2>. QED  BY <1>4, <1>5, <1>6, <2>3 DEF RouteInv
<1>10. CASE ~(i < Len(dev_cfgs))
  <2>1. i' = 1 /\ rt' = "off" /\ i = Len(dev_cfgs)
    BY SMTT(60), <1>1, <1>2, <1>10, Table DEF NextCfg
  <2>2. ASSUME ~raced' PROVE Chosen' \subseteq on'
    <3>1. SUFFICES ASSUME NEW d \in Chosen PROVE d \in on'
      BY <1>3
    <3>2. d \in Outs \cup Ins
      BY <1>0 DEF TypeOK, Chosen
    <3>3. PICK k \in 1..Len(dev_cfgs) : dev_cfgs[k] = d
      BY <3>2, Table
    <3>. QED  BY <1>1, <1>8, <2>1, <2>2, <3>3
  <2>3. OffSoFar'
    BY SMTT(60), <2>1 DEF OffSoFar
  <2>4. MixerInv'
    BY <1>7, <2>1, <2>2, <2>3 DEF MixerInv, Passing
  <2>. QED  BY <1>4, <1>5, <1>6, <2>4 DEF RouteInv
<1>. QED  BY <1>9, <1>10

\* A turn of the other loop leaves the selected devices on; after the last turn,
\* which ends the pass, no other one is.
LEMMA TurnOffInv == ASSUME RouteInv, TurnOff PROVE RouteInv'
<1>0. TypeOK /\ MutexInv /\ ChangeInv /\ MixerInv
  BY DEF RouteInv
<1>1. /\ rt = "off"
      /\ on' = {d \in on : d # dev_cfgs[i] \/ d \in Chosen}
      /\ UNCHANGED <<prev_devices, owed, raced>> /\ RouteRest
  BY DEF TurnOff, Selects, Chosen
<1>2. i \in 1..Len(dev_cfgs) /\ NextCfg \in 1..Len(dev_cfgs)
  BY <1>0, NextCfgType DEF TypeOK
<1>3. Chosen' = Chosen /\ devices' = devices
  BY <1>1 DEF Chosen, devices, RouteRest
<1>t. /\ on' \in SUBSET (Outs \cup Ins)
      /\ {in_call', in_voip', owed', raced'} \subseteq BOOLEAN
  BY <1>0, <1>1 DEF TypeOK, RouteRest
<1>4. ASSUME ~raced
      PROVE  /\ prev_devices = devices /\ Chosen \subseteq on'
             /\ \A k \in 1..i : dev_cfgs[k] \in on' => dev_cfgs[k] \in Chosen
  <2>1. prev_devices = devices /\ Chosen \subseteq on /\ OffSoFar
    BY <1>0, <1>1, <1>4 DEF MixerInv, Passing
  <2>2. Chosen \subseteq on'
    BY <1>1, <2>1
  <2>3. ASSUME NEW k \in 1..i, dev_cfgs[k] \in on' PROVE dev_cfgs[k] \in Chosen
    <3>1. CASE k = i
      BY <1>1, <2>3, <3>1
    <3>2. CASE k \in 1..(i - 1)
      BY <1>1, <2>1, <2>3, <3>2 DEF OffSoFar
    <3>. QED  BY SMTT(60), <1>2, <3>1, <3>2
  <2>. QED  BY <2>1, <2>2, <2>3
<1>5. CASE i < Len(dev_cfgs)
  <2>1. i' = i + 1 /\ i' - 1 = i /\ UNCHANGED <<device_switch, mutex, rt>>
    <3>1. NextCfg = i + 1 /\ NextCfg # 1 /\ (i + 1) - 1 = i
      BY SMTT(60), <1>2, <1>5 DEF NextCfg
    <3>. QED  BY <3>1 DEF TurnOff
  <2>2. TypeOK'
    <3>1. i' \in 1..Len(dev_cfgs)
      BY SMTT(60), <1>2, <1>5, <2>1, Table
    <3>. QED  BY <1>0, <1>1, <1>t, <2>1, <3>1 DEF TypeOK, RouteRest
  <2>3. MutexInv'
    BY <1>0, <2>1 DEF MutexInv
  <2>4. ChangeInv'
    BY <1>0, <1>1, <1>3, <2>1 DEF ChangeInv, Signalling, Passing, RouteRest
  <2>5. ASSUME ~raced' PROVE prev_devices' = devices' /\ Chosen' \subseteq on' /\ OffSoFar'
    BY <1>1, <1>3, <1>4, <2>1, <2>5 DEF OffSoFar
  <2>6. MixerInv'
    BY <1>1, <2>1, <2>5 DEF MixerInv, Passing
  <2>. QED  BY <2>2, <2>3, <2>4, <2>6 DEF RouteInv
<1>6. CASE ~(i < Len(dev_cfgs))
  <2>1. Finish /\ i = Len(dev_cfgs)
    <3>1. NextCfg = 1 /\ i = Len(dev_cfgs)
      BY SMTT(60), <1>2, <1>6, Table DEF NextCfg
    <3>. QED  BY <3>1 DEF TurnOff
  <2>2. TypeOK'
    <3>1. i' \in 1..Len(dev_cfgs)
      BY SMTT(60), <2>1, Table DEF Finish
    <3>. QED  BY <1>0, <1>1, <1>t, <2>1, <3>1 DEF TypeOK, RouteRest, Finish
  <2>3. MutexInv'
    BY <2>1 DEF MutexInv, Finish
  <2>4. ChangeInv'
    BY <1>0, <1>1, <1>3 DEF ChangeInv, Signalling, Passing, RouteRest
  <2>5. ASSUME ~raced' PROVE on' = prev_devices'[1] \cup prev_devices'[2]
    <3>1. Chosen \subseteq on'
      BY <1>1, <1>4, <2>5
    <3>2. ASSUME NEW d \in on' PROVE d \in Chosen
      <4>1. PICK k \in 1..Len(dev_cfgs) : dev_cfgs[k] = d
        BY <1>t, <3>2, Table
      <4>. QED  BY <1>1, <1>4, <2>1, <2>5, <3>2, <4>1
    <3>3. prev_devices' = <<out_devices, in_devices>>
      BY <1>1, <1>4, <2>5 DEF devices
    <3>. QED  BY <3>1, <3>2, <3>3 DEF Chosen
  <2>6. MixerInv'
    BY <2>1, <2>5 DEF MixerInv, Passing, Finish
  <2>. QED  BY <2>2, <2>3, <2>4, <2>6 DEF RouteInv
<1>. QED  BY <1>5, <1>6

-----------------------------------------------------------------------------
(* The theorems *)

LEMMA NextInv == ASSUME RouteInv, [RouteNext]_routeVars PROVE RouteInv'
<1>1. CASE UNCHANGED routeVars
  BY <1>1 DEF routeVars, RouteInv, TypeOK, MutexInv, ChangeInv, MixerInv, Signalling, Passing,
              devices, Chosen, OnSoFar, OffSoFar
<1>2. CASE \/ \E d \in Outs : SelectOutput(d)
           \/ \E d \in Ins : SelectInput(d)
           \/ \E locked \in BOOLEAN : StandbyInput(locked)
  BY <1>2, StreamsInv
<1>3. CASE \E s \in Selectors : select_devices_signal(s)
  BY <1>3, SignalInv
<1>4. CASE Session
  BY <1>4, SessionInv
<1>5. CASE RouteLock \/ WakeUp
  BY <1>5, WaitingInv
<1>6. CASE Compare
  BY <1>6, CompareInv
<1>7. CASE TurnOn
  BY <1>7, TurnOnInv
<1>8. CASE TurnOff
  BY <1>8, TurnOffInv
<1>. QED  BY <1>1, <1>2, <1>3, <1>4, <1>5, <1>6, <1>7, <1>8 DEF RouteNext, RoutingThread

LEMMA RouteInvariance == RouteSpec => []RouteInv
BY InitInv, NextInv, PTL DEF RouteSpec

\* The variables of the routing manager keep their types, the loops' index a
\* valid entry of dev_cfgs included.
THEOREM RouteTypes == RouteSpec => []TypeOK
<1>1. RouteInv => TypeOK
  BY DEF RouteInv
<1>. QED  BY <1>1, RouteInvariance, PTL

\* No device change is lost between select_devices_signal and the routing thread,
\* for any table of devices.
THEOREM AlwaysNoLostChange == RouteSpec => []NoLostChange
<1>1. RouteInv => NoLostChange
  BY DEF RouteInv, ChangeInv, Signalling, NoLostChange, Quiet, Selectors
<1>. QED  BY <1>1, RouteInvariance, PTL

\* do_select_devices leaves exactly the selected devices on, however many there
\* are and in whatever order dev_cfgs has them, unless a stream wrote a device
\* field during the pass.
THEOREM AlwaysRoutedUnlessRaced == RouteSpec => []RoutedUnlessRaced
<1>1. RouteInv => RoutedUnlessRaced
  <2>1. SUFFICES ASSUME RouteInv, Quiet, ~owed, ~raced
                 PROVE  on = out_devices \cup in_devices
    BY DEF RoutedUnlessRaced
  <2>2. prev_devices = devices
    BY <2>1 DEF RouteInv, ChangeInv, Signalling, Quiet, Selectors
  <2>3. ~Passing
    BY <2>1 DEF RouteInv, MutexInv, Quiet, Passing
  <2>. QED  BY <2>1, <2>2, <2>3 DEF RouteInv, MixerInv, devices
<1>. QED  BY <1>1, RouteInvariance, PTL

-----------------------------------------------------------------------------
(* The streams and the calls: the invariants *)

USE AudioHwAssumption

Mutexes == Streams \cup {"adev", "vbc"}
Places == {"idle", "stream", "decide", "voip", "join", "start", "io", "exit", "exit2",
           "out", "in", "lock", "standbyOut", "standbyIn", "locked", "done", "exited"}
Pcms == {"none", "mm", "voice", "sco"}
StreamType == [standby : BOOLEAN, is_sco : BOOLEAN, pcm : Pcms]
Commands == {"HAL_OPEN", "SWITCH_CTRL", "HAL_CLOSE", "RSP_CLOSE", "error"}
Pipes == {<<>>} \cup {<<cmd>> : cmd \in Commands}
Goals == Commands \cup {"none", "timeout", "failed"}

ThreadOK == lock \in [Mutexes -> Threads \cup {"free"}] /\ pc \in [Threads -> Places]
StreamOK == /\ stream \in [Streams -> StreamType] /\ active \in [Streams -> BOOLEAN]
            /\ voip_state \in SUBSET Streams /\ codec \in BOOLEAN
CallOK == /\ call_start \in BOOLEAN /\ call_connected \in BOOLEAN /\ call_prestop \in BOOLEAN
          /\ pipe \in [CPs -> Pipes]
          /\ armed \in [CPs -> BOOLEAN] /\ goal \in [CPs -> Goals]
          /\ modem \in [CPs -> {"idle", "opened", "connected", "closing"}]
RestOK == voip_start \in BOOLEAN /\ tmp \in [Streams -> SUBSET Streams] /\ errors \in Nat
HwTypeOK == ThreadOK /\ StreamOK /\ CallOK /\ RestOK

\* The places at which a thread has adev->lock, and a stream its own mutex.
Both == {"decide", "voip", "join", "start"}
HasDevice(t, l) == \/ t \in Streams /\ l \in Both \cup {"stream"}
                   \/ t = "policy" /\ l # "idle"
                   \/ t \in CPs /\ l \in {"standbyOut", "standbyIn", "locked"}
HasStream(l) == l \in Both \cup {"io", "exit", "exit2"}

LockInv ==
    /\ \A t \in Threads : HasDevice(t, pc[t]) => lock["adev"] = t
    /\ \A s \in Streams : HasStream(pc[s]) => lock[s] = s

\* A thread that opens or ends the call, and that has put the stream s to standby.
ClosesStreams(c) == goal[c] = "HAL_OPEN" \/ (ClosesCall(c) /\ call_start)
Closed(c, s) == pc[c] \in (IF s = "out" THEN {"standbyIn", "locked"} ELSE {"locked"})

\* force_all_standby asks adev->active_output and active_input: a PCM that is
\* open is one of an active stream.
PcmOpen == \A s \in Streams : stream[s].pcm # "none" => active[s] /\ ~stream[s].standby
\* out_write goes on in a call only when it is connected.
OutPath == pc["out"] \in {"voip", "join", "start"} => (call_start => call_connected)
PcmClosed == \A c \in CPs, s \in Streams :
                Closed(c, s) /\ ClosesStreams(c) => stream[s].pcm = "none"

\* The invariant of NoMediaInCall.
MediaInv == HwTypeOK /\ LockInv /\ PcmOpen /\ OutPath /\ PcmClosed /\ NoMediaInCall

\* Joining: the flag of voip_state is set, is_sco is not yet.
Joining == {"voip", "join"}
Failing == {"exit", "exit2"}

\* The VoIP session as one stream's place has it.  A stream that joined is in
\* standby only until it starts; a stream that is started has a PCM open.
VoipOK(s) ==
    /\ pc[s] \notin Failing
    /\ pc[s] \in Joining => s \in voip_state /\ ~stream[s].is_sco /\ ~call_start
    /\ pc[s] \notin Joining => (s \in voip_state <=> stream[s].is_sco)
    /\ stream[s].is_sco /\ stream[s].standby => pc[s] = "start"
    /\ stream[s].is_sco /\ ~stream[s].standby => codec
    /\ ~stream[s].standby => stream[s].pcm # "none"
    /\ call_start => ~stream[s].is_sco

VoipInv == errors = 0 => (\A s \in Streams : VoipOK(s)) /\ (call_start => codec)

\* The modem's protocol and the call's flags: SWITCH_CTRL is sent, and served, in a
\* call that has started.  It holds for one modem: with two, the end of one's call
\* clears the flags of the other's.
CallInv(c) ==
    /\ pc[c] = "idle" /\ pipe[c] = <<>> /\ modem[c] = "opened" => call_start
    /\ pc[c] = "idle" /\ pipe[c] = <<"SWITCH_CTRL">> => call_start
    /\ pc[c] = "idle" /\ pipe[c] # <<>> /\ modem[c] = "opened" => pipe[c] = <<"HAL_OPEN">>
    /\ pc[c] # "idle" /\ modem[c] = "opened" =>
          goal[c] \in {"HAL_OPEN", "failed"} \/ pc[c] = "exited"
    /\ pc[c] # "idle" /\ goal[c] # "timeout" => pipe[c] = <<>>
    /\ goal[c] = "SWITCH_CTRL" => call_start
    /\ goal[c] = "failed" => pc[c] = "done"
    /\ goal[c] \in {"HAL_OPEN", "failed"} /\ pc[c] = "done" => call_start

\* A started output has the PCM open that out_write is going to use.
OutInv ==
    /\ ~stream["out"].standby /\ pc["out"] \notin Failing => stream["out"].pcm = Path("out")
    /\ pc["out"] = "io" => ~stream["out"].standby

-----------------------------------------------------------------------------
(* Types and mutexes *)

LEMMA ThreadNames ==
  /\ Streams \subseteq Threads /\ CPs \subseteq Threads /\ "policy" \in Threads
  /\ "free" \notin Threads /\ "adev" \in Mutexes /\ "vbc" \in Mutexes /\ Streams \subseteq Mutexes
  /\ "out" \in Streams /\ "in" \in Streams
  BY DEF Threads, Streams, Mutexes

\* A step that takes and gives no mutex keeps LockInv; so do those that do.
LEMMA Stays ==
  ASSUME ThreadOK, LockInv, NEW t \in Threads, NEW l \in Places, Goto(t, l), UNCHANGED lock,
         HasDevice(t, l) => HasDevice(t, pc[t]),
         t \in Streams /\ HasStream(l) => HasStream(pc[t])
  PROVE  ThreadOK' /\ LockInv'
<1>1. ThreadOK' /\ pc'[t] = l /\ \A u \in Threads : u # t => pc'[u] = pc[u]
  BY DEF ThreadOK, Goto
<1>. QED  BY <1>1, ThreadNames DEF LockInv

LEMMA Takes ==
  ASSUME ThreadOK, LockInv, NEW t \in Threads, NEW l \in Places, Goto(t, l),
         NEW m \in Mutexes, Take(m, t),
         HasDevice(t, l) => HasDevice(t, pc[t]) \/ m = "adev",
         t \in Streams /\ HasStream(l) => HasStream(pc[t]) \/ m = t
  PROVE  ThreadOK' /\ LockInv'
<1>1. ThreadOK' /\ pc'[t] = l /\ \A u \in Threads : u # t => pc'[u] = pc[u]
  BY DEF ThreadOK, Goto, Take
<1>2. /\ lock[m] = "free" /\ lock'[m] = t
      /\ \A o \in Mutexes : o # m => lock'[o] = lock[o]
  BY DEF ThreadOK, Take
<1>. QED  BY SMTT(60), <1>1, <1>2, ThreadNames DEF LockInv

LEMMA Gives ==
  ASSUME ThreadOK, LockInv, NEW t \in Threads, NEW l \in Places, Goto(t, l),
         NEW ms \in SUBSET Mutexes, Give(ms),
         "adev" \in ms => HasDevice(t, pc[t]),
         \A m \in ms \cap Streams : m = t /\ HasStream(pc[t]),
         HasDevice(t, l) => HasDevice(t, pc[t]) /\ "adev" \notin ms,
         t \in Streams /\ HasStream(l) => HasStream(pc[t]) /\ t \notin ms
  PROVE  ThreadOK' /\ LockInv'
<1>1. ThreadOK' /\ pc'[t] = l /\ \A u \in Threads : u # t => pc'[u] = pc[u]
  BY DEF ThreadOK, Goto, Give
<1>2. \A m \in Mutexes : lock'[m] = IF m \in ms THEN "free" ELSE lock[m]
  BY DEF ThreadOK, Give
<1>. QED  BY SMTT(60), <1>1, <1>2, ThreadNames DEF LockInv

LEMMA AsleepType ==
  /\ Asleep \in StreamType /\ Asleep.standby /\ ~Asleep.is_sco /\ Asleep.pcm = "none"
  BY DEF Asleep, StreamType, Pcms

LEMMA JoinedType ==
  /\ InVoip \in StreamType /\ InVoip.standby /\ InVoip.is_sco /\ InVoip.pcm = "none"
  BY DEF InVoip, StreamType, Pcms

LEMMA AwakeType ==
  ASSUME NEW sco \in BOOLEAN, NEW pcm \in Pcms
  PROVE  /\ Awake(sco, pcm) \in StreamType /\ Awake(sco, pcm).standby = FALSE
         /\ Awake(sco, pcm).is_sco = sco /\ Awake(sco, pcm).pcm = pcm
  BY DEF Awake, StreamType

\* What do_output_standby and do_input_standby change.
LEMMA Standby ==
  ASSUME StreamOK, NEW s \in Streams, DoStandby(s)
  PROVE  /\ stream' \in [Streams -> StreamType] /\ active' \in [Streams -> BOOLEAN]
         /\ voip_state' \in SUBSET Streams /\ codec' \in BOOLEAN
         /\ \A o \in Streams : o # s => stream'[o] = stream[o] /\ active'[o] = active[o]
         /\ stream'[s].standby
         /\ \/ stream[s].standby /\ UNCHANGED streamVars
            \/ /\ ~stream[s].standby /\ stream'[s] = Asleep /\ active'[s] = FALSE
               /\ voip_state' = VoipAfter(s) /\ codec' = CodecAfter(s, VoipAfter(s))
<1>1. /\ stream \in [Streams -> StreamType] /\ active \in [Streams -> BOOLEAN]
      /\ voip_state \in SUBSET Streams /\ codec \in BOOLEAN
  BY DEF StreamOK
<1>2. CASE stream[s].standby
  BY <1>1, <1>2 DEF DoStandby, streamVars
<1>3. CASE ~stream[s].standby
  <2>1. /\ stream' = [stream EXCEPT ![s] = Asleep] /\ active' = [active EXCEPT ![s] = FALSE]
        /\ voip_state' = VoipAfter(s) /\ codec' = CodecAfter(s, VoipAfter(s))
    BY <1>3 DEF DoStandby
  <2>2. codec' \in BOOLEAN
    BY <2>1 DEF CodecAfter
  <2>3. voip_state' \in SUBSET Streams
    BY <1>1, <2>1 DEF VoipAfter
  <2>4. /\ stream' \in [Streams -> StreamType] /\ stream'[s] = Asleep
        /\ \A o \in Streams : o # s => stream'[o] = stream[o]
    BY <1>1, <2>1, AsleepType
  <2>5. /\ active' \in [Streams -> BOOLEAN] /\ active'[s] = FALSE
        /\ \A o \in Streams : o # s => active'[o] = active[o]
    BY <1>1, <2>1
  <2>6. stream'[s].standby
    BY <2>4, AsleepType
  <2>. QED  BY <1>3, <2>1, <2>2, <2>3, <2>4, <2>5, <2>6
<1>. QED  BY <1>2, <1>3

LEMMA Same ==
  /\ StreamOK /\ UNCHANGED streamVars => StreamOK'
  /\ CallOK /\ UNCHANGED callVars => CallOK'
  /\ RestOK /\ UNCHANGED <<voip_start, tmp, errors>> => RestOK'
<1>1. ASSUME StreamOK, UNCHANGED streamVars PROVE StreamOK'
  BY <1>1 DEF StreamOK, streamVars
<1>2. ASSUME CallOK, UNCHANGED callVars PROVE CallOK'
  BY <1>2 DEF CallOK, callVars
<1>3. ASSUME RestOK, UNCHANGED <<voip_start, tmp, errors>> PROVE RestOK'
  BY <1>3 DEF RestOK
<1>. QED  BY <1>1, <1>2, <1>3

\* No failure has been counted only if none happened.
LEMMA CountedType ==
  ASSUME errors \in Nat, NEW ok \in BOOLEAN, Counted(ok)
  PROVE  errors' \in Nat /\ (errors' = 0 => ok /\ errors = 0)
<1>1. CASE ok
  BY <1>1 DEF Counted
<1>2. CASE ~ok
  <2>1. errors' = errors + 1
    BY <1>2 DEF Counted
  <2>. QED  BY SMTT(60), <2>1
<1>. QED  BY <1>1, <1>2

LEMMA OutcomesType == Outcomes \subseteq BOOLEAN
  BY DEF Outcomes

LEMMA LockTypes ==
  ASSUME HwTypeOK, LockInv, NEW s \in Streams, Lock(s)
  PROVE  HwTypeOK' /\ LockInv'
<1>1. /\ ThreadOK /\ StreamOK /\ CallOK /\ RestOK
      /\ UNCHANGED <<streamVars, voip_start, tmp, callVars, errors>>
  BY DEF HwTypeOK, Lock
<1>2. StreamOK' /\ CallOK' /\ RestOK'
  BY <1>1, Same
<1>3. ThreadOK' /\ LockInv'
  <2>1. /\ s \in Threads /\ s \in Mutexes /\ "adev" \in Mutexes
        /\ "stream" \in Places /\ "decide" \in Places
    BY ThreadNames DEF Places
  <2>2. CASE pc[s] = "idle" /\ Take("adev", s) /\ Goto(s, "stream")
    <3>1. ~HasStream("stream")
      BY DEF HasStream, Both
    <3>. QED  BY <1>1, <2>1, <2>2, <3>1, Takes
  <2>3. CASE pc[s] = "stream" /\ Take(s, s) /\ Goto(s, "decide")
    <3>1. HasDevice(s, pc[s])
      BY <2>3 DEF HasDevice
    <3>. QED  BY <1>1, <2>1, <2>3, <3>1, Takes
  <2>. QED  BY <2>2, <2>3 DEF Lock
<1>. QED  BY <1>2, <1>3 DEF HwTypeOK

\* A stream's thread that keeps, gives back one or gives back both mutexes.
LEMMA StreamThread ==
  ASSUME ThreadOK, LockInv, NEW s \in Streams, NEW l \in Places, Goto(s, l),
         \/ UNCHANGED lock /\ pc[s] \in Both /\ l \in Both
         \/ Returns(s) /\ pc[s] \in Both /\ l = "idle"
         \/ Give({"adev"}) /\ pc[s] \in Both /\ l \in {"io", "exit"}
         \/ UNCHANGED lock /\ pc[s] \in {"io", "exit"} /\ l \in {"exit", "exit2"}
         \/ Give({s}) /\ pc[s] \in {"io", "exit2"} /\ l = "idle"
  PROVE  ThreadOK' /\ LockInv'
<1>1. /\ s \in Threads /\ {"adev"} \in SUBSET Mutexes /\ {s} \in SUBSET Mutexes
      /\ {"adev", s} \in SUBSET Mutexes /\ "adev" \notin Streams /\ s # "policy" /\ s \notin CPs
  BY ThreadNames DEF Streams
<1>5. CASE /\ UNCHANGED lock
           /\ \/ pc[s] \in Both /\ l \in Both
              \/ pc[s] \in {"io", "exit"} /\ l \in {"exit", "exit2"}
  <2>1. HasStream(pc[s])
    BY <1>5 DEF HasStream
  <2>2. HasDevice(s, l) => HasDevice(s, pc[s])
    BY <1>1, <1>5 DEF HasDevice, Both
  <2>. QED  BY <1>1, <1>5, <2>1, <2>2, Stays
<1>6. CASE Returns(s) /\ pc[s] \in Both /\ l = "idle"
  <2>1. HasDevice(s, pc[s]) /\ HasStream(pc[s]) /\ ~HasDevice(s, l) /\ ~HasStream(l)
    BY <1>1, <1>6 DEF HasDevice, HasStream, Both
  <2>. QED  BY <1>1, <1>6, <2>1, Gives DEF Returns
<1>7. CASE Give({"adev"}) /\ pc[s] \in Both /\ l \in {"io", "exit"}
  <2>1. HasDevice(s, pc[s]) /\ HasStream(pc[s]) /\ ~HasDevice(s, l)
    BY <1>1, <1>7 DEF HasDevice, HasStream, Both
  <2>. QED  BY <1>1, <1>7, <2>1, Gives
<1>8. CASE Give({s}) /\ pc[s] \in {"io", "exit2"} /\ l = "idle"
  <2>1. HasStream(pc[s]) /\ ~HasDevice(s, l) /\ ~HasStream(l)
    BY <1>1, <1>8 DEF HasDevice, HasStream, Both
  <2>. QED  BY <1>1, <1>8, <2>1, Gives
<1>. QED  BY <1>5, <1>6, <1>7, <1>8

LEMMA OtherStream ==
  ASSUME NEW s \in Streams
  PROVE  Other(s) \in Streams /\ Other(s) # s /\ \A o \in Streams : o = s \/ o = Other(s)
  BY DEF Streams, Other

LEMMA PathType ==
  ASSUME NEW s
  PROVE  Path(s) \in {"sco", "voice", "mm"} /\ (Path(s) = "sco" <=> stream[s].is_sco)
  BY DEF Path

LEMMA DecideTypes ==
  ASSUME HwTypeOK, LockInv, NEW s \in Streams, Decide(s)
  PROVE  HwTypeOK' /\ LockInv'
<1>1. /\ ThreadOK /\ StreamOK /\ CallOK /\ RestOK /\ pc[s] \in Both
      /\ UNCHANGED <<voip_start, tmp, callVars, errors>>
  BY DEF HwTypeOK, Decide, Both
<1>2. CallOK' /\ RestOK'
  BY <1>1, Same
<1>3. StreamOK'
  <2>1. CASE UNCHANGED streamVars
    BY <1>1, <2>1, Same
  <2>2. CASE voip_state' = voip_state \cup {s} /\ UNCHANGED <<stream, active, codec>>
    BY <1>1, <2>2 DEF StreamOK
  <2>3. CASE DoStandby(s)
    BY <1>1, <2>3, Standby DEF StreamOK
  <2>. QED  BY <2>1, <2>2, <2>3 DEF Decide
<1>4. ThreadOK' /\ LockInv'
  <2>1. \/ Returns(s) /\ Goto(s, "idle")
        \/ UNCHANGED lock /\ \E l \in {"voip", "start"} : Goto(s, l)
    BY DEF Decide
  <2>2. {"idle", "voip", "start"} \subseteq Places /\ {"voip", "start"} \subseteq Both
    BY DEF Places, Both
  <2>3. CASE Returns(s) /\ Goto(s, "idle")
    BY <1>1, <2>2, <2>3, StreamThread
  <2>4. CASE UNCHANGED lock /\ \E l \in {"voip", "start"} : Goto(s, l)
    <3>1. PICK l \in {"voip", "start"} : Goto(s, l)
      BY <2>4
    <3>2. l \in Places /\ l \in Both
      BY <2>2
    <3>. QED  BY <1>1, <2>4, <3>1, <3>2, StreamThread
  <2>. QED  BY <2>1, <2>3, <2>4
<1>. QED  BY <1>2, <1>3, <1>4 DEF HwTypeOK

LEMMA VoipTypes ==
  ASSUME HwTypeOK, LockInv, NEW s \in Streams, ForceStandbyForVoip(s) \/ JoinVoip(s)
  PROVE  HwTypeOK' /\ LockInv'
<1>1. /\ ThreadOK /\ StreamOK /\ CallOK /\ RestOK
      /\ UNCHANGED <<lock, voip_start, tmp, callVars, errors>>
  BY DEF HwTypeOK, ForceStandbyForVoip, JoinVoip
<1>2. CallOK' /\ RestOK'
  BY <1>1, Same
<1>3. CASE ForceStandbyForVoip(s)
  <2>1. StreamOK'
    <3>1. CASE UNCHANGED streamVars
      BY <1>1, <3>1, Same
    <3>2. CASE DoStandby(Other(s))
      BY <1>1, <3>2, Standby, OtherStream DEF StreamOK
    <3>. QED  BY <1>3, <3>1, <3>2 DEF ForceStandbyForVoip
  <2>2. ThreadOK' /\ LockInv'
    <3>1. pc[s] \in Both /\ "join" \in Both /\ "join" \in Places /\ Goto(s, "join")
      BY <1>3 DEF ForceStandbyForVoip, Both, Places
    <3>. QED  BY <1>1, <3>1, StreamThread
  <2>. QED  BY <1>2, <2>1, <2>2 DEF HwTypeOK
<1>4. CASE JoinVoip(s)
  <2>1. StreamOK'
    <3>1. InVoip \in StreamType
      BY JoinedType
    <3>2. stream' \in [Streams -> StreamType]
      BY <1>1, <1>4, <3>1 DEF JoinVoip, StreamOK
    <3>3. active' = [active EXCEPT ![s] = (@ /\ stream[s].standby)]
          /\ (active[s] /\ stream[s].standby) \in BOOLEAN
      BY <1>4 DEF JoinVoip
    <3>4. active' \in [Streams -> BOOLEAN]
      BY <1>1, <3>3 DEF StreamOK
    <3>. QED  BY <1>1, <1>4, <3>2, <3>4 DEF JoinVoip, StreamOK
  <2>2. ThreadOK' /\ LockInv'
    <3>1. pc[s] \in Both /\ "start" \in Both /\ "start" \in Places /\ Goto(s, "start")
      BY <1>4 DEF JoinVoip, Both, Places
    <3>. QED  BY <1>1, <3>1, StreamThread
  <2>. QED  BY <1>2, <2>1, <2>2 DEF HwTypeOK
<1>. QED  BY <1>3, <1>4

\* start_output_stream and start_input_stream, with the outcome.
LEMMA Opened ==
  ASSUME NEW s \in Streams, Start(s), ~Dropped(s), stream[s].standby
  PROVE  \E ok \in Outcomes :
            /\ Counted(ok) /\ Goto(s, IF ok THEN "io" ELSE "exit") /\ Give({"adev"})
            /\ UNCHANGED voip_state /\ codec' = (codec \/ stream[s].is_sco)
            /\ stream' = [stream EXCEPT ![s] =
                             Awake(@.is_sco, IF ok THEN Path(s) ELSE "none")]
            /\ active' = [active EXCEPT ![s] = ok \/ (s = "out" /\ Path(s) # "mm")]
  BY DEF Start

LEMMA OpenedEffect ==
  ASSUME StreamOK, errors \in Nat, NEW s \in Streams, Start(s), ~Dropped(s), stream[s].standby
  PROVE  /\ StreamOK' /\ errors' \in Nat /\ Give({"adev"}) /\ UNCHANGED voip_state
         /\ codec' = (codec \/ stream[s].is_sco)
         /\ \A o \in Streams : o # s => stream'[o] = stream[o] /\ active'[o] = active[o]
         /\ stream'[s].standby = FALSE /\ stream'[s].is_sco = stream[s].is_sco
         /\ \/ Goto(s, "io") /\ stream'[s].pcm = Path(s) /\ active'[s] /\ errors' = errors
            \/ Goto(s, "exit") /\ stream'[s].pcm = "none" /\ errors' # 0
<1>1. /\ stream \in [Streams -> StreamType] /\ active \in [Streams -> BOOLEAN]
      /\ voip_state \in SUBSET Streams /\ codec \in BOOLEAN /\ stream[s].is_sco \in BOOLEAN
  BY DEF StreamOK, StreamType
<1>2. PICK ok \in Outcomes :
        /\ Counted(ok) /\ Goto(s, IF ok THEN "io" ELSE "exit") /\ Give({"adev"})
        /\ UNCHANGED voip_state /\ codec' = (codec \/ stream[s].is_sco)
        /\ stream' = [stream EXCEPT ![s] = Awake(@.is_sco, IF ok THEN Path(s) ELSE "none")]
        /\ active' = [active EXCEPT ![s] = ok \/ (s = "out" /\ Path(s) # "mm")]
  BY Opened
<1>3. ok \in BOOLEAN
  BY OutcomesType
<1> DEFINE p == IF ok THEN Path(s) ELSE "none"
<1>4. p \in Pcms
  BY PathType DEF Pcms
<1>5. /\ stream' \in [Streams -> StreamType]
      /\ \A o \in Streams : o # s => stream'[o] = stream[o]
      /\ stream'[s] = Awake(stream[s].is_sco, p)
  <2>1. Awake(stream[s].is_sco, p) \in StreamType
    BY <1>1, <1>4, AwakeType
  <2>2. stream' = [stream EXCEPT ![s] = Awake(stream[s].is_sco, p)]
    BY <1>2
  <2>. HIDE DEF p
  <2>. QED  BY <1>1, <2>1, <2>2
<1>6. /\ stream'[s].standby = FALSE /\ stream'[s].is_sco = stream[s].is_sco /\ stream'[s].pcm = p
  <2>. HIDE DEF p
  <2>1. stream'[s] = Awake(stream[s].is_sco, p)
    BY <1>5
  <2>2. /\ Awake(stream[s].is_sco, p).standby = FALSE
        /\ Awake(stream[s].is_sco, p).is_sco = stream[s].is_sco
        /\ Awake(stream[s].is_sco, p).pcm = p
    BY <1>1, <1>4, AwakeType
  <2>. QED  BY <2>1, <2>2
<1>7. /\ active' \in [Streams -> BOOLEAN]
      /\ \A o \in Streams : o # s => active'[o] = active[o]
      /\ ok => active'[s]
  <2>1. (ok \/ (s = "out" /\ Path(s) # "mm")) \in BOOLEAN
    OBVIOUS
  <2>2. active'[s] = (ok \/ (s = "out" /\ Path(s) # "mm"))
    BY <1>1, <1>2
  <2>3. ok => active'[s]
    BY <2>2
  <2>. QED  BY <1>1, <1>2, <2>1, <2>3
<1>8. codec' \in BOOLEAN /\ voip_state' \in SUBSET Streams
  BY <1>1, <1>2
<1>9. StreamOK'
  BY <1>5, <1>7, <1>8 DEF StreamOK
<1>10. errors' \in Nat /\ (errors' = 0 => ok)
  BY <1>2, <1>3, CountedType
<1>11. CASE ok
  <2>1. Goto(s, "io") /\ stream'[s].pcm = Path(s) /\ active'[s] /\ errors' = errors
    BY <1>2, <1>6, <1>7, <1>11 DEF Counted
  <2>. QED  BY <1>2, <1>5, <1>6, <1>7, <1>9, <1>10, <2>1
<1>12. CASE ~ok
  <2>1. Goto(s, "exit") /\ stream'[s].pcm = "none" /\ errors' # 0
    BY <1>2, <1>6, <1>10, <1>12
  <2>. QED  BY <1>2, <1>5, <1>6, <1>7, <1>9, <1>10, <2>1
<1>. QED  BY <1>11, <1>12

LEMMA StartTypes ==
  ASSUME HwTypeOK, LockInv, NEW s \in Streams, Start(s)
  PROVE  HwTypeOK' /\ LockInv'
<1>1. /\ ThreadOK /\ StreamOK /\ CallOK /\ RestOK
      /\ UNCHANGED <<voip_start, tmp, callVars>>
  BY DEF HwTypeOK, Start
<1>2. CallOK'
  BY <1>1, Same
<1>3. pc[s] \in Both /\ {"io", "exit", "idle"} \subseteq Places
  BY DEF Start, Both, Places
<1>4. CASE Dropped(s)
  <2>1. Returns(s) /\ Goto(s, "idle") /\ UNCHANGED <<streamVars, errors>>
    BY <1>4 DEF Start
  <2>2. ThreadOK' /\ LockInv'
    BY <1>1, <1>3, <2>1, StreamThread
  <2>. QED  BY <1>1, <1>2, <2>1, <2>2, Same DEF HwTypeOK
<1>5. CASE ~Dropped(s) /\ ~stream[s].standby
  <2>1. Give({"adev"}) /\ Goto(s, "io") /\ UNCHANGED <<streamVars, errors>>
    BY <1>5 DEF Start
  <2>2. ThreadOK' /\ LockInv'
    BY <1>1, <1>3, <2>1, StreamThread
  <2>. QED  BY <1>1, <1>2, <2>1, <2>2, Same DEF HwTypeOK
<1>6. CASE ~Dropped(s) /\ stream[s].standby
  <2>1. /\ StreamOK' /\ errors' \in Nat /\ Give({"adev"})
        /\ Goto(s, "io") \/ Goto(s, "exit")
    BY <1>1, <1>6, OpenedEffect DEF RestOK
  <2>2. ThreadOK' /\ LockInv'
    BY <1>1, <1>3, <2>1, StreamThread
  <2>3. RestOK'
    BY <1>1, <2>1 DEF RestOK
  <2>. QED  BY <1>2, <2>1, <2>2, <2>3 DEF HwTypeOK
<1>. QED  BY <1>4, <1>5, <1>6

LEMMA IoTypes ==
  ASSUME HwTypeOK, LockInv, NEW s \in Streams, Io(s) \/ ExitRead(s) \/ ExitWrite(s)
  PROVE  HwTypeOK' /\ LockInv'
<1>1. /\ ThreadOK /\ StreamOK /\ CallOK /\ RestOK /\ UNCHANGED <<voip_start, callVars>>
      /\ {"idle", "exit", "exit2"} \subseteq Places
  BY DEF HwTypeOK, Io, ExitRead, ExitWrite, Places
<1>2. CallOK'
  BY <1>1, Same
<1>3. CASE Io(s)
  <2>1. PICK ok \in Outcomes :
          Counted(ok) /\ IF ok THEN Give({s}) /\ Goto(s, "idle")
                               ELSE Goto(s, "exit") /\ UNCHANGED lock
    BY <1>3 DEF Io
  <2>2. ok \in BOOLEAN
    BY OutcomesType
  <2>3. errors' \in Nat /\ UNCHANGED <<streamVars, tmp>>
    <3>1. errors' \in Nat
      BY <1>1, <2>1, <2>2, CountedType DEF RestOK
    <3>. QED  BY <1>3, <3>1 DEF Io
  <2>4. pc[s] = "io" /\ ((Give({s}) /\ Goto(s, "idle")) \/ (Goto(s, "exit") /\ UNCHANGED lock))
    <3>1. pc[s] = "io"
      BY <1>3 DEF Io
    <3>2. CASE ok
      BY <2>1, <3>1, <3>2
    <3>3. CASE ~ok
      BY <2>1, <3>1, <3>3
    <3>. QED  BY <3>2, <3>3
  <2>5. ThreadOK' /\ LockInv'
    BY <1>1, <2>4, StreamThread
  <2>6. RestOK'
    BY <1>1, <2>3 DEF RestOK
  <2>. QED  BY <1>1, <1>2, <2>3, <2>5, <2>6, Same DEF HwTypeOK
<1>4. CASE ExitRead(s)
  <2>1. pc[s] = "exit" /\ Goto(s, "exit2") /\ UNCHANGED <<lock, streamVars, errors>>
    BY <1>4 DEF ExitRead
  <2>2. VoipAfter(s) \in SUBSET Streams
    BY <1>1 DEF VoipAfter, StreamOK
  <2>3. RestOK'
    BY <1>1, <1>4, <2>1, <2>2 DEF RestOK, ExitRead
  <2>4. ThreadOK' /\ LockInv'
    BY <1>1, <2>1, StreamThread
  <2>. QED  BY <1>1, <1>2, <2>1, <2>3, <2>4, Same DEF HwTypeOK
<1>5. CASE ExitWrite(s)
  <2>1. pc[s] = "exit2" /\ Goto(s, "idle") /\ Give({s})
    BY <1>5 DEF ExitWrite
  <2>2. ThreadOK' /\ LockInv'
    BY <1>1, <2>1, StreamThread
  <2>3. RestOK'
    BY <1>1, <1>5 DEF RestOK, ExitWrite
  <2>4. voip_state' \in SUBSET Streams
    BY <1>1, <1>5 DEF ExitWrite, RestOK, StreamOK
  <2>5. codec' \in BOOLEAN
    BY <1>5 DEF ExitWrite, CodecAfter
  <2>6. stream' \in [Streams -> StreamType] /\ active' \in [Streams -> BOOLEAN]
    BY <1>1, <1>5, AsleepType DEF ExitWrite, StreamOK
  <2>. QED  BY <1>2, <2>2, <2>3, <2>4, <2>5, <2>6 DEF HwTypeOK, StreamOK
<1>. QED  BY <1>3, <1>4, <1>5

LEMMA PolicyTypes ==
  ASSUME HwTypeOK, LockInv, Policy \/ SetVoip
  PROVE  HwTypeOK' /\ LockInv'
<1>1. /\ ThreadOK /\ StreamOK /\ CallOK /\ RestOK /\ UNCHANGED <<tmp, callVars, errors>>
      /\ Streams \cup {"idle"} \subseteq Places /\ "policy" \in Threads /\ "policy" \notin Streams
      /\ "adev" \in Mutexes /\ "adev" \notin Streams /\ "idle" \notin Streams
  BY ThreadNames DEF HwTypeOK, Policy, SetVoip, Places, Streams
<1>2. CallOK'
  BY <1>1, Same
<1>3. CASE pc["policy"] = "idle" /\ Take("adev", "policy")
             /\ (\E s \in Streams : Goto("policy", s)) /\ UNCHANGED <<streamVars, voip_start>>
  <2>1. PICK s \in Streams : Goto("policy", s)
    BY <1>3
  <2>2. s \in Places
    BY <1>1
  <2>3. ThreadOK' /\ LockInv'
    BY <1>1, <1>3, <2>1, <2>2, Takes
  <2>. QED  BY <1>1, <1>2, <1>3, <2>3, Same DEF HwTypeOK
<1>4. CASE \E s \in Streams : pc["policy"] = s /\ DoStandby(s) /\ Give({"adev"})
                 /\ Goto("policy", "idle") /\ UNCHANGED voip_start
  <2>1. PICK s \in Streams : pc["policy"] = s /\ DoStandby(s) /\ Give({"adev"})
                 /\ Goto("policy", "idle") /\ UNCHANGED voip_start
    BY <1>4
  <2>2. HasDevice("policy", pc["policy"]) /\ ~HasDevice("policy", "idle")
    BY <1>1, <2>1 DEF HasDevice
  <2>3. {"adev"} \in SUBSET Mutexes /\ {"adev"} \cap Streams = {} /\ "idle" \in Places
    BY <1>1
  <2>4. ThreadOK' /\ LockInv'
    BY <1>1, <2>1, <2>2, <2>3, Gives
  <2>5. StreamOK'
    BY <1>1, <2>1, Standby DEF StreamOK
  <2>. QED  BY <1>1, <1>2, <2>1, <2>4, <2>5, Same DEF HwTypeOK
<1>5. CASE SetVoip
  <2>1. UNCHANGED <<lock, pc, streamVars>> /\ voip_start' = ~voip_start
    BY <1>5 DEF SetVoip
  <2>2. voip_start' \in BOOLEAN
    BY <2>1
  <2>3. RestOK'
    BY <1>1, <2>2 DEF RestOK
  <2>4. ThreadOK' /\ LockInv'
    BY <1>1, <2>1 DEF ThreadOK, LockInv
  <2>. QED  BY <1>1, <1>2, <2>1, <2>3, <2>4, Same DEF HwTypeOK
<1>. QED  BY <1>3, <1>4, <1>5 DEF Policy

LEMMA CallTypes ==
  ASSUME HwTypeOK, LockInv, NEW c \in CPs, ModemSends(c) \/ Command(c) \/ GiveUp(c)
  PROVE  HwTypeOK' /\ LockInv'
<1>1. /\ ThreadOK /\ StreamOK /\ CallOK /\ RestOK
      /\ UNCHANGED <<streamVars, voip_start, tmp, call_start, call_connected, errors>>
  BY DEF HwTypeOK, ModemSends, Command, GiveUp
<1>2. StreamOK' /\ RestOK'
  BY <1>1, Same
<1>3. /\ c \in Threads /\ c \notin Streams /\ c # "policy" /\ "vbc" \in Mutexes /\ "vbc" # "adev"
      /\ {"done", "lock"} \subseteq Places
  BY ThreadNames DEF Streams, Places
<1>4. ~HasDevice(c, "lock") /\ ~HasDevice(c, "done")
  BY <1>3 DEF HasDevice
<1>5. CASE ModemSends(c)
  <2>1. PICK p \in Protocol :
          /\ pipe' = [pipe EXCEPT ![c] = <<p[2]>>] /\ modem' = [modem EXCEPT ![c] = p[3]]
    BY <1>5 DEF ModemSends
  <2>2. p[2] \in Commands /\ p[3] \in {"idle", "opened", "connected", "closing"}
    BY SMTT(60) DEF Protocol, Commands
  <2>3. UNCHANGED <<lock, pc, call_prestop, armed, goal>>
    BY <1>5 DEF ModemSends
  <2>4. CallOK'
    <3>1. <<p[2]>> \in Pipes
      BY <2>2 DEF Pipes
    <3>. QED  BY <1>1, <2>1, <2>2, <2>3, <3>1 DEF CallOK
  <2>5. ThreadOK' /\ LockInv'
    BY <1>1, <2>3 DEF ThreadOK, LockInv
  <2>. QED  BY <1>2, <2>4, <2>5 DEF HwTypeOK
<1>6. CASE Command(c)
  <2>1. /\ pipe[c] # <<>> /\ Take("vbc", c) /\ UNCHANGED modem
        /\ armed' = [armed EXCEPT ![c] = ArmedAfter(Head(pipe[c]))]
        /\ goal' = [goal EXCEPT ![c] = Head(pipe[c])]
        /\ Goto(c, "done") \/ Goto(c, "lock")
        /\ pipe' = [pipe EXCEPT ![c] = Tail(@)]
    BY <1>6 DEF Command
  <2>2. call_prestop' \in BOOLEAN
    <3>1. call_prestop' = CASE Head(pipe[c]) = "HAL_CLOSE" -> TRUE
                            [] Head(pipe[c]) = "RSP_CLOSE" -> FALSE
                            [] OTHER -> call_prestop
      BY <1>6 DEF Command
    <3>2. call_prestop \in BOOLEAN
      BY <1>1 DEF CallOK
    <3>. QED  BY <3>1, <3>2
  <2>3. PICK cmd \in Commands : pipe[c] = <<cmd>>
    BY SMTT(60), <1>1, <2>1 DEF CallOK, Pipes
  <2>4. Head(pipe[c]) \in Goals /\ Tail(pipe[c]) \in Pipes /\ ArmedAfter(Head(pipe[c])) \in BOOLEAN
    BY SMTT(60), <2>3 DEF Goals, ArmedAfter, Pipes
  <2>5. armed' \in [CPs -> BOOLEAN] /\ goal' \in [CPs -> Goals]
    BY <1>1, <2>1, <2>4 DEF CallOK
  <2>6. CallOK'
    BY <1>1, <2>1, <2>2, <2>4, <2>5 DEF CallOK
  <2>7. ThreadOK' /\ LockInv'
    BY <1>1, <1>3, <1>4, <2>1, Takes
  <2>. QED  BY <1>2, <2>6, <2>7 DEF HwTypeOK
<1>7. CASE GiveUp(c)
  <2>1. /\ goal' = [goal EXCEPT ![c] = "timeout"] /\ modem' = [modem EXCEPT ![c] = "idle"]
        /\ Goto(c, "lock") /\ UNCHANGED <<lock, call_prestop, pipe, armed>>
    BY <1>7 DEF GiveUp
  <2>2. CallOK'
    BY <1>1, <2>1 DEF CallOK, Goals
  <2>3. ThreadOK' /\ LockInv'
    BY <1>1, <1>3, <1>4, <2>1, Stays
  <2>. QED  BY <1>2, <2>2, <2>3 DEF HwTypeOK
<1>. QED  BY <1>5, <1>6, <1>7

\* The thread of a pipe that takes, keeps or gives back adev->lock.
LEMMA CallThreads ==
  ASSUME ThreadOK, LockInv, NEW c \in CPs, NEW l \in Places, Goto(c, l),
         \/ Take("adev", c)
         \/ UNCHANGED lock /\ pc[c] \in {"standbyOut", "standbyIn", "locked"}
         \/ Give({"adev"}) /\ pc[c] = "locked" /\ l = "done"
         \/ (Give({"vbc"}) \/ UNCHANGED lock) /\ l \in {"idle", "exited"}
  PROVE  ThreadOK' /\ LockInv'
<1>1. /\ c \in Threads /\ c \notin Streams /\ c # "policy" /\ "vbc" \in Mutexes
      /\ {"adev"} \in SUBSET Mutexes /\ {"vbc"} \in SUBSET Mutexes /\ "adev" \in Mutexes
      /\ {"adev"} \cap Streams = {} /\ {"vbc"} \cap Streams = {} /\ "adev" \notin {"vbc"}
  BY ThreadNames DEF Streams
<1>2. /\ \A m \in {"standbyOut", "standbyIn", "locked"} : HasDevice(c, m)
      /\ \A m \in {"done", "idle", "exited"} : ~HasDevice(c, m)
  BY <1>1 DEF HasDevice
<1>3. CASE Take("adev", c)
  BY <1>1, <1>3, Takes
<1>4. CASE UNCHANGED lock /\ pc[c] \in {"standbyOut", "standbyIn", "locked"}
  BY <1>1, <1>2, <1>4, Stays
<1>5. CASE Give({"adev"}) /\ pc[c] = "locked" /\ l = "done"
  <2>1. HasDevice(c, pc[c]) /\ ~HasDevice(c, l)
    BY <1>2, <1>5
  <2>. QED  BY <1>1, <1>5, <2>1, Gives
<1>6. CASE (Give({"vbc"}) \/ UNCHANGED lock) /\ l \in {"idle", "exited"}
  <2>1. ~HasDevice(c, l)
    BY <1>2, <1>6
  <2>. QED  BY <1>1, <1>6, <2>1, Gives, Stays
<1>. QED  BY <1>3, <1>4, <1>5, <1>6

LEMMA CallThreadTypes ==
  ASSUME HwTypeOK, LockInv, NEW c \in CPs, LockDevice(c) \/ CallThread(c)
  PROVE  HwTypeOK' /\ LockInv'
<1>1. ThreadOK /\ StreamOK /\ CallOK /\ RestOK /\ UNCHANGED <<voip_start, tmp>>
  BY DEF HwTypeOK, LockDevice, CallThread, ForceAllStandby, Locked, Done
<1>2. {"standbyOut", "standbyIn", "locked", "done", "idle", "exited"} \subseteq Places
  BY DEF Places
<1>3. CASE LockDevice(c)
  <2>1. /\ Take("adev", c) /\ (Goto(c, "standbyOut") \/ Goto(c, "locked"))
        /\ UNCHANGED <<streamVars, callVars, errors>>
    BY <1>3 DEF LockDevice
  <2>2. ThreadOK' /\ LockInv'
    BY <1>1, <1>2, <2>1, CallThreads
  <2>. QED  BY <1>1, <2>1, <2>2, Same DEF HwTypeOK
<1>4. CASE ForceAllStandby(c)
  <2>1. PICK s \in Streams :
          /\ pc[c] = IF s = "out" THEN "standbyOut" ELSE "standbyIn"
          /\ DoStandby(s) \/ UNCHANGED streamVars
          /\ Goto(c, IF s = "out" THEN "standbyIn" ELSE "locked")
    BY <1>4 DEF ForceAllStandby
  <2>2. UNCHANGED <<lock, callVars, errors>>
    BY <1>4 DEF ForceAllStandby
  <2>3. StreamOK'
    BY <1>1, <2>1, Standby, Same DEF StreamOK
  <2>4. /\ pc[c] \in {"standbyOut", "standbyIn", "locked"}
        /\ Goto(c, "standbyIn") \/ Goto(c, "locked")
    BY <2>1
  <2>5. ThreadOK' /\ LockInv'
    BY <1>1, <1>2, <2>2, <2>4, CallThreads
  <2>. QED  BY <1>1, <2>2, <2>3, <2>5, Same DEF HwTypeOK
<1>5. CASE Locked(c)
  <2>1. /\ pc[c] = "locked" /\ Give({"adev"}) /\ Goto(c, "done")
        /\ UNCHANGED <<stream, active, voip_state, pipe, armed, modem>>
    BY <1>5 DEF Locked
  <2>2. PICK ok \in (IF goal[c] = "HAL_OPEN" THEN Outcomes ELSE {TRUE}) :
          /\ Counted(ok) /\ goal' = [goal EXCEPT ![c] = IF ok THEN @ ELSE "failed"]
          /\ codec' = IF goal[c] = "HAL_OPEN" THEN ok ELSE codec /\ ~EndsCall(c)
    BY <1>5 DEF Locked
  <2>3. ok \in BOOLEAN
    BY OutcomesType
  <2>4. codec' \in BOOLEAN
    BY <2>2, <2>3
  <2>5. call_start' \in BOOLEAN /\ call_connected' \in BOOLEAN /\ call_prestop' \in BOOLEAN
    BY <1>5 DEF Locked, PrestopAfter
  <2>6. goal' \in [CPs -> Goals]
    BY <1>1, <2>2 DEF CallOK, Goals
  <2>7. RestOK'
    <3>1. errors' \in Nat
      BY <1>1, <2>2, <2>3, CountedType DEF RestOK
    <3>. QED  BY <1>1, <3>1 DEF RestOK
  <2>8. CallOK'
    BY <1>1, <2>1, <2>5, <2>6 DEF CallOK
  <2>9. StreamOK'
    BY <1>1, <2>1, <2>4 DEF StreamOK
  <2>10. ThreadOK' /\ LockInv'
    BY <1>1, <1>2, <2>1, CallThreads
  <2>. QED  BY <2>7, <2>8, <2>9, <2>10 DEF HwTypeOK
<1>6. CASE Done(c)
  <2>1. /\ goal' = [goal EXCEPT ![c] = "none"] /\ (Goto(c, "idle") \/ Goto(c, "exited"))
        /\ Give({"vbc"}) \/ UNCHANGED lock
        /\ UNCHANGED <<streamVars, call_start, call_connected, call_prestop, modem, errors>>
    BY <1>6 DEF Done
  <2>2. /\ pipe' \in {pipe, [pipe EXCEPT ![c] = <<>>]}
        /\ armed' \in {armed, [armed EXCEPT ![c] = FALSE]}
    BY <1>6 DEF Done
  <2>3. CallOK'
    <3>0. <<>> \in Pipes
      BY DEF Pipes
    <3>1. pipe' \in [CPs -> Pipes]
      BY SMTT(60), <1>1, <2>2, <3>0 DEF CallOK
    <3>2. armed' \in [CPs -> BOOLEAN]
      <4>1. CASE armed' = armed
        BY <1>1, <4>1 DEF CallOK
      <4>2. CASE armed' = [armed EXCEPT ![c] = FALSE]
        BY <1>1, <4>2 DEF CallOK
      <4>. QED  BY <2>2, <4>1, <4>2
    <3>3. goal' \in [CPs -> Goals]
      BY <1>1, <2>1 DEF CallOK, Goals
    <3>. QED  BY <1>1, <2>1, <3>1, <3>2, <3>3 DEF CallOK
  <2>4. ThreadOK' /\ LockInv'
    BY <1>1, <1>2, <2>1, CallThreads
  <2>. QED  BY <1>1, <2>1, <2>3, <2>4, Same DEF HwTypeOK
<1>. QED  BY <1>3, <1>4, <1>5, <1>6 DEF CallThread

\* A step that opens no PCM: a stream is closed or left as it is.
OpensNone == \A s \in Streams : \/ stream'[s].pcm = "none"
                                \/ stream'[s] = stream[s] /\ active'[s] = active[s]

LEMMA StandbyOpensNone ==
  ASSUME StreamOK, PcmOpen, NEW s \in Streams, DoStandby(s)
  PROVE  OpensNone /\ stream'[s].pcm = "none"
<1>1. \A o \in Streams : o # s => stream'[o] = stream[o] /\ active'[o] = active[o]
  BY Standby
<1>2. stream'[s].pcm = "none"
  <2>1. CASE stream[s].standby /\ UNCHANGED streamVars
    <3>1. stream[s].pcm = "none"
      BY <2>1 DEF PcmOpen
    <3>. QED  BY <2>1, <3>1 DEF streamVars
  <2>2. CASE stream'[s] = Asleep
    BY <2>2, AsleepType
  <2>. QED  BY <2>1, <2>2, Standby
<1>. QED  BY <1>1, <1>2 DEF OpensNone

LEMMA UnchangedOpensNone ==
  ASSUME UNCHANGED streamVars
  PROVE  OpensNone
  BY DEF OpensNone, streamVars

LEMMA QuietStep ==
  ASSUME MediaInv, OpensNone, UNCHANGED call_start
  PROVE  PcmOpen' /\ NoMediaInCall'
<1>1. PcmOpen /\ NoMediaInCall
  BY DEF MediaInv
<1>2. PcmOpen'
  BY <1>1 DEF PcmOpen, OpensNone
<1>3. NoMediaInCall'
  <2>1. "none" # "mm"
    OBVIOUS
  <2>. QED  BY <1>1, <2>1 DEF NoMediaInCall, OpensNone
<1>. QED  BY <1>2, <1>3

\* The streams' threads and the policy thread leave what PcmClosed says alone.
LEMMA ClosedKept ==
  ASSUME MediaInv, OpensNone, UNCHANGED callVars, \A c \in CPs : pc'[c] = pc[c]
  PROVE  PcmClosed'
<1>1. UNCHANGED <<call_start, goal>>
  BY DEF callVars
<1>2. ASSUME NEW c \in CPs, NEW s \in Streams, Closed(c, s)', ClosesStreams(c)'
      PROVE  stream'[s].pcm = "none"
  <2>1. Closed(c, s) /\ ClosesStreams(c)
    BY <1>1, <1>2 DEF Closed, ClosesStreams, ClosesCall
  <2>2. stream[s].pcm = "none"
    BY <2>1 DEF MediaInv, PcmClosed
  <2>. QED  BY <2>2 DEF OpensNone
<1>. QED  BY <1>2 DEF PcmClosed

\* A step of a stream or of the policy thread that opens no PCM.
LEMMA QuietThread ==
  ASSUME MediaInv, HwTypeOK', LockInv', OpensNone, UNCHANGED callVars,
         NEW t \in Streams \cup {"policy"}, NEW l, Goto(t, l),
         (t = "out" /\ l \in {"voip", "join", "start"}) =>
            (pc["out"] \in {"voip", "join", "start"} \/ (call_start => call_connected))
  PROVE  MediaInv'
<1>1. HwTypeOK /\ ThreadOK /\ OutPath /\ UNCHANGED <<call_start, call_connected>>
  BY DEF MediaInv, HwTypeOK, callVars
<1>2. /\ t \in Threads /\ "out" \in Threads /\ t \notin CPs /\ CPs \subseteq Threads
  BY ThreadNames
<1>3. pc'[t] = l /\ \A u \in Threads : u # t => pc'[u] = pc[u]
  BY <1>1, <1>2 DEF ThreadOK, Goto
<1>4. \A c \in CPs : pc'[c] = pc[c]
  BY <1>2, <1>3
<1>5. PcmClosed' /\ PcmOpen' /\ NoMediaInCall'
  BY <1>1, <1>4, ClosedKept, QuietStep
<1>6. OutPath'
  BY <1>1, <1>2, <1>3 DEF OutPath
<1>. QED  BY <1>5, <1>6 DEF MediaInv

LEMMA LockMedia ==
  ASSUME MediaInv, NEW s \in Streams, Lock(s)
  PROVE  MediaInv'
<1>1. HwTypeOK' /\ LockInv'
  BY LockTypes DEF MediaInv
<1>2. UNCHANGED <<streamVars, callVars>> /\ (Goto(s, "stream") \/ Goto(s, "decide"))
  BY DEF Lock
<1>. QED  BY <1>1, <1>2, UnchangedOpensNone, QuietThread

LEMMA DecideMedia ==
  ASSUME MediaInv, NEW s \in Streams, Decide(s)
  PROVE  MediaInv'
<1>1. HwTypeOK' /\ LockInv' /\ UNCHANGED callVars /\ StreamOK /\ PcmOpen
  BY DecideTypes DEF MediaInv, HwTypeOK, Decide
<1>2. OpensNone
  <2>1. CASE UNCHANGED <<stream, active>>
    BY <2>1 DEF OpensNone
  <2>2. CASE DoStandby(s)
    BY <1>1, <2>2, StandbyOpensNone
  <2>. QED  BY <2>1, <2>2 DEF Decide, streamVars
<1>3. CASE Goto(s, "idle")
  BY <1>1, <1>2, <1>3, QuietThread
<1>4. CASE ~Bypass(s) /\ (Goto(s, "voip") \/ Goto(s, "start"))
  <2>1. s = "out" => (call_start => call_connected)
    BY <1>4 DEF Bypass
  <2>. QED  BY <1>1, <1>2, <1>4, <2>1, QuietThread
<1>. QED  BY <1>3, <1>4 DEF Decide

LEMMA VoipMedia ==
  ASSUME MediaInv, NEW s \in Streams, ForceStandbyForVoip(s) \/ JoinVoip(s)
  PROVE  MediaInv'
<1>1. HwTypeOK' /\ LockInv' /\ UNCHANGED callVars /\ StreamOK /\ PcmOpen
  BY VoipTypes DEF MediaInv, HwTypeOK, ForceStandbyForVoip, JoinVoip
<1>2. CASE ForceStandbyForVoip(s)
  <2>1. OpensNone
    <3>1. CASE UNCHANGED streamVars
      BY <3>1, UnchangedOpensNone
    <3>2. CASE DoStandby(Other(s))
      BY <1>1, <3>2, StandbyOpensNone, OtherStream
    <3>. QED  BY <1>2, <3>1, <3>2 DEF ForceStandbyForVoip
  <2>2. pc[s] \in {"voip", "join", "start"} /\ Goto(s, "join")
    BY <1>2 DEF ForceStandbyForVoip
  <2>. QED  BY <1>1, <2>1, <2>2, QuietThread
<1>3. CASE JoinVoip(s)
  <2>1. /\ stream' = [stream EXCEPT ![s] = InVoip]
        /\ active' = [active EXCEPT ![s] = @ /\ stream[s].standby]
        /\ pc[s] \in {"voip", "join", "start"} /\ Goto(s, "start")
    BY <1>3 DEF JoinVoip
  <2>2. OpensNone
    <3>1. stream'[s] = InVoip
      BY <1>1, <2>1 DEF StreamOK
    <3>2. \A o \in Streams : o # s => stream'[o] = stream[o] /\ active'[o] = active[o]
      BY <1>1, <2>1 DEF StreamOK
    <3>3. stream'[s].pcm = "none"
      BY <3>1, JoinedType
    <3>. QED  BY <3>2, <3>3 DEF OpensNone
  <2>. QED  BY <1>1, <2>1, <2>2, QuietThread
<1>. QED  BY <1>2, <1>3

\* Who has adev->lock is alone with it.
LEMMA OneDevice ==
  ASSUME LockInv, NEW t \in Threads, NEW u \in Threads, HasDevice(t, pc[t]), HasDevice(u, pc[u])
  PROVE  t = u
  BY DEF LockInv

LEMMA StartMedia ==
  ASSUME MediaInv, NEW s \in Streams, Start(s)
  PROVE  MediaInv'
<1>1. /\ HwTypeOK' /\ LockInv' /\ UNCHANGED callVars /\ ThreadOK /\ StreamOK /\ RestOK /\ PcmOpen
      /\ LockInv /\ OutPath /\ NoMediaInCall /\ pc[s] = "start"
      /\ UNCHANGED <<call_start, call_connected, goal>>
  BY StartTypes DEF MediaInv, HwTypeOK, Start, callVars
<1>2. CASE Dropped(s) \/ ~stream[s].standby
  <2>1. UNCHANGED streamVars /\ (Goto(s, "idle") \/ Goto(s, "io"))
    BY <1>2 DEF Start
  <2>2. OpensNone
    BY <2>1, UnchangedOpensNone
  <2>. QED  BY <1>1, <2>1, <2>2, QuietThread
<1>3. CASE ~Dropped(s) /\ stream[s].standby
  <2>1. /\ \A o \in Streams : o # s => stream'[o] = stream[o] /\ active'[o] = active[o]
        /\ stream'[s].standby = FALSE
        /\ \/ Goto(s, "io") /\ stream'[s].pcm = Path(s) /\ active'[s]
           \/ Goto(s, "exit") /\ stream'[s].pcm = "none"
    BY <1>1, <1>3, OpenedEffect DEF RestOK
  <2>2. PcmOpen'
    BY <1>1, <2>1 DEF PcmOpen
  <2>3. s \in Threads /\ s \notin CPs /\ "out" \in Threads /\ CPs \subseteq Threads
    BY ThreadNames
  <2>4. /\ pc'[s] \in {"io", "exit"}
        /\ \A u \in Threads : u # s => pc'[u] = pc[u]
    BY <1>1, <2>1, <2>3 DEF ThreadOK, Goto
  <2>5. OutPath'
    BY <1>1, <2>3, <2>4 DEF OutPath
  <2>6. PcmClosed'
    <3>1. ASSUME NEW c \in CPs, NEW o \in Streams, Closed(c, o)'
          PROVE  FALSE
      <4>1. HasDevice(s, pc[s])
        BY <1>1 DEF HasDevice, Both
      <4>2. HasDevice(c, pc[c])
        BY <2>3, <2>4, <3>1 DEF HasDevice, Closed
      <4>. QED  BY <1>1, <2>3, <4>1, <4>2, OneDevice
    <3>. QED  BY <3>1 DEF PcmClosed
  <2>7. call_start => Path(s) # "mm"
    <3>1. CASE s = "out"
      BY <1>1, <3>1 DEF Path, OutPath
    <3>2. CASE s # "out"
      BY <3>2 DEF Path
    <3>. QED  BY <3>1, <3>2
  <2>8. NoMediaInCall'
    BY <1>1, <2>1, <2>7 DEF NoMediaInCall
  <2>. QED  BY <1>1, <2>2, <2>5, <2>6, <2>8 DEF MediaInv
<1>. QED  BY <1>2, <1>3

LEMMA IoMedia ==
  ASSUME MediaInv, NEW s \in Streams, Io(s) \/ ExitRead(s) \/ ExitWrite(s)
  PROVE  MediaInv'
<1>1. HwTypeOK' /\ LockInv' /\ UNCHANGED callVars /\ StreamOK
  BY IoTypes DEF MediaInv, HwTypeOK, Io, ExitRead, ExitWrite
<1>2. Goto(s, "idle") \/ Goto(s, "exit") \/ Goto(s, "exit2")
  BY DEF Io, ExitRead, ExitWrite
<1>3. OpensNone
  <2>1. CASE UNCHANGED streamVars
    BY <2>1, UnchangedOpensNone
  <2>2. CASE ExitWrite(s)
    <3>1. /\ stream'[s] = Asleep
          /\ \A o \in Streams : o # s => stream'[o] = stream[o] /\ active'[o] = active[o]
      BY <1>1, <2>2 DEF ExitWrite, StreamOK
    <3>2. stream'[s].pcm = "none"
      BY <3>1, AsleepType
    <3>. QED  BY <3>1, <3>2 DEF OpensNone
  <2>. QED  BY <2>1, <2>2 DEF Io, ExitRead
<1>. QED  BY <1>1, <1>2, <1>3, QuietThread

LEMMA PolicyMedia ==
  ASSUME MediaInv, Policy \/ SetVoip
  PROVE  MediaInv'
<1>1. HwTypeOK' /\ LockInv' /\ UNCHANGED callVars /\ StreamOK /\ PcmOpen
  BY PolicyTypes DEF MediaInv, HwTypeOK, Policy, SetVoip
<1>2. OpensNone
  BY <1>1, UnchangedOpensNone, StandbyOpensNone DEF Policy, SetVoip
<1>3. CASE Policy
  <2>1. \E l : Goto("policy", l)
    BY <1>3 DEF Policy
  <2>. QED  BY <1>1, <1>2, <2>1, QuietThread
<1>4. CASE SetVoip
  <2>1. UNCHANGED pc
    BY <1>4 DEF SetVoip
  <2>2. PcmClosed' /\ PcmOpen' /\ NoMediaInCall'
    BY <1>1, <1>2, <2>1, ClosedKept, QuietStep DEF callVars
  <2>3. OutPath'
    BY <1>1, <2>1 DEF OutPath, MediaInv, callVars
  <2>. QED  BY <1>1, <2>2, <2>3 DEF MediaInv
<1>. QED  BY <1>3, <1>4

\* A step of a pipe's thread that opens no PCM and keeps the call's state.
LEMMA QuietPipe ==
  ASSUME MediaInv, HwTypeOK', LockInv', OpensNone, UNCHANGED <<call_start, call_connected>>,
         NEW c \in CPs, \A u \in Threads \ {c} : pc'[u] = pc[u],
         \A d \in CPs \ {c} : goal'[d] = goal[d],
         \A s \in Streams : Closed(c, s)' /\ ClosesStreams(c)' => stream'[s].pcm = "none"
  PROVE  MediaInv'
<1>1. OutPath /\ PcmClosed
  BY DEF MediaInv
<1>2. "out" \in Threads \ {c} /\ CPs \subseteq Threads
  BY ThreadNames
<1>3. OutPath'
  BY <1>1, <1>2 DEF OutPath
<1>4. PcmOpen' /\ NoMediaInCall'
  BY QuietStep
<1>5. ASSUME NEW d \in CPs \ {c}, NEW s \in Streams, Closed(d, s)', ClosesStreams(d)'
      PROVE  stream'[s].pcm = "none"
  <2>1. pc'[d] = pc[d] /\ goal'[d] = goal[d]
    BY <1>2
  <2>2. Closed(d, s) /\ ClosesStreams(d)
    BY <1>5, <2>1 DEF Closed, ClosesStreams, ClosesCall
  <2>3. stream[s].pcm = "none"
    BY <1>1, <2>2 DEF PcmClosed
  <2>. QED  BY <2>3 DEF OpensNone
<1>6. PcmClosed'
  BY <1>5 DEF PcmClosed
<1>. QED  BY <1>3, <1>4, <1>6 DEF MediaInv

LEMMA CallMedia ==
  ASSUME MediaInv, NEW c \in CPs, ModemSends(c) \/ Command(c) \/ GiveUp(c)
  PROVE  MediaInv'
<1>1. /\ HwTypeOK' /\ LockInv' /\ ThreadOK /\ CallOK /\ c \in Threads
      /\ UNCHANGED <<streamVars, call_start, call_connected>>
  BY CallTypes, ThreadNames
     DEF MediaInv, HwTypeOK, ModemSends, Command, GiveUp, Threads
<1>2. OpensNone
  BY <1>1, UnchangedOpensNone
<1>3. CASE ModemSends(c)
  <2>1. UNCHANGED <<pc, goal>>
    BY <1>3 DEF ModemSends
  <2>2. ASSUME NEW s \in Streams, Closed(c, s)', ClosesStreams(c)'
        PROVE  stream'[s].pcm = "none"
    <3>1. Closed(c, s) /\ ClosesStreams(c)
      BY <1>1, <2>1, <2>2 DEF Closed, ClosesStreams, ClosesCall
    <3>2. stream[s].pcm = "none"
      BY <3>1 DEF MediaInv, PcmClosed
    <3>. QED  BY <1>1, <3>2 DEF streamVars
  <2>. QED  BY <1>1, <1>2, <2>1, <2>2, QuietPipe
<1>4. CASE Command(c) \/ GiveUp(c)
  <2>1. (Goto(c, "lock") \/ Goto(c, "done")) /\ \E g : goal' = [goal EXCEPT ![c] = g]
    BY <1>4 DEF Command, GiveUp
  <2>2. pc'[c] \in {"lock", "done"} /\ \A u \in Threads \ {c} : pc'[u] = pc[u]
    BY <1>1, <2>1 DEF ThreadOK, Goto
  <2>3. \A d \in CPs \ {c} : goal'[d] = goal[d]
    BY <1>1, <2>1 DEF CallOK
  <2>4. \A s \in Streams : ~Closed(c, s)'
    BY <2>2 DEF Closed
  <2>. QED  BY <1>1, <1>2, <2>2, <2>3, <2>4, QuietPipe
<1>. QED  BY <1>3, <1>4

LEMMA LockDeviceMedia ==
  ASSUME MediaInv, NEW c \in CPs, LockDevice(c)
  PROVE  MediaInv'
<1>0. HwTypeOK' /\ LockInv'
  BY CallThreadTypes DEF MediaInv
<1>1. /\ HwTypeOK' /\ LockInv' /\ ThreadOK /\ CallOK /\ c \in Threads
      /\ UNCHANGED <<streamVars, callVars>> /\ UNCHANGED <<call_start, call_connected, goal>>
  BY <1>0, ThreadNames DEF MediaInv, HwTypeOK, LockDevice, callVars
<1>2. OpensNone
  BY <1>1, UnchangedOpensNone
<1>3. CASE Goto(c, "standbyOut")
  <2>1. pc'[c] = "standbyOut" /\ \A u \in Threads \ {c} : pc'[u] = pc[u]
    BY <1>1, <1>3 DEF ThreadOK, Goto
  <2>2. \A s \in Streams : ~Closed(c, s)'
    BY <2>1 DEF Closed
  <2>. QED  BY <1>1, <1>2, <2>1, <2>2, QuietPipe
<1>4. CASE Goto(c, "locked") /\ ~ClosesStreams(c)
  <2>1. \A u \in Threads \ {c} : pc'[u] = pc[u]
    BY <1>1, <1>4 DEF ThreadOK, Goto
  <2>2. ~ClosesStreams(c)'
    BY <1>1, <1>4 DEF ClosesStreams, ClosesCall
  <2>. QED  BY <1>1, <1>2, <2>1, <2>2, QuietPipe
<1>5. Goto(c, "standbyOut") \/ (Goto(c, "locked") /\ ~ClosesStreams(c))
  <2>1. CASE goal[c] = "HAL_OPEN"
    BY <2>1 DEF LockDevice
  <2>2. CASE goal[c] = "SWITCH_CTRL"
    <3>1. ~ClosesStreams(c) /\ goal[c] # "HAL_OPEN"
      BY <2>2 DEF ClosesStreams, ClosesCall
    <3>. QED  BY <2>2, <3>1 DEF LockDevice
  <2>3. CASE goal[c] \notin {"HAL_OPEN", "SWITCH_CTRL"} /\ call_start
    BY <2>3 DEF LockDevice
  <2>4. CASE goal[c] \notin {"HAL_OPEN", "SWITCH_CTRL"} /\ ~call_start
    <3>1. ~ClosesStreams(c)
      BY <2>4 DEF ClosesStreams
    <3>. QED  BY <2>4, <3>1 DEF LockDevice
  <2>. QED  BY <2>1, <2>2, <2>3, <2>4
<1>. QED  BY <1>3, <1>4, <1>5

LEMMA ForceMedia ==
  ASSUME MediaInv, NEW c \in CPs, ForceAllStandby(c)
  PROVE  MediaInv'
<1>0. HwTypeOK' /\ LockInv'
  BY CallThreadTypes DEF MediaInv, CallThread
<1>1. /\ HwTypeOK' /\ LockInv' /\ ThreadOK /\ CallOK /\ StreamOK /\ PcmOpen /\ c \in Threads
      /\ UNCHANGED callVars /\ UNCHANGED <<call_start, call_connected, goal>>
  BY <1>0, ThreadNames DEF MediaInv, HwTypeOK, ForceAllStandby, callVars
<1>2. PICK s \in Streams :
        /\ pc[c] = IF s = "out" THEN "standbyOut" ELSE "standbyIn"
        /\ IF active[s] THEN DoStandby(s) ELSE UNCHANGED streamVars
        /\ Goto(c, IF s = "out" THEN "standbyIn" ELSE "locked")
  BY DEF ForceAllStandby
<1>3. OpensNone /\ stream'[s].pcm = "none"
  <2>1. CASE active[s]
    BY <1>1, <1>2, <2>1, StandbyOpensNone
  <2>2. CASE ~active[s]
    <3>1. stream[s].pcm = "none" /\ UNCHANGED streamVars
      BY <1>1, <1>2, <2>2 DEF PcmOpen
    <3>. QED  BY <3>1, UnchangedOpensNone DEF streamVars
  <2>. QED  BY <2>1, <2>2
<1>4. /\ pc'[c] = IF s = "out" THEN "standbyIn" ELSE "locked"
      /\ \A u \in Threads \ {c} : pc'[u] = pc[u]
  BY <1>1, <1>2 DEF ThreadOK, Goto
<1>5. ASSUME NEW o \in Streams, Closed(c, o)', ClosesStreams(c)'
      PROVE  stream'[o].pcm = "none"
  <2>1. CASE o = s
    BY <1>3, <2>1
  <2>2. CASE o # s
    <3>1. s = "in" /\ o = "out"
      BY <1>4, <1>5, <2>2 DEF Closed, Streams
    <3>2. Closed(c, o) /\ ClosesStreams(c)
      BY <1>1, <1>2, <1>5, <3>1 DEF Closed, ClosesStreams, ClosesCall
    <3>3. stream[o].pcm = "none"
      BY <3>2 DEF MediaInv, PcmClosed
    <3>. QED  BY <1>3, <3>3 DEF OpensNone
  <2>. QED  BY <2>1, <2>2
<1>. QED  BY <1>1, <1>3, <1>4, <1>5, QuietPipe

LEMMA LockedMedia ==
  ASSUME MediaInv, NEW c \in CPs, Locked(c)
  PROVE  MediaInv'
<1>0. HwTypeOK' /\ LockInv'
  BY CallThreadTypes DEF MediaInv, CallThread
<1>1. /\ HwTypeOK' /\ LockInv' /\ ThreadOK /\ CallOK /\ LockInv /\ PcmOpen /\ PcmClosed
      /\ NoMediaInCall /\ OutPath /\ pc[c] = "locked" /\ UNCHANGED <<stream, active>>
      /\ Goto(c, "done")
  BY <1>0 DEF MediaInv, HwTypeOK, Locked
<1>2. CPs \subseteq Threads /\ Streams \subseteq Threads /\ c \notin Streams /\ c \in Threads
      /\ "out" \in Streams /\ HasDevice(c, pc[c]) /\ "policy" \notin CPs
  BY <1>1, ThreadNames DEF HasDevice
<1>3. pc'[c] = "done" /\ \A u \in Threads \ {c} : pc'[u] = pc[u]
  BY <1>1, <1>2 DEF ThreadOK, Goto
<1>4. PcmOpen'
  BY <1>1 DEF PcmOpen
<1>5. OutPath'
  <2>1. ~HasDevice("out", pc["out"])
    BY <1>1, <1>2, OneDevice
  <2>2. pc["out"] \notin {"voip", "join", "start"}
    BY <1>2, <2>1 DEF HasDevice, Both
  <2>. QED  BY <1>2, <1>3, <2>2 DEF OutPath
<1>6. PcmClosed'
  <2>1. ASSUME NEW d \in CPs, NEW s \in Streams, Closed(d, s)' PROVE FALSE
    <3>1. d # c /\ pc'[d] = pc[d] /\ pc[d] \in {"standbyIn", "locked"}
      BY <1>2, <1>3, <2>1 DEF Closed
    <3>2. HasDevice(d, pc[d])
      BY <3>1 DEF HasDevice
    <3>. QED  BY <1>1, <1>2, <3>1, <3>2, OneDevice
  <2>. QED  BY <2>1 DEF PcmClosed
<1>7. NoMediaInCall'
  <2>1. CASE goal[c] = "HAL_OPEN"
    <3>1. \A s \in Streams : Closed(c, s) /\ ClosesStreams(c)
      BY <1>1, <2>1 DEF Closed, ClosesStreams
    <3>2. \A s \in Streams : stream[s].pcm = "none"
      BY <1>1, <3>1 DEF PcmClosed
    <3>. QED  BY <1>1, <3>2 DEF NoMediaInCall
  <2>2. CASE goal[c] # "HAL_OPEN"
    <3>1. call_start' => call_start
      BY <2>2 DEF Locked
    <3>. QED  BY <1>1, <3>1 DEF NoMediaInCall
  <2>. QED  BY <2>1, <2>2
<1>. QED  BY <1>1, <1>4, <1>5, <1>6, <1>7 DEF MediaInv

LEMMA DoneMedia ==
  ASSUME MediaInv, NEW c \in CPs, Done(c)
  PROVE  MediaInv'
<1>0. HwTypeOK' /\ LockInv'
  BY CallThreadTypes DEF MediaInv, CallThread
<1>1. /\ HwTypeOK' /\ LockInv' /\ ThreadOK /\ CallOK /\ c \in Threads
      /\ UNCHANGED <<streamVars, call_start, call_connected>>
      /\ goal' = [goal EXCEPT ![c] = "none"]
  BY <1>0, ThreadNames DEF MediaInv, HwTypeOK, Done
<1>2. Goto(c, "idle") \/ Goto(c, "exited")
  BY DEF Done
<1>3. pc'[c] \in {"idle", "exited"} /\ \A u \in Threads \ {c} : pc'[u] = pc[u]
  BY <1>1, <1>2 DEF ThreadOK, Goto
<1>4. \A d \in CPs \ {c} : goal'[d] = goal[d]
  BY <1>1 DEF CallOK
<1>5. \A s \in Streams : ~Closed(c, s)'
  BY <1>3 DEF Closed
<1>6. OpensNone
  BY <1>1, UnchangedOpensNone
<1>. QED  BY <1>1, <1>3, <1>4, <1>5, <1>6, QuietPipe

LEMMA MediaInit ==
  ASSUME Init
  PROVE  MediaInv
<1>1. /\ \A s \in Streams : stream[s] = Asleep
      /\ \A t \in Threads : pc[t] = "idle"
      /\ ~call_start
  BY DEF Init
<1>2. \A s \in Streams : stream[s].pcm = "none"
  BY <1>1, AsleepType
<1>3. ThreadOK
  BY DEF Init, ThreadOK, Mutexes, Threads, Places
<1>4. StreamOK
  <2>1. stream = [s \in Streams |-> Asleep] /\ active = [s \in Streams |-> FALSE]
        /\ voip_state = {} /\ codec = FALSE
    BY DEF Init
  <2>2. stream \in [Streams -> StreamType] /\ voip_state \in SUBSET Streams
    BY <2>1, AsleepType
  <2>3. active \in [Streams -> BOOLEAN] /\ codec \in BOOLEAN
    BY <2>1
  <2>. QED  BY <2>2, <2>3 DEF StreamOK
<1>5. CallOK
  <2>1. /\ call_start = FALSE /\ call_connected = FALSE /\ call_prestop = FALSE
        /\ pipe = [c \in CPs |-> <<>>] /\ armed = [c \in CPs |-> FALSE]
        /\ goal = [c \in CPs |-> "none"] /\ modem = [c \in CPs |-> "idle"]
    BY DEF Init
  <2>2. <<>> \in Pipes /\ "none" \in Goals
    BY DEF Pipes, Goals
  <2>3. /\ call_start \in BOOLEAN /\ call_connected \in BOOLEAN /\ call_prestop \in BOOLEAN
        /\ armed \in [CPs -> BOOLEAN]
    BY <2>1
  <2>4. /\ pipe \in [CPs -> Pipes] /\ goal \in [CPs -> Goals]
        /\ modem \in [CPs -> {"idle", "opened", "connected", "closing"}]
    BY <2>1, <2>2
  <2>. QED  BY <2>3, <2>4 DEF CallOK
<1>6. RestOK
  <2>1. voip_start = FALSE /\ tmp = [s \in Streams |-> {}] /\ errors = 0
    BY DEF Init
  <2>2. voip_start \in BOOLEAN
    BY <2>1
  <2>3. tmp \in [Streams -> SUBSET Streams] /\ errors \in Nat
    BY <2>1
  <2>. QED  BY <2>2, <2>3 DEF RestOK
<1>7. LockInv
  BY <1>1, ThreadNames DEF LockInv, HasDevice, HasStream, Both
<1>8. PcmOpen /\ NoMediaInCall
  BY <1>1, <1>2 DEF PcmOpen, NoMediaInCall
<1>9. OutPath /\ PcmClosed
  BY <1>1, ThreadNames DEF OutPath, PcmClosed, Closed
<1>. QED  BY <1>3, <1>4, <1>5, <1>6, <1>7, <1>8, <1>9 DEF MediaInv, HwTypeOK

LEMMA MediaStep ==
  ASSUME MediaInv, [Next]_vars
  PROVE  MediaInv'
<1>1. CASE \E s \in Streams : Lock(s) \/ StreamStep(s)
  BY <1>1, LockMedia, DecideMedia, VoipMedia, StartMedia, IoMedia DEF StreamStep
<1>2. CASE Policy \/ SetVoip
  BY <1>2, PolicyMedia
<1>3. CASE \E c \in CPs : ModemSends(c) \/ Command(c) \/ GiveUp(c)
  BY <1>3, CallMedia
<1>4. CASE \E c \in CPs : LockDevice(c) \/ CallThread(c)
  BY <1>4, LockDeviceMedia, ForceMedia, LockedMedia, DoneMedia DEF CallThread
<1>5. CASE UNCHANGED vars
  <2>1. UNCHANGED <<lock, pc, streamVars, voip_start, tmp, callVars, errors>>
    BY <1>5 DEF vars
  <2>2. HwTypeOK' /\ LockInv'
    BY <2>1, Same DEF MediaInv, HwTypeOK, ThreadOK, LockInv
  <2>3. PcmOpen' /\ NoMediaInCall' /\ PcmClosed'
    BY <2>1, UnchangedOpensNone, QuietStep, ClosedKept DEF callVars
  <2>4. OutPath'
    BY <2>1 DEF MediaInv, OutPath, callVars
  <2>. QED  BY <2>2, <2>3, <2>4 DEF MediaInv
<1>. QED  BY <1>1, <1>2, <1>3, <1>4, <1>5 DEF Next

\* The types, the mutexes, and what is closed while a call is opened or ended, for
\* any number of modems (out_write, in_read, vbc_ctrl_thread_routine).
THEOREM AlwaysMediaInv == Spec => []MediaInv
<1>1. Init => MediaInv
  BY MediaInit
<1>2. MediaInv /\ [Next]_vars => MediaInv'
  BY MediaStep
<1>. QED  BY <1>1, <1>2, PTL DEF Spec

\* The streams' and the calls' variables keep their types.
THEOREM HwTypes == Spec => []HwTypeOK
<1>1. MediaInv => HwTypeOK
  BY DEF MediaInv
<1>. QED  BY <1>1, AlwaysMediaInv, PTL

\* force_all_standby leaves no media PCM open in a call, for any number of modems
\* whose pipes open and end calls, and whatever fails.
THEOREM AlwaysNoMediaInCall == Spec => []NoMediaInCall
<1>1. MediaInv => NoMediaInCall
  BY DEF MediaInv
<1>. QED  BY <1>1, AlwaysMediaInv, PTL

-----------------------------------------------------------------------------
(* The VoIP session *)

\* A step of a stream's thread that neither begins nor ends joining.
Moves(s) ==
    /\ pc'[s] \in Joining <=> pc[s] \in Joining
    /\ pc'[s] \notin Failing
    /\ pc[s] = "start" => pc'[s] = "start" \/ ~stream[s].is_sco \/ ~stream[s].standby

\* A step that leaves a stream alone.
LEMMA MoveVoip ==
  ASSUME NEW s \in Streams, VoipOK(s), Moves(s), stream'[s] = stream[s],
         s \in voip_state' <=> s \in voip_state, call_start' = call_start,
         stream[s].is_sco /\ codec => codec'
  PROVE  VoipOK(s)'
<1>1. /\ pc'[s] \notin Failing
      /\ pc'[s] \in Joining => s \in voip_state' /\ ~stream'[s].is_sco /\ ~call_start'
      /\ pc'[s] \notin Joining => (s \in voip_state' <=> stream'[s].is_sco)
  BY DEF VoipOK, Moves
<1>2. /\ stream'[s].is_sco /\ stream'[s].standby => pc'[s] = "start"
      /\ stream'[s].is_sco /\ ~stream'[s].standby => codec'
      /\ ~stream'[s].standby => stream'[s].pcm # "none"
      /\ call_start' => ~stream'[s].is_sco
  BY DEF VoipOK, Moves
<1>. QED  BY <1>1, <1>2 DEF VoipOK

LEMMA GotoMoves ==
  ASSUME ThreadOK, NEW t \in Threads, NEW l, Goto(t, l), NEW s \in Streams, pc[s] \notin Failing,
         s = t => /\ l \in Joining <=> pc[s] \in Joining
                  /\ l \notin Failing
                  /\ pc[s] = "start" => l = "start" \/ ~stream[s].is_sco \/ ~stream[s].standby
  PROVE  Moves(s)
<1>1. s \in Threads
  BY ThreadNames
<1>2. pc'[t] = l /\ \A u \in Threads : u # t => pc'[u] = pc[u]
  BY DEF ThreadOK, Goto
<1>. QED  BY <1>1, <1>2 DEF Moves

\* A step that leaves the streams alone.
LEMMA QuietVoip ==
  ASSUME VoipInv, UNCHANGED streamVars, UNCHANGED call_start, errors' = 0 => errors = 0,
         errors' = 0 => \A s \in Streams : Moves(s)
  PROVE  VoipInv'
<1>1. UNCHANGED <<stream, voip_state, codec>>
  BY DEF streamVars
<1>. QED  BY <1>1, MoveVoip DEF VoipInv

\* A stream put to standby leaves the session, and closes the modem PCMs only when
\* it was the last one in it.
LEMMA StandbyVoip ==
  ASSUME StreamOK, VoipInv, NEW s \in Streams, DoStandby(s), pc[s] \notin Joining,
         UNCHANGED call_start, errors' = errors,
         errors' = 0 => \A o \in Streams : Moves(o)
  PROVE  VoipInv'
<1>1. CASE UNCHANGED streamVars
  BY <1>1, QuietVoip
<1>2. CASE ~UNCHANGED streamVars
  <2>1. /\ stream'[s] = Asleep /\ voip_state' = VoipAfter(s) /\ codec' = CodecAfter(s, VoipAfter(s))
        /\ \A o \in Streams : o # s => stream'[o] = stream[o]
    BY <1>2, Standby
  <2>2. Asleep.standby /\ ~Asleep.is_sco /\ Asleep.pcm = "none"
    BY AsleepType
  <2>3. SUFFICES ASSUME errors' = 0
                 PROVE  (\A o \in Streams : VoipOK(o)') /\ (call_start' => codec')
    BY DEF VoipInv
  <2>4. /\ \A o \in Streams : VoipOK(o) /\ Moves(o)
        /\ call_start => codec
    BY <2>3 DEF VoipInv
  <2>5. s \notin voip_state'
    <3>1. CASE stream[s].is_sco
      BY <2>1, <3>1 DEF VoipAfter
    <3>2. CASE ~stream[s].is_sco
      BY <2>1, <2>4, <3>2 DEF VoipAfter, VoipOK
    <3>. QED  BY <3>1, <3>2
  <2>6. VoipOK(s)'
    <3>1. pc'[s] \notin Joining /\ pc'[s] \notin Failing
      BY <2>4 DEF Moves
    <3>. QED  BY <2>1, <2>2, <2>5, <3>1 DEF VoipOK
  <2>7. ASSUME NEW o \in Streams, o # s PROVE VoipOK(o)'
    <3>1. o \in voip_state' <=> o \in voip_state
      BY <2>1, <2>7 DEF VoipAfter
    <3>2. stream[o].is_sco => o \in voip_state
      BY <2>4 DEF VoipOK
    <3>3. stream[o].is_sco /\ codec => codec'
      BY <2>1, <3>1, <3>2 DEF CodecAfter
    <3>. QED  BY <2>1, <2>4, <2>7, <3>1, <3>3, MoveVoip
  <2>8. call_start' => codec'
    BY <2>1, <2>4 DEF CodecAfter, VoipOK
  <2>. QED  BY <2>6, <2>7, <2>8
<1>. QED  BY <1>1, <1>2

\* A stream whose mutex is free is not joining.
LEMMA FreeStream ==
  ASSUME LockInv, NEW s \in Streams, lock[s] = "free"
  PROVE  ~HasStream(pc[s]) /\ pc[s] \notin Joining
<1>1. s # "free"
  BY DEF Streams
<1>2. ~HasStream(pc[s])
  BY <1>1 DEF LockInv
<1>. QED  BY <1>2 DEF HasStream, Both, Joining

LEMMA LockVoip ==
  ASSUME MediaInv, VoipInv, NEW s \in Streams, Lock(s)
  PROVE  VoipInv'
<1>1. /\ ThreadOK /\ s \in Threads /\ UNCHANGED streamVars
      /\ UNCHANGED <<call_start, errors>>
  BY ThreadNames DEF MediaInv, HwTypeOK, Lock, callVars
<1>2. ASSUME errors' = 0, NEW o \in Streams PROVE Moves(o)
  <2>1. pc[o] \notin Failing
    BY <1>1, <1>2 DEF VoipInv, VoipOK
  <2>2. /\ "stream" \notin Joining /\ "decide" \notin Joining /\ "idle" \notin Joining
        /\ "stream" \notin Failing /\ "decide" \notin Failing
    BY DEF Joining, Failing
  <2>3. pc[s] # "start" /\ pc[s] \notin Joining
    BY <2>2 DEF Lock
  <2>. QED  BY <1>1, <2>1, <2>2, <2>3, GotoMoves DEF Lock
<1>. QED  BY <1>1, <1>2, QuietVoip
LEMMA DecideVoip ==
  ASSUME MediaInv, VoipInv, NEW s \in Streams, Decide(s)
  PROVE  VoipInv'
<1>1. /\ ThreadOK /\ StreamOK /\ s \in Threads /\ pc[s] = "decide"
      /\ UNCHANGED <<call_start, errors>>
  BY ThreadNames DEF MediaInv, HwTypeOK, Decide, callVars
<1>2. /\ "decide" \notin Joining /\ "idle" \notin Joining /\ "start" \notin Joining
      /\ "idle" \notin Failing /\ "start" \notin Failing /\ "voip" \notin Failing
      /\ "voip" \in Joining
  BY DEF Joining, Failing
<1>3. ASSUME errors' = 0, NEW l, Goto(s, l), l \in {"idle", "start"}, NEW o \in Streams
      PROVE  Moves(o)
  <2>1. pc[o] \notin Failing
    BY <1>1, <1>3 DEF VoipInv, VoipOK
  <2>. QED  BY <1>1, <1>2, <1>3, <2>1, GotoMoves
<1>4. CASE UNCHANGED streamVars /\ (Goto(s, "idle") \/ Goto(s, "start"))
  BY <1>1, <1>3, <1>4, QuietVoip
<1>5. CASE DoStandby(s) /\ Goto(s, "start")
  BY <1>1, <1>2, <1>3, <1>5, StandbyVoip
<1>6. CASE /\ WantsVoip /\ ~stream[s].is_sco
           /\ voip_state' = voip_state \cup {s} /\ Goto(s, "voip")
           /\ UNCHANGED <<stream, active, codec>>
  <2>1. SUFFICES ASSUME errors' = 0
                 PROVE  (\A o \in Streams : VoipOK(o)') /\ (call_start' => codec')
    BY DEF VoipInv
  <2>2. (\A o \in Streams : VoipOK(o)) /\ (call_start => codec)
    BY <1>1, <2>1 DEF VoipInv
  <2>3. ASSUME NEW o \in Streams, o # s PROVE VoipOK(o)'
    <3>1. Moves(o)
      BY <1>1, <1>6, <2>2, <2>3, GotoMoves DEF VoipOK
    <3>2. o \in voip_state' <=> o \in voip_state
      BY <1>6, <2>3
    <3>. QED  BY <1>1, <1>6, <2>2, <3>1, <3>2, MoveVoip
  <2>4. VoipOK(s)'
    <3>1. pc'[s] = "voip" /\ stream'[s] = stream[s] /\ s \in voip_state'
      BY <1>1, <1>6 DEF ThreadOK, Goto
    <3>2. ~call_start'
      BY <1>1, <1>6 DEF WantsVoip
    <3>3. ~stream[s].standby => stream[s].pcm # "none"
      BY <2>2 DEF VoipOK
    <3>. QED  BY <1>2, <1>6, <3>1, <3>2, <3>3 DEF VoipOK
  <2>. QED  BY <1>1, <1>6, <2>2, <2>3, <2>4
<1>. QED  BY <1>4, <1>5, <1>6 DEF Decide

LEMMA ForceVoip ==
  ASSUME MediaInv, VoipInv, NEW s \in Streams, ForceStandbyForVoip(s)
  PROVE  VoipInv'
<1>1. /\ ThreadOK /\ StreamOK /\ LockInv /\ s \in Threads /\ pc[s] = "voip" /\ Goto(s, "join")
      /\ UNCHANGED <<call_start, errors>>
  BY ThreadNames DEF MediaInv, HwTypeOK, ForceStandbyForVoip, callVars
<1>2. "voip" \in Joining /\ "join" \in Joining /\ "join" \notin Failing /\ "voip" # "start"
  BY DEF Joining, Failing
<1>3. ASSUME errors' = 0, NEW o \in Streams PROVE Moves(o)
  <2>1. pc[o] \notin Failing
    BY <1>1, <1>3 DEF VoipInv, VoipOK
  <2>. QED  BY <1>1, <1>2, <1>3, <2>1, GotoMoves
<1>4. CASE UNCHANGED streamVars
  BY <1>1, <1>3, <1>4, QuietVoip
<1>5. CASE lock[Other(s)] = "free" /\ DoStandby(Other(s))
  BY <1>1, <1>3, <1>5, FreeStream, OtherStream, StandbyVoip
<1>. QED  BY <1>4, <1>5 DEF ForceStandbyForVoip

LEMMA JoinsVoip ==
  ASSUME MediaInv, VoipInv, NEW s \in Streams, JoinVoip(s)
  PROVE  VoipInv'
<1>1. /\ ThreadOK /\ StreamOK /\ s \in Threads /\ pc[s] = "join" /\ Goto(s, "start")
      /\ UNCHANGED <<call_start, errors, codec, voip_state>>
      /\ stream' = [stream EXCEPT ![s] = InVoip]
  BY ThreadNames DEF MediaInv, HwTypeOK, JoinVoip, callVars
<1>2. /\ "join" \in Joining /\ "start" \notin Joining /\ "start" \notin Failing
  BY DEF Joining, Failing
<1>3. SUFFICES ASSUME errors' = 0
               PROVE  (\A o \in Streams : VoipOK(o)') /\ (call_start' => codec')
  BY DEF VoipInv
<1>4. (\A o \in Streams : VoipOK(o)) /\ (call_start => codec)
  BY <1>1, <1>3 DEF VoipInv
<1>5. stream'[s] = InVoip /\ \A o \in Streams : o # s => stream'[o] = stream[o]
  BY <1>1 DEF StreamOK
<1>6. ASSUME NEW o \in Streams, o # s PROVE VoipOK(o)'
  <2>1. Moves(o)
    BY <1>1, <1>4, <1>6, GotoMoves DEF VoipOK
  <2>. QED  BY <1>1, <1>4, <1>5, <1>6, <2>1, MoveVoip
<1>7. VoipOK(s)'
  <2>1. pc'[s] = "start"
    BY <1>1 DEF ThreadOK, Goto
  <2>2. s \in voip_state' /\ ~call_start'
    BY <1>1, <1>2, <1>4 DEF VoipOK
  <2>3. stream'[s].standby /\ stream'[s].is_sco
    BY <1>5, JoinedType
  <2>. QED  BY <1>2, <2>1, <2>2, <2>3 DEF VoipOK
<1>. QED  BY <1>1, <1>4, <1>6, <1>7

LEMMA StartVoip ==
  ASSUME MediaInv, VoipInv, NEW s \in Streams, Start(s)
  PROVE  VoipInv'
<1>1. /\ ThreadOK /\ StreamOK /\ RestOK /\ s \in Threads /\ pc[s] = "start"
      /\ UNCHANGED call_start
  BY ThreadNames DEF MediaInv, HwTypeOK, Start, callVars
<1>2. /\ "start" \notin Joining /\ "idle" \notin Joining /\ "io" \notin Joining
      /\ "idle" \notin Failing /\ "io" \notin Failing
  BY DEF Joining, Failing
<1>3. CASE Dropped(s) \/ ~stream[s].standby
  <2>1. UNCHANGED streamVars /\ errors' = errors /\ (Goto(s, "idle") \/ Goto(s, "io"))
    BY <1>3 DEF Start
  <2>2. ~stream[s].is_sco \/ ~stream[s].standby
    BY <1>3 DEF Dropped
  <2>3. ASSUME errors' = 0, NEW o \in Streams PROVE Moves(o)
    <3>1. pc[o] \notin Failing
      BY <2>1, <2>3 DEF VoipInv, VoipOK
    <3>. QED  BY <1>1, <1>2, <2>1, <2>2, <2>3, <3>1, GotoMoves
  <2>. QED  BY <1>1, <2>1, <2>3, QuietVoip
<1>4. CASE ~Dropped(s) /\ stream[s].standby
  <2>1. /\ UNCHANGED voip_state /\ codec' = (codec \/ stream[s].is_sco)
        /\ \A o \in Streams : o # s => stream'[o] = stream[o]
        /\ stream'[s].standby = FALSE /\ stream'[s].is_sco = stream[s].is_sco
        /\ \/ Goto(s, "io") /\ stream'[s].pcm = Path(s) /\ errors' = errors
           \/ errors' # 0
    BY <1>1, <1>4, OpenedEffect DEF RestOK
  <2>2. SUFFICES ASSUME errors' = 0
                 PROVE  (\A o \in Streams : VoipOK(o)') /\ (call_start' => codec')
    BY DEF VoipInv
  <2>3. Goto(s, "io") /\ stream'[s].pcm = Path(s) /\ errors' = errors
    BY <2>1, <2>2
  <2>4. (\A o \in Streams : VoipOK(o)) /\ (call_start => codec)
    BY <2>2, <2>3 DEF VoipInv
  <2>5. ASSUME NEW o \in Streams, o # s PROVE VoipOK(o)'
    <3>1. Moves(o)
      BY <1>1, <2>3, <2>4, <2>5, GotoMoves DEF VoipOK
    <3>. QED  BY <1>1, <2>1, <2>4, <2>5, <3>1, MoveVoip
  <2>6. VoipOK(s)'
    <3>1. pc'[s] = "io"
      BY <1>1, <2>3 DEF ThreadOK, Goto
    <3>2. stream'[s].pcm # "none"
      BY <2>3 DEF Path
    <3>3. /\ s \in voip_state' <=> stream'[s].is_sco
          /\ call_start' => ~stream'[s].is_sco
          /\ stream'[s].is_sco => codec'
      BY <1>1, <1>2, <2>1, <2>4 DEF VoipOK
    <3>. QED  BY <1>2, <2>1, <3>1, <3>2, <3>3 DEF VoipOK
  <2>. QED  BY <1>1, <2>1, <2>4, <2>5, <2>6
<1>. QED  BY <1>3, <1>4

LEMMA IoVoip ==
  ASSUME MediaInv, VoipInv, NEW s \in Streams, Io(s) \/ ExitRead(s) \/ ExitWrite(s)
  PROVE  VoipInv'
<1>1. /\ ThreadOK /\ StreamOK /\ RestOK /\ s \in Threads /\ UNCHANGED call_start
  BY ThreadNames DEF MediaInv, HwTypeOK, Io, ExitRead, ExitWrite, callVars
<1>2. /\ "io" \notin Joining /\ "idle" \notin Joining /\ "idle" \notin Failing
      /\ "exit" \in Failing /\ "exit2" \in Failing
  BY DEF Joining, Failing
<1>3. CASE Io(s)
  <2>1. PICK ok \in Outcomes :
          Counted(ok) /\ (ok => Goto(s, "idle")) /\ UNCHANGED streamVars /\ pc[s] = "io"
    BY <1>3 DEF Io
  <2>2. errors' = 0 => ok /\ errors = 0
    BY <1>1, <2>1, OutcomesType, CountedType DEF RestOK
  <2>3. ASSUME errors' = 0, NEW o \in Streams PROVE Moves(o)
    <3>1. pc[o] \notin Failing
      BY <2>2, <2>3 DEF VoipInv, VoipOK
    <3>. QED  BY <1>1, <1>2, <2>1, <2>2, <2>3, <3>1, GotoMoves
  <2>. QED  BY <1>1, <2>1, <2>2, <2>3, QuietVoip
<1>4. CASE ExitRead(s) \/ ExitWrite(s)
  <2>1. pc[s] \in Failing /\ errors' = errors
    BY <1>2, <1>4 DEF ExitRead, ExitWrite
  <2>2. errors # 0
    BY <2>1 DEF VoipInv, VoipOK
  <2>. QED  BY <2>1, <2>2 DEF VoipInv
<1>. QED  BY <1>3, <1>4

\* A step of a thread that is not a stream's.
LEMMA OtherThread ==
  ASSUME ThreadOK, VoipInv, NEW t \in Threads, t \notin Streams, errors' = errors,
         UNCHANGED pc \/ \E l : Goto(t, l)
  PROVE  errors' = 0 => \A s \in Streams : Moves(s)
<1>1. SUFFICES ASSUME errors' = 0, NEW s \in Streams PROVE Moves(s)
  OBVIOUS
<1>2. pc[s] \notin Failing
  BY <1>1 DEF VoipInv, VoipOK
<1>3. CASE UNCHANGED pc
  BY <1>2, <1>3 DEF Moves
<1>4. CASE \E l : Goto(t, l)
  BY <1>1, <1>2, <1>4, GotoMoves
<1>. QED  BY <1>3, <1>4

LEMMA PolicyVoip ==
  ASSUME MediaInv, VoipInv, Policy \/ SetVoip
  PROVE  VoipInv'
<1>1. /\ ThreadOK /\ StreamOK /\ LockInv /\ "policy" \in Threads /\ "policy" \notin Streams
  BY ThreadNames DEF MediaInv, HwTypeOK, Streams
<1>2. /\ UNCHANGED call_start /\ errors' = errors
      /\ (UNCHANGED pc \/ \E l : Goto("policy", l))
      /\ \/ UNCHANGED streamVars
         \/ \E s \in Streams : lock[s] = "free" /\ DoStandby(s)
  BY DEF Policy, SetVoip, callVars
<1>3. errors' = 0 => \A s \in Streams : Moves(s)
  BY <1>1, <1>2, OtherThread
<1>4. CASE UNCHANGED streamVars
  BY <1>2, <1>3, <1>4, QuietVoip
<1>5. CASE \E s \in Streams : lock[s] = "free" /\ DoStandby(s)
  BY <1>1, <1>2, <1>3, <1>5, FreeStream, StandbyVoip
<1>. QED  BY <1>2, <1>4, <1>5

LEMMA PipeVoip ==
  ASSUME MediaInv, VoipInv, NEW c \in CPs,
         \/ ModemSends(c) \/ Command(c) \/ GiveUp(c) \/ LockDevice(c)
         \/ ForceAllStandby(c) \/ Done(c)
  PROVE  VoipInv'
<1>1. /\ ThreadOK /\ StreamOK /\ LockInv /\ c \in Threads /\ c \notin Streams
  BY ThreadNames DEF MediaInv, HwTypeOK
<1>2. /\ UNCHANGED call_start /\ errors' = errors
      /\ (UNCHANGED pc \/ \E l : Goto(c, l))
      /\ \/ UNCHANGED streamVars
         \/ \E s \in Streams : lock[s] = "free" /\ DoStandby(s)
  <2>1. CASE ModemSends(c)
    BY <2>1 DEF ModemSends
  <2>2. CASE Command(c)
    BY <2>2 DEF Command
  <2>3. CASE GiveUp(c)
    BY <2>3 DEF GiveUp
  <2>4. CASE LockDevice(c)
    BY <2>4 DEF LockDevice, callVars
  <2>5. CASE ForceAllStandby(c)
    BY <2>5 DEF ForceAllStandby, callVars
  <2>6. CASE Done(c)
    BY <2>6 DEF Done
  <2>. QED  BY <2>1, <2>2, <2>3, <2>4, <2>5, <2>6
<1>3. errors' = 0 => \A s \in Streams : Moves(s)
  BY <1>1, <1>2, OtherThread
<1>4. CASE UNCHANGED streamVars
  BY <1>2, <1>3, <1>4, QuietVoip
<1>5. CASE \E s \in Streams : lock[s] = "free" /\ DoStandby(s)
  BY <1>1, <1>2, <1>3, <1>5, FreeStream, StandbyVoip
<1>. QED  BY <1>2, <1>4, <1>5

\* A pipe's thread at "locked" has adev->lock: no stream is joining or starting.
LEMMA LockedAlone ==
  ASSUME ThreadOK, LockInv, NEW c \in CPs, pc[c] = "locked", NEW s \in Streams
  PROVE  pc[s] \notin Both
<1>1. c \in Threads /\ s \in Threads /\ c # s /\ HasDevice(c, pc[c])
  BY ThreadNames DEF HasDevice
<1>2. ~HasDevice(s, pc[s])
  BY <1>1, OneDevice
<1>. QED  BY <1>2 DEF HasDevice

\* HAL_OPEN finds both streams closed; none of them is in the VoIP session.
LEMMA LockedVoip ==
  ASSUME MediaInv, VoipInv, NEW c \in CPs, Locked(c)
  PROVE  VoipInv'
<1>1. /\ ThreadOK /\ StreamOK /\ RestOK /\ LockInv /\ PcmClosed /\ c \in Threads /\ c \notin Streams
      /\ pc[c] = "locked" /\ Goto(c, "done") /\ UNCHANGED <<stream, active, voip_state>>
  BY ThreadNames DEF MediaInv, HwTypeOK, Locked
<1>2. SUFFICES ASSUME errors' = 0
               PROVE  (\A o \in Streams : VoipOK(o)') /\ (call_start' => codec')
  BY DEF VoipInv
<1>3. PICK ok \in (IF goal[c] = "HAL_OPEN" THEN Outcomes ELSE {TRUE}) :
         /\ Counted(ok)
         /\ codec' = IF goal[c] = "HAL_OPEN" THEN ok ELSE codec /\ ~EndsCall(c)
         /\ call_start' = (goal[c] = "HAL_OPEN" \/ (call_start /\ ~ClosesCall(c)))
  BY DEF Locked
<1>4. ok /\ errors = 0
  <2>1. ok \in BOOLEAN
    BY OutcomesType
  <2>. QED  BY <1>1, <1>2, <1>3, <2>1, CountedType DEF RestOK
<1>5. (\A o \in Streams : VoipOK(o)) /\ (call_start => codec)
  BY <1>4 DEF VoipInv
<1>6. errors' = errors
  BY <1>3, <1>4 DEF Counted
<1>7. \A o \in Streams : Moves(o)
  BY <1>1, <1>2, <1>6, OtherThread
<1>8. CASE goal[c] = "HAL_OPEN"
  <2>1. codec'
    BY <1>3, <1>4, <1>8
  <2>2. ASSUME NEW o \in Streams PROVE VoipOK(o)'
    <3>1. stream[o].pcm = "none"
      <4>1. Closed(c, o) /\ ClosesStreams(c)
        BY <1>1, <1>8 DEF Closed, ClosesStreams
      <4>. QED  BY <1>1, <4>1 DEF PcmClosed
    <3>2. pc[o] \notin Both
      BY <1>1, LockedAlone
    <3>3. pc[o] # "start" /\ pc[o] \notin Joining
      BY <3>2 DEF Both, Joining
    <3>4. stream[o].standby /\ ~stream[o].is_sco
      BY <1>5, <3>1, <3>3 DEF VoipOK
    <3>5. o \notin voip_state
      BY <1>5, <3>3, <3>4 DEF VoipOK
    <3>6. pc'[o] \notin Failing /\ pc'[o] \notin Joining
      BY <1>7, <3>3 DEF Moves
    <3>. QED  BY <1>1, <3>4, <3>5, <3>6 DEF VoipOK
  <2>. QED  BY <2>1, <2>2
<1>9. CASE goal[c] # "HAL_OPEN"
  <2>1. codec' = (codec /\ ~EndsCall(c)) /\ call_start' = (call_start /\ ~ClosesCall(c))
    BY <1>3, <1>9
  <2>2. call_start' => codec'
    BY <1>5, <2>1 DEF EndsCall
  <2>3. ASSUME NEW o \in Streams PROVE VoipOK(o)'
    <3>1. stream[o].is_sco /\ codec => codec'
      BY <1>5, <2>1 DEF EndsCall, VoipOK
    <3>2. pc[o] \notin Both
      BY <1>1, LockedAlone
    <3>3. pc[o] # "start" /\ pc[o] \notin Joining
      BY <3>2 DEF Both, Joining
    <3>4. pc'[o] \notin Failing /\ pc'[o] \notin Joining
      BY <1>7, <3>3 DEF Moves
    <3>5. call_start' => ~stream[o].is_sco
      BY <1>5, <2>1 DEF VoipOK
    <3>6. /\ o \in voip_state <=> stream[o].is_sco
          /\ ~(stream[o].is_sco /\ stream[o].standby)
          /\ stream[o].is_sco /\ ~stream[o].standby => codec
          /\ ~stream[o].standby => stream[o].pcm # "none"
      BY <1>5, <3>3 DEF VoipOK
    <3>. QED  BY <1>1, <3>1, <3>4, <3>5, <3>6 DEF VoipOK
  <2>. QED  BY <2>2, <2>3
<1>. QED  BY <1>8, <1>9

LEMMA VoipInit ==
  ASSUME Init
  PROVE  VoipInv
<1>1. /\ pc = [t \in Threads |-> "idle"] /\ stream = [s \in Streams |-> Asleep]
      /\ voip_state = {} /\ call_start = FALSE
  BY DEF Init
<1>2. "idle" \notin Joining /\ "idle" \notin Failing
  BY DEF Joining, Failing
<1>3. ASSUME NEW s \in Streams PROVE VoipOK(s)
  <2>1. pc[s] = "idle" /\ stream[s] = Asleep
    BY <1>1, ThreadNames
  <2>2. stream[s].standby /\ ~stream[s].is_sco
    BY <2>1, AsleepType
  <2>. QED  BY <1>1, <1>2, <2>1, <2>2 DEF VoipOK
<1>. QED  BY <1>1, <1>3 DEF VoipInv

LEMMA VoipStep ==
  ASSUME MediaInv, VoipInv, [Next]_vars
  PROVE  VoipInv'
<1>1. CASE \E s \in Streams : Lock(s) \/ StreamStep(s)
  BY <1>1, LockVoip, DecideVoip, ForceVoip, JoinsVoip, StartVoip, IoVoip DEF StreamStep
<1>2. CASE Policy \/ SetVoip
  BY <1>2, PolicyVoip
<1>3. CASE \E c \in CPs : \/ ModemSends(c) \/ Command(c) \/ GiveUp(c) \/ LockDevice(c)
                          \/ CallThread(c)
  BY <1>3, PipeVoip, LockedVoip DEF CallThread
<1>4. CASE UNCHANGED vars
  <2>1. UNCHANGED <<pc, stream, voip_state, codec, call_start, errors>>
    BY <1>4 DEF vars, streamVars, callVars
  <2>. QED  BY <2>1 DEF VoipInv, VoipOK
<1>. QED  BY <1>1, <1>2, <1>3, <1>4 DEF Next

\* What the invariant says when the mutexes are free.
LEMMA TracksVoip ==
  ASSUME MediaInv, VoipInv
  PROVE  VoipTracked
<1>1. LockInv
  BY DEF MediaInv
<1>2. ASSUME errors = 0, NEW s \in Streams, Unlocked(s)
      PROVE  (s \in voip_state <=> stream[s].is_sco) /\ (stream[s].is_sco => codec)
  <2>1. ~HasStream(pc[s]) /\ pc[s] \notin Joining
    BY <1>1, <1>2, FreeStream DEF Unlocked
  <2>2. pc[s] # "start"
    BY <2>1 DEF HasStream, Both
  <2>. QED  BY <1>2, <2>1, <2>2 DEF VoipInv, VoipOK
<1>. QED  BY <1>2 DEF VoipTracked, VoipInv

\* The VoIP session is kept together for any number of modems: while no PCM has
\* failed, voip_state has the flag of exactly the streams in the session and the
\* modem PCMs are open for them and for a call, whenever the stream's mutex and
\* adev->lock are free.
THEOREM AlwaysVoipTracked == Spec => []VoipTracked
<1>1. Init => VoipInv
  BY VoipInit
<1>2. MediaInv /\ VoipInv /\ [Next]_vars => VoipInv'
  BY VoipStep
<1>3. MediaInv /\ VoipInv => VoipTracked
  BY TracksVoip
<1>. QED  BY <1>1, <1>2, <1>3, AlwaysMediaInv, PTL DEF Spec

-----------------------------------------------------------------------------
(* The output's PCM *)

LEMMA OutPcm ==
  /\ Path("out") = IF stream["out"].is_sco THEN "sco"
                   ELSE IF call_connected THEN "voice" ELSE "mm"
  /\ Path("out")' = IF stream'["out"].is_sco THEN "sco"
                    ELSE IF call_connected' THEN "voice" ELSE "mm"
  BY DEF Path

\* A step that leaves the output stream alone.
LEMMA OutKept ==
  ASSUME OutInv, stream'["out"] = stream["out"], UNCHANGED call_connected,
         pc["out"] \in Failing => pc'["out"] \in Failing,
         pc'["out"] = "io" => pc["out"] = "io" \/ ~stream["out"].standby
  PROVE  OutInv'
<1>1. Path("out")' = Path("out")
  <2>1. stream'["out"].is_sco = stream["out"].is_sco /\ call_connected' = call_connected
    OBVIOUS
  <2>. QED  BY SMTT(60), <2>1, OutPcm
<1>2. ~stream'["out"].standby /\ pc'["out"] \notin Failing => stream'["out"].pcm = Path("out")'
  BY <1>1 DEF OutInv
<1>3. pc'["out"] = "io" => ~stream'["out"].standby
  BY DEF OutInv
<1>. QED  BY <1>2, <1>3 DEF OutInv

\* A step that leaves it in standby.
LEMMA OutAsleep ==
  ASSUME stream'["out"].standby, pc'["out"] # "io"
  PROVE  OutInv'
  BY DEF OutInv

LEMMA OutStandby ==
  ASSUME StreamOK, OutInv, NEW s \in Streams, DoStandby(s), UNCHANGED call_connected,
         s = "out" => pc'["out"] # "io",
         pc["out"] \in Failing => pc'["out"] \in Failing,
         pc'["out"] = "io" => pc["out"] = "io" \/ ~stream["out"].standby
  PROVE  OutInv'
<1>1. CASE s = "out"
  <2>1. stream'["out"].standby
    BY <1>1, Standby
  <2>. QED  BY <1>1, <2>1, OutAsleep
<1>2. CASE s # "out"
  <2>1. stream'["out"] = stream["out"]
    BY <1>2, Standby, ThreadNames
  <2>. QED  BY <2>1, OutKept
<1>. QED  BY <1>1, <1>2

\* A step moves one thread.
LEMMA OtherPc ==
  ASSUME ThreadOK, NEW t \in Threads, NEW l, Goto(t, l)
  PROVE  pc'[t] = l /\ \A u \in Threads : u # t => pc'[u] = pc[u]
  BY DEF ThreadOK, Goto

LEMMA StreamOut ==
  ASSUME MediaInv, OutInv, NEW s \in Streams,
         Lock(s) \/ Decide(s) \/ ForceStandbyForVoip(s) \/ JoinVoip(s)
  PROVE  OutInv'
<1>1. /\ ThreadOK /\ StreamOK /\ LockInv /\ s \in Threads /\ "out" \in Streams /\ "out" \in Threads
      /\ UNCHANGED call_connected
  BY ThreadNames DEF MediaInv, HwTypeOK, Lock, Decide, ForceStandbyForVoip, JoinVoip, callVars
<1>2. \E l : /\ Goto(s, l) /\ l # "io" /\ pc[s] \notin Failing
  BY DEF Lock, Decide, ForceStandbyForVoip, JoinVoip, Failing
<1>3. /\ pc["out"] \in Failing => pc'["out"] \in Failing
      /\ pc'["out"] = "io" => pc["out"] = "io" /\ s # "out"
  BY <1>1, <1>2, OtherPc
<1>4. CASE UNCHANGED stream
  BY <1>1, <1>3, <1>4, OutKept
<1>5. CASE DoStandby(s)
  BY <1>1, <1>3, <1>5, OutStandby
<1>6. CASE lock[Other(s)] = "free" /\ DoStandby(Other(s))
  <2>1. pc["out"] = "io" => Other(s) # "out"
    <3>1. HasStream("io")
      BY DEF HasStream
    <3>. QED  BY <1>1, <1>6, <3>1, FreeStream, OtherStream
  <2>. QED  BY <1>1, <1>3, <1>6, <2>1, OutStandby, OtherStream
<1>7. CASE JoinVoip(s)
  <2>1. stream'[s] = InVoip /\ \A o \in Streams : o # s => stream'[o] = stream[o]
    BY <1>1, <1>7 DEF JoinVoip, StreamOK
  <2>2. CASE s = "out"
    <3>1. stream'["out"].standby
      BY <2>1, <2>2, JoinedType
    <3>. QED  BY <1>3, <2>2, <3>1, OutAsleep
  <2>3. CASE s # "out"
    BY <1>1, <1>3, <2>1, <2>3, OutKept
  <2>. QED  BY <2>2, <2>3
<1>. QED  BY <1>4, <1>5, <1>6, <1>7 DEF Lock, Decide, ForceStandbyForVoip, streamVars

LEMMA StartOut ==
  ASSUME MediaInv, OutInv, NEW s \in Streams, Start(s)
  PROVE  OutInv'
<1>1. /\ ThreadOK /\ StreamOK /\ RestOK /\ s \in Threads /\ "out" \in Streams /\ "out" \in Threads
      /\ UNCHANGED call_connected /\ pc[s] = "start"
  BY ThreadNames DEF MediaInv, HwTypeOK, Start, callVars
<1>2. /\ "start" \notin Failing /\ "io" \notin Failing /\ "exit" \in Failing
      /\ "idle" # "io" /\ "exit" # "io"
  BY DEF Failing
<1>3. CASE Dropped(s) \/ ~stream[s].standby
  <2>1. UNCHANGED streamVars /\ (Goto(s, "idle") \/ (Goto(s, "io") /\ ~stream[s].standby))
    BY <1>3 DEF Start
  <2>2. /\ pc["out"] \in Failing => pc'["out"] \in Failing
        /\ pc'["out"] = "io" => pc["out"] = "io" \/ ~stream["out"].standby
    BY <1>1, <1>2, <2>1, OtherPc
  <2>3. UNCHANGED stream
    BY <2>1 DEF streamVars
  <2>. QED  BY <1>1, <2>2, <2>3, OutKept
<1>4. CASE ~Dropped(s) /\ stream[s].standby
  <2>1. /\ \A o \in Streams : o # s => stream'[o] = stream[o]
        /\ stream'[s].standby = FALSE /\ stream'[s].is_sco = stream[s].is_sco
        /\ \/ Goto(s, "io") /\ stream'[s].pcm = Path(s)
           \/ Goto(s, "exit")
    BY <1>1, <1>4, OpenedEffect DEF RestOK
  <2>2. CASE s = "out"
    <3>1. Path("out")' = Path("out")
      BY <1>1, <2>1, <2>2, OutPcm
    <3>2. pc'["out"] \notin Failing => stream'["out"].pcm = Path("out")'
      BY <1>1, <1>2, <2>1, <2>2, <3>1, OtherPc
    <3>. QED  BY <2>1, <2>2, <3>2 DEF OutInv
  <2>3. CASE s # "out"
    <3>1. pc'["out"] = pc["out"]
      BY <1>1, <2>1, <2>3, OtherPc
    <3>. QED  BY <1>1, <2>1, <2>3, <3>1, OutKept
  <2>. QED  BY <2>2, <2>3
<1>. QED  BY <1>3, <1>4

LEMMA IoOut ==
  ASSUME MediaInv, OutInv, NEW s \in Streams, Io(s) \/ ExitRead(s) \/ ExitWrite(s)
  PROVE  OutInv'
<1>1. /\ ThreadOK /\ StreamOK /\ s \in Threads /\ "out" \in Streams /\ "out" \in Threads
      /\ UNCHANGED call_connected
  BY ThreadNames DEF MediaInv, HwTypeOK, Io, ExitRead, ExitWrite, callVars
<1>2. "io" \notin Failing /\ "exit" \in Failing /\ "exit2" \in Failing
      /\ "io" # "idle" /\ "io" # "exit" /\ "io" # "exit2"
  BY DEF Failing
<1>3. CASE Io(s) \/ ExitRead(s)
  <2>1. /\ UNCHANGED streamVars
        /\ \/ pc[s] = "io" /\ (Goto(s, "idle") \/ Goto(s, "exit"))
           \/ Goto(s, "exit2")
    BY <1>3 DEF Io, ExitRead
  <2>2. /\ pc["out"] \in Failing => pc'["out"] \in Failing
        /\ pc'["out"] = "io" => pc["out"] = "io"
    BY <1>1, <1>2, <2>1, OtherPc
  <2>3. UNCHANGED stream
    BY <2>1 DEF streamVars
  <2>. QED  BY <1>1, <2>2, <2>3, OutKept
<1>4. CASE ExitWrite(s)
  <2>1. stream'[s] = Asleep /\ \A o \in Streams : o # s => stream'[o] = stream[o]
    BY <1>1, <1>4 DEF ExitWrite, StreamOK
  <2>2. Goto(s, "idle")
    BY <1>4 DEF ExitWrite
  <2>3. CASE s = "out"
    <3>1. stream'["out"].standby
      BY <2>1, <2>3, AsleepType
    <3>. QED  BY <1>1, <1>2, <2>2, <2>3, <3>1, OtherPc, OutAsleep
  <2>4. CASE s # "out"
    <3>1. pc'["out"] = pc["out"]
      BY <1>1, <2>2, <2>4, OtherPc
    <3>. QED  BY <1>1, <2>1, <2>4, <3>1, OutKept
  <2>. QED  BY <2>3, <2>4
<1>. QED  BY <1>3, <1>4

LEMMA PolicyOut ==
  ASSUME MediaInv, OutInv, Policy \/ SetVoip
  PROVE  OutInv'
<1>1. /\ ThreadOK /\ StreamOK /\ LockInv /\ "policy" \in Threads /\ "policy" # "out"
      /\ "out" \in Streams /\ "out" \in Threads /\ HasStream("io")
  BY ThreadNames DEF MediaInv, HwTypeOK, HasStream
<1>2. /\ UNCHANGED call_connected
      /\ (UNCHANGED pc \/ \E l : Goto("policy", l))
      /\ \/ UNCHANGED stream
         \/ \E s \in Streams : lock[s] = "free" /\ DoStandby(s)
  BY DEF Policy, SetVoip, callVars, streamVars
<1>3. pc'["out"] = pc["out"]
  BY <1>1, <1>2, OtherPc
<1>4. CASE UNCHANGED stream
  BY <1>2, <1>3, <1>4, OutKept
<1>5. CASE \E s \in Streams : lock[s] = "free" /\ DoStandby(s)
  BY <1>1, <1>2, <1>3, <1>5, FreeStream, OutStandby
<1>. QED  BY <1>2, <1>4, <1>5

LEMMA PipeOut ==
  ASSUME MediaInv, OutInv, NEW c \in CPs,
         \/ ModemSends(c) \/ Command(c) \/ GiveUp(c) \/ LockDevice(c)
         \/ ForceAllStandby(c) \/ Done(c)
  PROVE  OutInv'
<1>1. /\ ThreadOK /\ StreamOK /\ LockInv /\ c \in Threads /\ c # "out"
      /\ "out" \in Streams /\ "out" \in Threads /\ HasStream("io")
  BY ThreadNames DEF MediaInv, HwTypeOK, HasStream
<1>2. /\ UNCHANGED call_connected
      /\ (UNCHANGED pc \/ \E l : Goto(c, l))
      /\ \/ UNCHANGED stream
         \/ \E s \in Streams : lock[s] = "free" /\ DoStandby(s)
  <2>1. CASE ModemSends(c)
    BY <2>1 DEF ModemSends, streamVars
  <2>2. CASE Command(c)
    BY <2>2 DEF Command, streamVars
  <2>3. CASE GiveUp(c)
    BY <2>3 DEF GiveUp, streamVars
  <2>4. CASE LockDevice(c)
    BY <2>4 DEF LockDevice, callVars, streamVars
  <2>5. CASE ForceAllStandby(c)
    BY <2>5 DEF ForceAllStandby, callVars, streamVars
  <2>6. CASE Done(c)
    BY <2>6 DEF Done, streamVars
  <2>. QED  BY <2>1, <2>2, <2>3, <2>4, <2>5, <2>6
<1>3. pc'["out"] = pc["out"]
  BY <1>1, <1>2, OtherPc
<1>4. CASE UNCHANGED stream
  BY <1>2, <1>3, <1>4, OutKept
<1>5. CASE \E s \in Streams : lock[s] = "free" /\ DoStandby(s)
  BY <1>1, <1>2, <1>3, <1>5, FreeStream, OutStandby
<1>. QED  BY <1>2, <1>4, <1>5

\* SWITCH_CTRL connects a call that has started: the output has no media PCM
\* open.  The end of a call finds the output closed.
LEMMA LockedOut ==
  ASSUME MediaInv, OutInv, NEW c \in CPs, goal[c] = "SWITCH_CTRL" => call_start, Locked(c)
  PROVE  OutInv'
<1>1. /\ ThreadOK /\ CallOK /\ PcmClosed /\ NoMediaInCall /\ c \in Threads /\ c # "out"
      /\ "out" \in Streams /\ "out" \in Threads
      /\ pc[c] = "locked" /\ Goto(c, "done") /\ UNCHANGED stream
      /\ call_connected' = (goal[c] = "SWITCH_CTRL" \/ (call_connected /\ ~EndsCall(c)))
  BY ThreadNames DEF MediaInv, HwTypeOK, Locked, Streams
<1>2. pc'["out"] = pc["out"]
  BY <1>1, OtherPc
<1>3. CASE goal[c] = "SWITCH_CTRL"
  <2>1. stream["out"].pcm # "mm" /\ call_connected'
    BY <1>1, <1>3 DEF NoMediaInCall
  <2>2. "sco" # "mm"
    OBVIOUS
  <2>3. ~stream'["out"].standby /\ pc'["out"] \notin Failing => stream'["out"].pcm = Path("out")'
    BY <1>1, <1>2, <2>1, <2>2, OutPcm DEF OutInv
  <2>. QED  BY <1>1, <1>2, <2>3 DEF OutInv
<1>4. CASE EndsCall(c)
  <2>1. Closed(c, "out") /\ ClosesStreams(c)
    BY <1>1, <1>4 DEF Closed, ClosesStreams, EndsCall
  <2>2. stream["out"].pcm = "none"
    BY <1>1, <2>1 DEF PcmClosed
  <2>3. Path("out") # "none"
    BY OutPcm
  <2>. QED  BY <1>1, <1>2, <2>2, <2>3 DEF OutInv
<1>5. CASE goal[c] # "SWITCH_CTRL" /\ ~EndsCall(c)
  <2>1. call_connected' = call_connected
    BY <1>1, <1>5 DEF CallOK
  <2>. QED  BY <1>1, <1>2, <2>1, OutKept
<1>. QED  BY <1>3, <1>4, <1>5

\* What is in the pipe of a modem, and what is left of it.
LEMMA PipeOne ==
  ASSUME CallOK, NEW c \in CPs, pipe[c] # <<>>
  PROVE  pipe[c] = <<Head(pipe[c])>> /\ Tail(pipe[c]) = <<>> /\ Head(pipe[c]) \in Commands
<1>1. pipe[c] \in Pipes
  BY DEF CallOK
<1>2. PICK cmd \in Commands : pipe[c] = <<cmd>>
  BY <1>1 DEF Pipes
<1>. QED  BY SMTT(60), <1>2

\* A step of another thread.
LEMMA CallKept ==
  ASSUME NEW c \in CPs, CallInv(c), UNCHANGED <<call_start, pipe, goal, modem>>, pc'[c] = pc[c]
  PROVE  CallInv(c)'
  BY DEF CallInv

LEMMA SendsCall ==
  ASSUME MediaInv, NEW c \in CPs, CallInv(c), ModemSends(c)
  PROVE  CallInv(c)'
<1>1. /\ CallOK /\ pipe[c] = <<>> /\ pc[c] = "idle" /\ UNCHANGED <<pc, call_start, goal>>
  BY DEF MediaInv, HwTypeOK, ModemSends
<1>2. PICK p \in Protocol : /\ modem[c] = p[1] /\ pipe' = [pipe EXCEPT ![c] = <<p[2]>>]
                            /\ modem' = [modem EXCEPT ![c] = p[3]]
  BY DEF ModemSends
<1>3. pipe'[c] = <<p[2]>> /\ modem'[c] = p[3]
  BY <1>1, <1>2 DEF CallOK
<1>4. p[2] = "SWITCH_CTRL" => p[1] = "opened"
  BY SMTT(60) DEF Protocol
<1>5. p[3] = "opened" => p[2] = "HAL_OPEN"
  BY SMTT(60) DEF Protocol
<1>6. pipe'[c] # <<>> /\ (pipe'[c] = <<"SWITCH_CTRL">> => p[2] = "SWITCH_CTRL")
  BY SMTT(60), <1>3
<1>7. pipe'[c] = <<"SWITCH_CTRL">> => call_start'
  BY <1>1, <1>2, <1>4, <1>6 DEF CallInv
<1>8. modem'[c] = "opened" => pipe'[c] = <<"HAL_OPEN">>
  BY <1>3, <1>5
<1>9. /\ goal'[c] = "SWITCH_CTRL" => call_start'
      /\ pc'[c] = "idle" /\ pc'[c] # "done" /\ goal'[c] # "failed"
  BY <1>1 DEF CallInv
<1>. QED  BY <1>6, <1>7, <1>8, <1>9 DEF CallInv

LEMMA CommandCall ==
  ASSUME MediaInv, NEW c \in CPs, CallInv(c), Command(c)
  PROVE  CallInv(c)'
<1> DEFINE cmd == Head(pipe[c])
<1>1. /\ CallOK /\ ThreadOK /\ c \in Threads /\ pipe[c] # <<>> /\ pc[c] = "idle"
      /\ UNCHANGED <<call_start, modem>>
      /\ goal' = [goal EXCEPT ![c] = cmd] /\ pipe' = [pipe EXCEPT ![c] = Tail(@)]
      /\ Goto(c, IF cmd = "RSP_CLOSE" THEN "done" ELSE "lock")
  BY ThreadNames DEF MediaInv, HwTypeOK, Command
<1>2. pipe[c] = <<cmd>> /\ Tail(pipe[c]) = <<>> /\ cmd \in Commands
  BY <1>1, PipeOne
<1>3. goal'[c] = cmd /\ pipe'[c] = <<>>
  BY <1>1, <1>2 DEF CallOK
<1>4. pc'[c] = IF cmd = "RSP_CLOSE" THEN "done" ELSE "lock"
  BY <1>1, OtherPc
<1>5. pc'[c] # "idle" /\ (pc'[c] = "done" => cmd = "RSP_CLOSE")
  BY <1>4
<1>6. cmd = "SWITCH_CTRL" => call_start
  BY <1>1, <1>2 DEF CallInv
<1>7. modem[c] = "opened" => cmd = "HAL_OPEN"
  <2>1. modem[c] = "opened" => pipe[c] = <<"HAL_OPEN">>
    BY <1>1 DEF CallInv
  <2>. QED  BY SMTT(60), <1>2, <2>1
<1>8. /\ "RSP_CLOSE" \notin {"HAL_OPEN", "failed"} /\ "HAL_OPEN" \in {"HAL_OPEN", "failed"}
      /\ cmd # "failed"
  BY <1>2 DEF Commands
<1>. HIDE DEF cmd
<1>. QED  BY <1>1, <1>3, <1>5, <1>6, <1>7, <1>8 DEF CallInv

LEMMA GiveUpCall ==
  ASSUME MediaInv, NEW c \in CPs, CallInv(c), GiveUp(c)
  PROVE  CallInv(c)'
<1>1. /\ CallOK /\ ThreadOK /\ c \in Threads /\ Goto(c, "lock")
      /\ goal' = [goal EXCEPT ![c] = "timeout"] /\ modem' = [modem EXCEPT ![c] = "idle"]
  BY ThreadNames DEF MediaInv, HwTypeOK, GiveUp
<1>2. goal'[c] = "timeout" /\ modem'[c] = "idle"
  BY <1>1 DEF CallOK
<1>3. pc'[c] = "lock"
  BY <1>1, OtherPc
<1>. QED  BY <1>2, <1>3 DEF CallInv

LEMMA DeviceCall ==
  ASSUME MediaInv, NEW c \in CPs, CallInv(c), LockDevice(c) \/ ForceAllStandby(c)
  PROVE  CallInv(c)'
<1>1. /\ ThreadOK /\ c \in Threads /\ UNCHANGED <<call_start, pipe, goal, modem>>
  BY ThreadNames DEF MediaInv, HwTypeOK, LockDevice, ForceAllStandby, callVars
<1>2. /\ pc[c] # "idle" /\ pc[c] # "exited" /\ pc[c] # "done"
      /\ \E l : Goto(c, l) /\ l # "idle" /\ l # "done"
  <2>1. CASE LockDevice(c)
    BY <2>1 DEF LockDevice
  <2>2. CASE ForceAllStandby(c)
    BY <2>2 DEF ForceAllStandby
  <2>. QED  BY <2>1, <2>2
<1>3. pc'[c] # "idle" /\ pc'[c] # "done"
  BY <1>1, <1>2, OtherPc
<1>. QED  BY <1>1, <1>2, <1>3 DEF CallInv

LEMMA LockedCall ==
  ASSUME MediaInv, NEW c \in CPs, CallInv(c), Locked(c)
  PROVE  CallInv(c)'
<1>1. /\ CallOK /\ ThreadOK /\ c \in Threads /\ pc[c] = "locked" /\ Goto(c, "done")
      /\ UNCHANGED <<pipe, modem>>
      /\ call_start' = (goal[c] = "HAL_OPEN" \/ (call_start /\ ~ClosesCall(c)))
  BY ThreadNames DEF MediaInv, HwTypeOK, Locked
<1>2. pc'[c] = "done"
  BY <1>1, OtherPc
<1>3. goal'[c] = goal[c] \/ (goal[c] = "HAL_OPEN" /\ goal'[c] = "failed")
  <2>1. PICK ok \in (IF goal[c] = "HAL_OPEN" THEN Outcomes ELSE {TRUE}) :
           goal' = [goal EXCEPT ![c] = IF ok THEN @ ELSE "failed"]
    BY DEF Locked
  <2>2. goal \in [CPs -> Goals]
    BY <1>1 DEF CallOK
  <2>3. goal'[c] = IF ok THEN goal[c] ELSE "failed"
    BY <2>1, <2>2
  <2>4. goal[c] # "HAL_OPEN" => ok
    BY <2>1
  <2>. QED  BY <2>3, <2>4
<1>4. /\ goal[c] = "SWITCH_CTRL" => call_start'
      /\ goal[c] = "HAL_OPEN" => call_start'
  <2>1. "SWITCH_CTRL" \notin {"HAL_CLOSE", "timeout"}
    OBVIOUS
  <2>. QED  BY <1>1, <2>1 DEF CallInv, ClosesCall
<1>5. goal[c] # "failed"
  BY <1>1 DEF CallInv
<1>6. CASE goal[c] = "HAL_OPEN"
  BY <1>1, <1>2, <1>3, <1>4, <1>6 DEF CallInv
<1>7. CASE goal[c] # "HAL_OPEN"
  BY <1>1, <1>2, <1>3, <1>4, <1>5, <1>7 DEF CallInv
<1>. QED  BY <1>6, <1>7

LEMMA DoneCall ==
  ASSUME MediaInv, NEW c \in CPs, CallInv(c), Done(c)
  PROVE  CallInv(c)'
<1>1. /\ CallOK /\ ThreadOK /\ c \in Threads /\ pc[c] = "done" /\ UNCHANGED <<call_start, modem>>
      /\ goal' = [goal EXCEPT ![c] = "none"]
      /\ Goto(c, IF goal[c] = "failed" THEN "exited" ELSE "idle")
  BY ThreadNames DEF MediaInv, HwTypeOK, Done
<1>2. goal'[c] = "none"
  BY <1>1 DEF CallOK
<1>3. pc'[c] = IF goal[c] = "failed" THEN "exited" ELSE "idle"
  BY <1>1, OtherPc
<1>4. pipe'[c] = <<>>
  <2>1. CASE goal[c] = "timeout"
    <3>1. pipe' = [pipe EXCEPT ![c] = <<>>] /\ pipe \in [CPs -> Pipes]
      BY <1>1, <2>1 DEF Done, CallOK
    <3>. QED  BY <3>1
  <2>2. CASE goal[c] # "timeout"
    <3>1. UNCHANGED pipe
      BY <2>2 DEF Done
    <3>. QED  BY <1>1, <2>2, <3>1 DEF CallInv
  <2>. QED  BY <2>1, <2>2
<1>5. modem[c] = "opened" => call_start
  BY <1>1 DEF CallInv
<1>6. pc'[c] = "idle" \/ pc'[c] = "exited"
  BY <1>3
<1>7. <<>> # <<"SWITCH_CTRL">>
  OBVIOUS
<1>8. "none" \notin {"HAL_OPEN", "failed"}
  OBVIOUS
<1>. QED  BY <1>1, <1>2, <1>4, <1>5, <1>6, <1>7, <1>8 DEF CallInv

\* With one modem the modem's protocol and the call's flags agree.
LEMMA CallStep ==
  ASSUME NEW c, CPs = {c}, MediaInv, CallInv(c), [Next]_vars
  PROVE  CallInv(c)'
<1>1. c \in CPs /\ c \in Threads /\ ThreadOK
  BY ThreadNames DEF MediaInv, HwTypeOK
<1>2. CASE \E s \in Streams : Lock(s) \/ StreamStep(s)
  <2>1. PICK s \in Streams : Lock(s) \/ StreamStep(s)
    BY <1>2
  <2>2. UNCHANGED callVars /\ \E l : Goto(s, l)
    BY <2>1 DEF Lock, StreamStep, Decide, ForceStandbyForVoip, JoinVoip, Start, Io,
                           ExitRead, ExitWrite
  <2>3. s \in Threads /\ s # c
    BY ThreadNames
  <2>4. pc'[c] = pc[c]
    BY <1>1, <2>2, <2>3, OtherPc
  <2>5. UNCHANGED <<call_start, pipe, goal, modem>>
    BY <2>2 DEF callVars
  <2>. QED  BY <1>1, <2>4, <2>5, CallKept
<1>3. CASE Policy \/ SetVoip
  <2>1. UNCHANGED callVars /\ (UNCHANGED pc \/ \E l : Goto("policy", l))
    BY <1>3 DEF Policy, SetVoip
  <2>2. "policy" \in Threads /\ "policy" # c
    BY ThreadNames
  <2>3. pc'[c] = pc[c]
    BY <1>1, <2>1, <2>2, OtherPc
  <2>4. UNCHANGED <<call_start, pipe, goal, modem>>
    BY <2>1 DEF callVars
  <2>. QED  BY <1>1, <2>3, <2>4, CallKept
<1>4. CASE \E d \in CPs : \/ ModemSends(d) \/ Command(d) \/ GiveUp(d) \/ LockDevice(d)
                          \/ CallThread(d)
  <2>1. \/ ModemSends(c) \/ Command(c) \/ GiveUp(c) \/ LockDevice(c)
        \/ ForceAllStandby(c) \/ Locked(c) \/ Done(c)
    BY <1>4 DEF CallThread
  <2>. QED  BY <1>1, <2>1, SendsCall, CommandCall, GiveUpCall, DeviceCall, LockedCall, DoneCall
<1>5. CASE UNCHANGED vars
  <2>1. UNCHANGED <<pc, call_start, pipe, goal, modem>>
    BY <1>5 DEF vars, callVars
  <2>. QED  BY <1>1, <2>1, CallKept
<1>. QED  BY <1>2, <1>3, <1>4, <1>5 DEF Next

LEMMA OutStep ==
  ASSUME MediaInv, OutInv, \A c \in CPs : CallInv(c), [Next]_vars
  PROVE  OutInv'
<1>1. CASE \E s \in Streams : Lock(s) \/ StreamStep(s)
  BY <1>1, StreamOut, StartOut, IoOut DEF StreamStep
<1>2. CASE Policy \/ SetVoip
  BY <1>2, PolicyOut
<1>3. CASE \E c \in CPs : Locked(c)
  <2>1. \A c \in CPs : goal[c] = "SWITCH_CTRL" => call_start
    BY DEF CallInv
  <2>. QED  BY <1>3, <2>1, LockedOut
<1>4. CASE \E c \in CPs : \/ ModemSends(c) \/ Command(c) \/ GiveUp(c) \/ LockDevice(c)
                          \/ ForceAllStandby(c) \/ Done(c)
  BY <1>4, PipeOut
<1>5. CASE UNCHANGED vars
  <2>1. UNCHANGED <<pc, stream, call_connected>>
    BY <1>5 DEF vars, streamVars, callVars
  <2>2. stream'["out"] = stream["out"] /\ pc'["out"] = pc["out"]
    BY <2>1
  <2>. QED  BY <2>1, <2>2, OutKept
<1>. QED  BY <1>1, <1>2, <1>3, <1>4, <1>5 DEF Next, CallThread

LEMMA OutInit ==
  ASSUME Init
  PROVE  OutInv /\ \A c \in CPs : CallInv(c)
<1>1. /\ pc = [t \in Threads |-> "idle"] /\ stream = [s \in Streams |-> Asleep]
      /\ pipe = [c \in CPs |-> <<>>] /\ goal = [c \in CPs |-> "none"]
      /\ modem = [c \in CPs |-> "idle"]
  BY DEF Init
<1>2. pc["out"] = "idle" /\ stream["out"] = Asleep
  BY <1>1, ThreadNames
<1>3. stream["out"].standby
  BY <1>2, AsleepType
<1>4. ASSUME NEW c \in CPs PROVE CallInv(c)
  <2>1. pc[c] = "idle" /\ pipe[c] = <<>> /\ goal[c] = "none" /\ modem[c] = "idle"
    BY <1>1, ThreadNames
  <2>2. <<>> # <<"SWITCH_CTRL">>
    OBVIOUS
  <2>. QED  BY <2>1, <2>2 DEF CallInv
<1>. QED  BY <1>2, <1>3, <1>4 DEF OutInv

\* With one modem, out_write writes to the PCM that is open: what it reads of
\* call_connected after it gave up adev->lock is what start_output_stream read
\* under it, however HAL_OPEN, SWITCH_CTRL, HAL_CLOSE and timeouts interleave.
THEOREM AlwaysWritesOpenPcm ==
  ASSUME NEW c, CPs = {c}
  PROVE  Spec => []WritesOpenPcm
<1>1. Init => OutInv /\ CallInv(c)
  BY OutInit
<1>2. MediaInv /\ OutInv /\ CallInv(c) /\ [Next]_vars => OutInv' /\ CallInv(c)'
  <2>1. SUFFICES ASSUME MediaInv, OutInv, CallInv(c), [Next]_vars PROVE OutInv' /\ CallInv(c)'
    OBVIOUS
  <2>2. \A d \in CPs : CallInv(d)
    BY <2>1
  <2>. QED  BY <2>1, <2>2, OutStep, CallStep
<1>3. OutInv => WritesOpenPcm
  <2>1. "io" \notin Failing
    BY DEF Failing
  <2>. QED  BY <2>1 DEF OutInv, WritesOpenPcm
<1>. QED  BY <1>1, <1>2, <1>3, AlwaysMediaInv, PTL DEF Spec
==============================================================================
