---------------------------- MODULE MCAudioRoute ----------------------------
(***************************************************************************)
(* Two parts of the audio HAL that share no state, in one model: a         *)
(* behaviour is one of the routing manager (AudioRoute), with two outputs  *)
(* around one input in the order of dev_cfgs, or one of the modem's PCM    *)
(* channels (MuxPcm), and the other part stays in its initial state.       *)
(***************************************************************************)
EXTENDS AudioRoute, MuxPcm

CONSTANTS speaker, headset, mic

MCOuts == {speaker, headset}
MCIns  == {mic}
MCCfgs == <<speaker, mic, headset>>

VARIABLE part
mcVars == <<part, routeVars, vars>>

RouteStep(A) == part = "route" /\ A /\ UNCHANGED <<part, vars>>
MuxStep(A) == part = "mux" /\ A /\ UNCHANGED <<part, routeVars>>

MCInit ==
    /\ part \in {"route", "mux"} /\ RouteInit /\ Init
    /\ part = "mux" => out_devices = {speaker}
MCNext == RouteStep(RouteNext) \/ MuxStep(Next)
MCSpec == MCInit /\ [][MCNext]_mcVars
=============================================================================
