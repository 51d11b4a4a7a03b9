------------------------------ MODULE MCAudioHw ------------------------------
(* The modems are given in the configurations. *)
EXTENDS AudioHw

CONSTANT tg
=============================================================================
