------------------------------ MODULE MCCmrMsg ------------------------------
(***************************************************************************)
(* Two posters and a getter on a ring of three slots, which wraps, is      *)
(* filled and is emptied; clock values on both sides of the end of a       *)
(* second.                                                                 *)
(***************************************************************************)
EXTENDS CmrMsg
=============================================================================
