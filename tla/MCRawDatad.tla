----------------------------- MODULE MCRawDatad -----------------------------
(***************************************************************************)
(* The two daemons that keep copies of files in raw partitions, rawdatad   *)
(* and the older nvm_daemon.  They share nothing, so a behaviour is one of *)
(* either: the other one stays in an initial state.                        *)
(***************************************************************************)
EXTENDS RawDatad, NvmDaemon

VARIABLE daemon  \* which of them runs

MCInit ==
    /\ \/ daemon = "rawdatad" /\ Init
       \/ daemon = "nvm" /\ Init /\ ~deletes /\ saved[0] = <<0, CHOOSE v \in Versions : TRUE>>
    /\ NvmInit

RawStep(A) == daemon = "rawdatad" /\ A /\ UNCHANGED <<daemon, nvmVars>>
NvmStep(A) == daemon = "nvm" /\ A /\ UNCHANGED <<daemon, vars>>

MCNext == RawStep(Next) \/ NvmStep(NvmNext)
mcVars == <<daemon, vars, nvmVars>>
MCSpec == MCInit /\ [][MCNext]_mcVars /\ WF_mcVars(RawStep(Daemon))
=============================================================================
