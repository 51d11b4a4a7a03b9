--------------------------- MODULE MCNvitemdModes ---------------------------
(***************************************************************************)
(* The daemon in calibration mode, and with its save task, in one model: a *)
(* behaviour is one of them (mode).                                        *)
(***************************************************************************)
EXTENDS Integers

CONSTANTS Parts, NumSectors, Vals, Erased, Unread, NoPart

VARIABLES mode, buf, phase, id, found, wr, got, trusted, up, save, kept, mark, flushed

vars == <<buf, phase, id, found, wr, got, trusted, up, save, kept, mark, flushed>>

\* In calibration mode any contents may be received.  What a request holds does
\* not matter to the progress of the threads, so there it is always the same.
Cal == INSTANCE Nvitemd WITH Cali <- TRUE, Writes <- [1 .. NumSectors -> Vals]
Run == INSTANCE Nvitemd WITH
           Cali <- FALSE, Vals <- {Erased}, Writes <- [1 .. NumSectors -> {Erased}]

CalStep(A) == mode = "cali" /\ A /\ UNCHANGED mode
RunStep(A) == mode = "run" /\ A /\ UNCHANGED mode

MCInit == (mode = "cali" /\ Cal!Init) \/ (mode = "run" /\ Run!Init)
MCNext == CalStep(Cal!Next) \/ RunStep(Run!Next)

mcVars == <<mode, vars>>

\* Both threads run when they can, and I/O calls return.
MCSpec ==
    /\ MCInit /\ [][MCNext]_mcVars
    /\ WF_mcVars(CalStep(Cal!SaveStep) \/ RunStep(Run!SaveStep))
    /\ WF_mcVars(CalStep(Cal!CaliSave) \/ RunStep(Run!GiveEvent))
    /\ WF_mcVars(CalStep(Cal!CaliAnswer))

\* In calibration mode a request that changed something is on the device before
\* backupData answers it.
CaliDurable == mode = "cali" => Cal!CaliDurable

\* Every committed request is served: in calibration mode it is answered, and
\* otherwise one that is committed while pSaveTask waits is taken up by it, so
\* giveEvent's signal is not lost.
CommitsServed ==
    \A p \in Parts :
        (mode = "cali" /\ Cal!Due(p)) \/ (mode = "run" /\ Run!Due(p))
            ~> (mode = "cali" /\ Cal!Served(p)) \/ (mode = "run" /\ Run!Served(p))
=============================================================================
