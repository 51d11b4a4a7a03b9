------------------------------ MODULE NvIntake ------------------------------
(***************************************************************************)
(* What the parser of nvitem_sync.c does to the buffers, without packets   *)
(* and tokens: a request names a partition, changes its incoming copy a    *)
(* few sectors at a time, and is then committed or rolled back as a whole. *)
(* NvSync implements it; the daemon in Nvitemd is built on it.             *)
(***************************************************************************)
EXTENDS NvBuf

CONSTANT NoPart  \* no request is being received

VARIABLES
    buf,    \* ramNvCtl
    phase,  \* idle, busy: a head was accepted, commit: inside backupData
    id      \* the partition of the request

intakeVars == <<buf, phase, id>>

IntakeInit ==
    /\ \E c \in [Parts -> Content] : buf = [p \in Parts |-> initBuf(c[p])]
    /\ phase = "idle"
    /\ id = NoPart

\* A head with a known partition.
IntakeHead(p) ==
    /\ phase = "idle"
    /\ phase' = "busy"
    /\ id' = p
    /\ UNCHANGED buf

\* A body, or data it announced: sectors are marked, and marked ones change.
IntakeData(new) ==
    LET old == buf[id].fromChannel
    IN  /\ phase = "busy"
        /\ old.dirty \subseteq new.dirty
        /\ \A s \in Sectors : new.data[s] # old.data[s] => s \in new.dirty
        /\ buf' = [buf EXCEPT ![id] = [fromChannel |-> new, backup |-> buf[id].backup,
                                       toDisk |-> buf[id].toDisk]]
        /\ UNCHANGED <<phase, id>>

\* _syncReset(SYNC_FAIL_RESET) after a head was accepted.
IntakeReset ==
    /\ phase = "busy"
    /\ phase' = "idle"
    /\ id' = NoPart
    /\ buf' = [buf EXCEPT ![id] = restoreData(buf[id])]

\* The tail: the locked part of backupData.
IntakeCommit ==
    /\ phase = "busy"
    /\ phase' = "commit"
    /\ buf' = [buf EXCEPT ![id] = backupData(buf[id])]
    /\ UNCHANGED id

\* backupData returns to _syncReset.
IntakeDone ==
    /\ phase = "commit"
    /\ phase' = "idle"
    /\ id' = NoPart
    /\ UNCHANGED buf

IntakeNext ==
    \/ \E p \in Parts : IntakeHead(p)
    \/ \E new \in Buf : IntakeData(new)
    \/ IntakeReset
    \/ IntakeCommit
    \/ IntakeDone

IntakeSpec == IntakeInit /\ [][IntakeNext]_intakeVars
=============================================================================
