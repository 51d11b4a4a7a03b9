------------------------------ MODULE NvStore ------------------------------
(***************************************************************************)
(* What nvitem_buf.c may rely on when it calls ramDisk_Read and            *)
(* ramDisk_Write: a store that, partition by partition, gives back after a *)
(* restart either the contents of the last write that completed or those   *)
(* of a write begun since then, as long as the partition is trusted.       *)
(* RamDisk implements it; the daemon in Nvitemd runs on top of it.         *)
(***************************************************************************)
EXTENDS NvData

CONSTANTS
    Unread,  \* a partition that was not read since the last restart
    Writes   \* the contents that are ever written

VARIABLES
    found,   \* contents a restart may find
    wr,      \* the write in progress
    got,     \* what ramDisk_Read returned
    trusted  \* partitions that keep the promise

storeVars == <<found, wr, got, trusted>>

NoWrite == [on |-> FALSE]
Writing(p, c) == [on |-> TRUE, part |-> p, buf |-> c]

StoreInit ==
    /\ \E c \in [Parts -> Writes] : found = [p \in Parts |-> {c[p]}]
    /\ wr = NoWrite
    /\ got = [p \in Parts |-> Unread]
    /\ trusted = Parts

\* ramDisk_Read.  Whatever it returns, it returns 1; a partition that cannot
\* be read is no longer trusted.
StoreRead(p) ==
    /\ ~wr.on
    /\ got[p] = Unread
    /\ trusted' \in {trusted, trusted \ {p}}
    /\ \E c \in Content :
         /\ got' = [got EXCEPT ![p] = c]
         /\ p \in trusted' => c \in found[p]
    /\ UNCHANGED <<found, wr>>

\* ramDisk_Write is called.
StoreBegin(p, c) ==
    /\ ~wr.on
    /\ wr' = Writing(p, c)
    /\ found' = [found EXCEPT ![p] = @ \cup {c}]
    /\ UNCHANGED <<got, trusted>>

\* ramDisk_Write returns, all calls having succeeded.
StoreDone ==
    /\ wr.on
    /\ wr' = NoWrite
    /\ found' = [found EXCEPT ![wr.part] = {wr.buf}]
    /\ trusted' = trusted \cup {wr.part}
    /\ UNCHANGED got

\* ramDisk_Write returns after an I/O error.
StoreGiveUp ==
    /\ wr.on
    /\ wr.part \notin trusted
    /\ wr' = NoWrite
    /\ UNCHANGED <<found, got, trusted>>

\* An I/O error in a write or in the repair that a read makes.
StoreError(p) ==
    /\ trusted' = trusted \ {p}
    /\ UNCHANGED <<found, wr, got>>

\* The daemon, or the whole system, restarts.
StoreRestart ==
    /\ wr' = NoWrite
    /\ got' = [p \in Parts |-> Unread]
    /\ UNCHANGED <<found, trusted>>

StoreNext ==
    \/ \E p \in Parts : StoreRead(p) \/ StoreError(p)
    \/ \E p \in Parts, c \in Writes : StoreBegin(p, c)
    \/ StoreDone
    \/ StoreGiveUp
    \/ StoreRestart

StoreSpec == StoreInit /\ [][StoreNext]_storeVars
=============================================================================
