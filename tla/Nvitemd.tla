------------------------------ MODULE Nvitemd ------------------------------
(***************************************************************************)
(* The whole daemon: the main thread receives requests (NvIntake, which    *)
(* NvSync implements), pSaveTask writes committed partitions to the store  *)
(* (NvStore, which RamDisk implements), and the daemon or the system may   *)
(* restart at any time.                                                    *)
(*                                                                         *)
(* In calibration mode (Cali) the main thread calls saveToDisk itself      *)
(* before it answers and pSaveTask is never signalled.  waiteEvent is a    *)
(* bare condition variable: a signal that finds pSaveTask busy is lost,    *)
(* and pSaveTask may wake up without one.                                  *)
(***************************************************************************)
EXTENDS NvIntake, NvStore

CONSTANT Cali  \* is_cali_mode

ASSUME NvitemdAssumption ==
    /\ Cali \in BOOLEAN
    /\ NoPart \notin Parts
    /\ Unread \notin Content
    /\ Writes \subseteq Content

VARIABLES
    up,      \* initBuf is done
    save,    \* the run of saveToDisk in progress
    kept,    \* history: committed contents a restart may come up with
    mark,    \* history: contents committed since the save in progress took its copy
    flushed  \* history: partitions saved without an error since the restart

history == <<kept, mark, flushed>>
vars == <<intakeVars, storeVars, up, save, history>>

\* saveToDisk goes through the partitions in todo; part is the one being saved.
\* pc "back": in calibration mode, saveToDisk has returned to backupData.
NoSave == [pc |-> "wait", todo |-> {}, part |-> NoPart]
StartSave == [pc |-> "check", todo |-> Parts, part |-> NoPart]
Saves == [pc : {"wait", "check", "get", "write", "back"}, todo : SUBSET Parts,
          part : Parts \cup {NoPart}]

Init ==
    /\ StoreInit
    /\ buf = [p \in Parts |-> initBuf(Blank)]
    /\ phase = "idle"
    /\ id = NoPart
    /\ up = FALSE
    /\ save = NoSave
    /\ kept = found
    /\ mark = [p \in Parts |-> {}]
    /\ flushed = {}
-----------------------------------------------------------------------------
(***************************************************************************)
(* main: initBuf reads every partition, then the threads start.            *)
(***************************************************************************)

LoadPart(p) ==
    /\ ~up
    /\ StoreRead(p)
    /\ buf' = [buf EXCEPT ![p] = initBuf(got'[p])]
    /\ UNCHANGED <<phase, id, up, save, history>>

Start ==
    /\ ~up
    /\ \A p \in Parts : got[p] # Unread
    /\ up' = TRUE
    /\ UNCHANGED <<intakeVars, storeVars, save, history>>

\* The parser, up to the tail of a request.
Receive ==
    /\ up
    /\ \/ \E p \in Parts : IntakeHead(p)
       \/ \E new \in Buf : IntakeData(new)
       \/ IntakeReset
    /\ UNCHANGED <<storeVars, up, save, history>>

\* The locked part of backupData.
Commit ==
    /\ up
    /\ IntakeCommit
    /\ kept' = [kept EXCEPT ![id] = @ \cup {buf[id].fromChannel.data}]
    /\ mark' = [mark EXCEPT ![id] = @ \cup {buf[id].fromChannel.data}]
    /\ UNCHANGED <<storeVars, up, save, flushed>>

\* Mutant: backupData does not call giveEvent.
GiveNoEvent ==
    /\ up /\ ~Cali
    /\ IntakeDone
    /\ UNCHANGED <<storeVars, up, save, history>>

\* giveEvent, which only a waiting pSaveTask notices.
GiveEvent ==
    /\ up /\ ~Cali
    /\ IntakeDone
    /\ save' = IF save.pc = "wait" THEN StartSave ELSE save
    /\ UNCHANGED <<storeVars, up, history>>

\* In calibration mode backupData calls saveToDisk ...
CaliSave ==
    /\ up /\ Cali
    /\ phase = "commit"
    /\ save.pc = "wait"
    /\ save' = StartSave
    /\ UNCHANGED <<intakeVars, storeVars, up, history>>

\* ... and the request is answered when that returns.
CaliAnswer ==
    /\ up /\ Cali
    /\ save.pc = "back"
    /\ IntakeDone
    /\ save' = NoSave
    /\ UNCHANGED <<storeVars, up, history>>

\* pthread_cond_wait returns without a signal.
SpuriousWakeup ==
    /\ up /\ ~Cali
    /\ save.pc = "wait"
    /\ save' = StartSave
    /\ UNCHANGED <<intakeVars, storeVars, up, history>>
-----------------------------------------------------------------------------
(***************************************************************************)
(* saveToDisk.                                                             *)
(***************************************************************************)
NextPart(p) == [pc |-> "check", todo |-> save.todo \ {p}, part |-> NoPart]

\* __ifHasDirty, without the mutex.
CheckDirty(p) ==
    /\ save.pc = "check"
    /\ p \in save.todo
    /\ save' = IF ifHasDirty(buf[p]) THEN [pc |-> "get", todo |-> save.todo, part |-> p]
                                     ELSE NextPart(p)
    /\ UNCHANGED <<intakeVars, storeVars, up, history>>

\* __getData, and ramDisk_Write begins with the copy.
GetData ==
    /\ save.pc = "get"
    /\ save' = [pc |-> "write", todo |-> save.todo, part |-> save.part]
    /\ buf' = [buf EXCEPT ![save.part] = getData(buf[save.part])]
    /\ StoreBegin(save.part, getData(buf[save.part]).toDisk.data)
    /\ mark' = [mark EXCEPT ![save.part] = {buf[save.part].backup.data}]
    /\ UNCHANGED <<phase, id, up, kept, flushed>>

\* ramDisk_Write returns 1.
Written ==
    /\ save.pc = "write"
    /\ StoreDone
    /\ save' = NextPart(save.part)
    /\ buf' = [buf EXCEPT ![save.part] = cleanToDisk(buf[save.part])]
    /\ kept' = [kept EXCEPT ![save.part] = mark[save.part]]
    /\ flushed' = flushed \cup {save.part}
    /\ UNCHANGED <<phase, id, up, mark>>

\* ramDisk_Write met an error.  It returns 0, or 1 if the error was in open or
\* fsync; saveToDisk goes on with the next partition either way.
WriteFailed ==
    /\ save.pc = "write"
    /\ StoreGiveUp
    /\ save' = NextPart(save.part)
    /\ buf' \in {buf, [buf EXCEPT ![save.part] = cleanToDisk(buf[save.part])]}
    /\ UNCHANGED <<phase, id, up, history>>

\* The loop is done: pSaveTask waits again, or saveToDisk returns to backupData.
SaveEnd ==
    /\ save.pc = "check"
    /\ save.todo = {}
    /\ save' = [NoSave EXCEPT !.pc = IF Cali THEN "back" ELSE "wait"]
    /\ UNCHANGED <<intakeVars, storeVars, up, history>>

\* An I/O call of ramDisk_Write, or of the repair in ramDisk_Read, fails.
IoError(p) ==
    /\ \/ wr.on /\ wr.part = p
       \/ ~up /\ got[p] # Unread
    /\ StoreError(p)
    /\ UNCHANGED <<intakeVars, up, save, history>>

\* The daemon is killed or the power is cut: only the store survives.
Restart ==
    /\ StoreRestart
    /\ up' = FALSE
    /\ buf' = [p \in Parts |-> initBuf(Blank)]
    /\ phase' = "idle"
    /\ id' = NoPart
    /\ save' = NoSave
    /\ mark' = [p \in Parts |-> {}]
    /\ flushed' = {}
    /\ UNCHANGED kept
-----------------------------------------------------------------------------
SaveStep ==
    \/ \E p \in Parts : CheckDirty(p)
    \/ GetData
    \/ Written
    \/ WriteFailed
    \/ SaveEnd

Next ==
    \/ \E p \in Parts : LoadPart(p) \/ IoError(p)
    \/ Start
    \/ Receive
    \/ Commit
    \/ GiveEvent
    \/ CaliSave
    \/ CaliAnswer
    \/ SpuriousWakeup
    \/ SaveStep
    \/ Restart

Spec == Init /\ [][Next]_vars

-----------------------------------------------------------------------------
TypeOK ==
    /\ buf \in [Parts -> PartCtl]
    /\ phase \in {"idle", "busy", "commit"}
    /\ id \in Parts \cup {NoPart}
    /\ phase # "idle" => id \in Parts
    /\ found \in [Parts -> SUBSET Content]
    /\ got \in [Parts -> Content \cup {Unread}]
    /\ trusted \in SUBSET Parts
    /\ wr \in {NoWrite} \cup {Writing(p, c) : p \in Parts, c \in Content}
    /\ up \in BOOLEAN
    /\ save \in Saves
    /\ save.pc \in {"get", "write"} => save.part \in Parts
    /\ kept \in [Parts -> SUBSET Content]
    /\ mark \in [Parts -> SUBSET Content]
    /\ flushed \in SUBSET Parts

\* After a restart every partition without I/O errors holds the contents of one
\* moment: those of the last completed save or of a commit after its copy was
\* taken.  Never half a request, never something older, whatever pSaveTask and
\* the parser were doing.
Durable == \A p \in trusted : found[p] \subseteq kept[p]

\* Every sector whose committed contents pSaveTask has not taken yet is dirty in
\* backup, so the unlocked __ifHasDirty never passes over a changed partition.
NothingForgotten ==
    \A p \in Parts, s \in Sectors :
        buf[p].backup.data[s] # buf[p].toDisk.data[s] => s \in buf[p].backup.dirty

\* Clean dirty bits mean saved: a partition that was saved since the start, has
\* no dirty bit and is not being written can only come back as it is now.
CleanMeansSaved ==
    \A p \in trusted \cap flushed :
        ~ifHasDirty(buf[p]) /\ ~(wr.on /\ wr.part = p) => found[p] = {buf[p].backup.data}

\* In calibration mode a request that changed something is on the device before
\* it is answered: the partition can then only come back as committed.
CaliDurable ==
    save.pc = "back" /\ id \in trusted /\ buf[id].fromChannel.dirty # {}
        => found[id] = {buf[id].backup.data}

\* A request has just been committed; in normal mode it is due for partition p if
\* pSaveTask waits and p is dirty.
Due(p) == phase = "commit" /\ (Cali \/ (save.pc = "wait" /\ ifHasDirty(buf[p])))

\* It is served: in calibration mode by the answer, which comes after saveToDisk has
\* gone through all partitions, even if ramDisk_Write fails; in normal mode when
\* pSaveTask has taken the contents, unless the system restarts.
Served(p) == IF Cali THEN phase = "idle" ELSE ~ifHasDirty(buf[p]) \/ ~up
=============================================================================
