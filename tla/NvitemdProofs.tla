--------------------------- MODULE NvitemdProofs ---------------------------
(***************************************************************************)
(* The safety properties of the daemon, for any partitions, contents and   *)
(* number of sectors, in normal and in calibration mode.                   *)
(*                                                                         *)
(* What the invariant adds to the properties:                              *)
(*   BufInv    sectors that differ between two copies are dirty in the     *)
(*             copy they come from;                                        *)
(*   SaverInv  the write in progress is that of saveToDisk, of the data    *)
(*             now in toDisk;                                              *)
(*   KeptInv   what may be written next was committed: the committed       *)
(*             contents are among those a restart may come up with, and    *)
(*             among those committed since the save took its copy;         *)
(*   FlushInv  a partition saved without error holds toDisk;               *)
(*   CaliInv   in calibration mode the partition of the request is dirty   *)
(*             until saveToDisk comes to it, and saved afterwards.         *)
(* The table of dirty bits that _markDirtyInfo marks is at the end.        *)
(***************************************************************************)
EXTENDS Nvitemd, DirtyTable, TLAPS

\* Sectors of one partition that differ between two copies are dirty.
BufOK(b) ==
    \A s \in Sectors :
        /\ b.backup.data[s] # b.toDisk.data[s] => s \in b.backup.dirty
        /\ b.fromChannel.data[s] # b.backup.data[s] => s \in b.fromChannel.dirty

BufInv == \A p \in Parts : BufOK(buf[p])

SaverInv ==
    /\ wr.on <=> save.pc = "write"
    /\ wr.on => wr.part = save.part /\ wr.buf = buf[save.part].toDisk.data
    /\ save.pc \in {"get", "write"} => save.part \in save.todo
    /\ save.pc = "back" => Cali /\ save.todo = {}
    /\ ~up => save.pc = "wait" /\ phase = "idle"
    /\ up => \A p \in Parts : got[p] # Unread

KeptInv ==
    /\ Durable
    /\ \A p \in trusted : got[p] # Unread => buf[p].backup.data \in kept[p]
    /\ wr.on => wr.buf \in mark[wr.part] /\ buf[wr.part].backup.data \in mark[wr.part]

FlushInv ==
    \A p \in trusted \cap flushed : ~(wr.on /\ wr.part = p) => found[p] = {buf[p].toDisk.data}

\* saveToDisk has yet to take the data of the request.
Pending == save.pc = "wait" \/ (id \in save.todo /\ ~(save.pc = "write" /\ save.part = id))

CaliInv ==
    Cali =>
        /\ save.pc # "wait" => phase = "commit"
        /\ phase = "commit" /\ buf[id].fromChannel.dirty # {} =>
             /\ ifHasDirty(buf[id]) <=> Pending
             /\ id \in trusted => Pending \/ id \in flushed \/ (save.pc = "write" /\ save.part = id)

Inv == TypeOK /\ BufInv /\ SaverInv /\ KeptInv /\ FlushInv /\ CaliInv
-----------------------------------------------------------------------------
USE ZenonT(60), NvDataAssumption, NvitemdAssumption

LEMMA BlankType == Blank \in Content
  BY DEF Blank, Content

\* The operations of nvitem_buf.c keep the type of the copies.
LEMMA BufTypes ==
  ASSUME NEW b \in PartCtl
  PROVE  /\ backupData(b) \in PartCtl
         /\ restoreData(b) \in PartCtl
         /\ getData(b) \in PartCtl
         /\ cleanToDisk(b) \in PartCtl
  BY DEF PartCtl, Buf, Copy, backupData, restoreData, getData, cleanToDisk

LEMMA InitBufType ==
  ASSUME NEW c \in Content
  PROVE  initBuf(c) \in PartCtl
  BY DEF PartCtl, Buf, Copy, initBuf

\* The partition saveToDisk is at is a partition.
LEMMA PartTyped ==
  ASSUME TypeOK, save.pc = "get" \/ save.pc = "write"
  PROVE  save.part \in Parts
  BY SMTT(60) DEF TypeOK

LEMMA WriteTyped ==
  ASSUME TypeOK, wr.on
  PROVE  wr.part \in Parts /\ wr.buf \in Content /\ wr = Writing(wr.part, wr.buf)
  <1>1. PICK p \in Parts, c \in Content : wr = Writing(p, c)
    BY SMTT(60) DEF TypeOK, NoWrite
  <1> QED BY <1>1 DEF Writing
-----------------------------------------------------------------------------
(***************************************************************************)
(* Types.                                                                  *)
(***************************************************************************)
LEMMA SaveTypes ==
  /\ NoSave \in Saves
  /\ StartSave \in Saves
  /\ TypeOK => \A p \in Parts : NextPart(p) \in Saves
  BY SMTT(60) DEF NoSave, StartSave, NextPart, Saves, TypeOK

LEMMA TypeInit == Init => TypeOK
  <1> SUFFICES ASSUME Init PROVE TypeOK
    OBVIOUS
  <1>1. buf \in [Parts -> PartCtl]
    BY InitBufType, BlankType DEF Init
  <1>2. found \in [Parts -> SUBSET Content]
    BY SMTT(60) DEF Init, StoreInit
  <1>3. save \in Saves /\ save.pc = "wait"
    BY SaveTypes DEF Init, NoSave
  <1>4. got \in [Parts -> Content \cup {Unread}]
    BY DEF Init, StoreInit
  <1>5. mark \in [Parts -> SUBSET Content] /\ kept \in [Parts -> SUBSET Content]
    BY <1>2 DEF Init
  <1>6. up \in BOOLEAN /\ phase = "idle" /\ id = NoPart
    BY DEF Init
  <1>7. wr = NoWrite /\ trusted = Parts /\ flushed = {}
    BY DEF Init, StoreInit
  <1> QED BY SMTT(60), <1>1, <1>2, <1>3, <1>4, <1>5, <1>6, <1>7 DEF TypeOK

LEMMA TypeStep == TypeOK /\ [Next]_vars => TypeOK'
  <1> SUFFICES ASSUME TypeOK, [Next]_vars PROVE TypeOK'
    OBVIOUS
  <1>1. ASSUME NEW p \in Parts, LoadPart(p) PROVE TypeOK'
    <2>1. got' \in [Parts -> Content \cup {Unread}] /\ got'[p] \in Content
      BY SMTT(60), <1>1 DEF LoadPart, StoreRead, TypeOK
    <2>2. buf' \in [Parts -> PartCtl]
      BY SMTT(60), <1>1, <2>1, InitBufType DEF LoadPart, TypeOK
    <2>3. trusted' \in SUBSET Parts
      BY SMTT(60), <1>1 DEF LoadPart, StoreRead, TypeOK
    <2> QED BY SMTT(60), <1>1, <2>1, <2>2, <2>3 DEF LoadPart, StoreRead, TypeOK, history
  <1>2. ASSUME NEW p \in Parts, IoError(p) PROVE TypeOK'
    BY SMTT(60), <1>2 DEF IoError, StoreError, TypeOK, intakeVars, history
  <1>3. CASE Start
    BY SMTT(60), <1>3 DEF Start, TypeOK, intakeVars, storeVars, history
  <1>4. CASE Receive
    <2>1. ASSUME NEW p \in Parts, IntakeHead(p) PROVE TypeOK'
      BY SMTT(60), <1>4, <2>1 DEF Receive, IntakeHead, TypeOK, storeVars, history
    <2>2. ASSUME NEW new \in Buf, IntakeData(new) PROVE TypeOK'
      <3>1. id \in Parts /\ buf[id] \in PartCtl
        BY SMTT(60), <2>2 DEF IntakeData, TypeOK
      <3>2. [fromChannel |-> new, backup |-> buf[id].backup, toDisk |-> buf[id].toDisk] \in PartCtl
        BY <2>2, <3>1 DEF PartCtl
      <3>3. buf' \in [Parts -> PartCtl]
        BY SMTT(60), <2>2, <3>2 DEF IntakeData, TypeOK
      <3> QED BY SMTT(60), <1>4, <2>2, <3>3 DEF Receive, IntakeData, TypeOK, storeVars, history
    <2>3. CASE IntakeReset
      <3>1. id \in Parts /\ buf[id] \in PartCtl
        BY SMTT(60), <2>3 DEF IntakeReset, TypeOK
      <3>2. buf' \in [Parts -> PartCtl]
        BY SMTT(60), <2>3, <3>1, BufTypes DEF IntakeReset, TypeOK
      <3> QED BY SMTT(60), <1>4, <2>3, <3>2 DEF Receive, IntakeReset, TypeOK, storeVars, history
    <2> QED BY <1>4, <2>1, <2>2, <2>3 DEF Receive
  <1>5. CASE Commit
    <2>1. id \in Parts /\ buf[id] \in PartCtl /\ buf[id].fromChannel.data \in Content
      BY SMTT(60), <1>5 DEF Commit, IntakeCommit, TypeOK, PartCtl, Buf
    <2>2. buf' \in [Parts -> PartCtl]
      BY SMTT(60), <1>5, <2>1, BufTypes DEF Commit, IntakeCommit, TypeOK
    <2>3. kept' \in [Parts -> SUBSET Content] /\ mark' \in [Parts -> SUBSET Content]
      BY SMTT(60), <1>5, <2>1 DEF Commit, TypeOK
    <2> QED BY SMTT(60), <1>5, <2>1, <2>2, <2>3 DEF Commit, IntakeCommit, TypeOK, storeVars
  <1>6. CASE GiveEvent
    <2>1. save' \in Saves /\ (save' = save \/ save'.pc = "check")
      BY SMTT(60), <1>6, SaveTypes DEF GiveEvent, StartSave, TypeOK
    <2> QED BY SMTT(60), <1>6, <2>1 DEF GiveEvent, IntakeDone, TypeOK, storeVars, history
  <1>7. CASE CaliSave \/ SpuriousWakeup
    <2>1. save' \in Saves /\ save'.pc = "check"
      BY SMTT(60), <1>7, SaveTypes DEF CaliSave, SpuriousWakeup, StartSave
    <2> QED BY SMTT(60), <1>7, <2>1 DEF CaliSave, SpuriousWakeup, TypeOK, intakeVars, storeVars, history
  <1>8. CASE CaliAnswer
    <2>1. save' \in Saves /\ save'.pc = "wait"
      BY <1>8, SaveTypes DEF CaliAnswer, NoSave
    <2> QED BY SMTT(60), <1>8, <2>1 DEF CaliAnswer, IntakeDone, TypeOK, storeVars, history
  <1>9. ASSUME NEW p \in Parts, CheckDirty(p) PROVE TypeOK'
    <2>1. save' \in Saves /\ (save'.pc = "check" \/ save'.part = p)
      BY SMTT(60), <1>9, SaveTypes DEF CheckDirty, NextPart, Saves, TypeOK
    <2> QED BY SMTT(60), <1>9, <2>1 DEF CheckDirty, TypeOK, intakeVars, storeVars, history
  <1>10. CASE GetData
    <2>1. save.part \in Parts /\ buf[save.part] \in PartCtl
      BY SMTT(60), <1>10 DEF GetData, TypeOK
    <2>2. getData(buf[save.part]) \in PartCtl /\ buf' \in [Parts -> PartCtl]
      BY SMTT(60), <1>10, <2>1, BufTypes DEF GetData, TypeOK
    <2>3. getData(buf[save.part]).toDisk.data \in Content /\ buf[save.part].backup.data \in Content
      BY <2>1, <2>2 DEF PartCtl, Buf
    <2>4. save' \in Saves /\ save'.part = save.part
      <3>1. save' = [pc |-> "write", todo |-> save.todo, part |-> save.part]
        BY <1>10 DEF GetData
      <3>2. save.todo \in SUBSET Parts
        BY SMTT(60) DEF TypeOK, Saves
      <3> QED BY SMTT(60), <2>1, <3>1, <3>2 DEF Saves
    <2>5. mark' \in [Parts -> SUBSET Content] /\ found' \in [Parts -> SUBSET Content]
      BY SMTT(60), <1>10, <2>1, <2>3 DEF GetData, StoreBegin, TypeOK
    <2>6. wr' \in {NoWrite} \cup {Writing(p, c) : p \in Parts, c \in Content}
      <3>1. wr' = Writing(save.part, getData(buf[save.part]).toDisk.data)
        BY <1>10 DEF GetData, StoreBegin
      <3> QED BY SMTT(60), <2>1, <2>3, <3>1
    <2>7. UNCHANGED <<phase, id, up, kept, flushed, got, trusted>>
      BY <1>10 DEF GetData, StoreBegin
    <2> QED BY SMTT(60), <2>1, <2>2, <2>4, <2>5, <2>6, <2>7 DEF TypeOK
  <1>11. CASE Written
    <2>1. save.part \in Parts /\ buf[save.part] \in PartCtl
      BY SMTT(60), <1>11 DEF Written, TypeOK
    <2>2. wr.part \in Parts /\ wr.buf \in Content
      BY <1>11, WriteTyped DEF Written, StoreDone
    <2>3. buf' \in [Parts -> PartCtl]
      BY SMTT(60), <1>11, <2>1, BufTypes DEF Written, TypeOK
    <2>4. save' \in Saves /\ save'.pc = "check"
      BY <1>11, <2>1, SaveTypes DEF Written, NextPart
    <2>5. found' \in [Parts -> SUBSET Content] /\ kept' \in [Parts -> SUBSET Content]
      BY SMTT(60), <1>11, <2>1, <2>2 DEF Written, StoreDone, TypeOK
    <2>6. flushed' \in SUBSET Parts /\ trusted' \in SUBSET Parts
      BY SMTT(60), <1>11, <2>1, <2>2 DEF Written, StoreDone, TypeOK
    <2>7. wr' = NoWrite
      BY <1>11 DEF Written, StoreDone
    <2> QED BY SMTT(60), <1>11, <2>3, <2>4, <2>5, <2>6, <2>7 DEF Written, StoreDone, TypeOK
  <1>12. CASE WriteFailed
    <2>1. save.part \in Parts /\ buf[save.part] \in PartCtl
      BY SMTT(60), <1>12 DEF WriteFailed, TypeOK
    <2>2. buf' \in [Parts -> PartCtl]
      BY SMTT(60), <1>12, <2>1, BufTypes DEF WriteFailed, TypeOK
    <2>3. save' \in Saves /\ save'.pc = "check"
      BY <1>12, <2>1, SaveTypes DEF WriteFailed, NextPart
    <2> QED BY SMTT(60), <1>12, <2>2, <2>3 DEF WriteFailed, StoreGiveUp, TypeOK, history
  <1>13. CASE SaveEnd
    <2>1. save' \in Saves /\ save'.pc \in {"wait", "back"}
      BY <1>13 DEF SaveEnd, NoSave, Saves
    <2> QED BY SMTT(60), <1>13, <2>1 DEF SaveEnd, TypeOK, intakeVars, storeVars, history
  <1>14. CASE Restart
    <2>1. buf' \in [Parts -> PartCtl]
      BY <1>14, InitBufType, BlankType DEF Restart
    <2>2. save' \in Saves /\ save'.pc = "wait"
      BY <1>14, SaveTypes DEF Restart, NoSave
    <2>3. got' \in [Parts -> Content \cup {Unread}]
      BY <1>14 DEF Restart, StoreRestart
    <2>4. mark' \in [Parts -> SUBSET Content] /\ kept' \in [Parts -> SUBSET Content]
      BY SMTT(60), <1>14 DEF Restart, TypeOK
    <2>5. up' \in BOOLEAN /\ phase' = "idle" /\ id' = NoPart
      BY <1>14 DEF Restart
    <2>6. wr' = NoWrite /\ trusted' \in SUBSET Parts /\ flushed' = {}
      BY SMTT(60), <1>14 DEF Restart, StoreRestart, TypeOK
    <2>7. found' \in [Parts -> SUBSET Content]
      BY SMTT(60), <1>14 DEF Restart, StoreRestart, TypeOK
    <2> QED BY SMTT(60), <2>1, <2>2, <2>3, <2>4, <2>5, <2>6, <2>7 DEF TypeOK
  <1>15. CASE UNCHANGED vars
    BY SMTT(60), <1>15 DEF vars, intakeVars, storeVars, history, TypeOK
  <1> QED BY <1>1, <1>2, <1>3, <1>4, <1>5, <1>6, <1>7, <1>8, <1>9, <1>10, <1>11, <1>12, <1>13,
             <1>14, <1>15 DEF Next, SaveStep
-----------------------------------------------------------------------------
(***************************************************************************)
(* The copies.                                                             *)
(***************************************************************************)
LEMMA BufOps ==
  ASSUME NEW b \in PartCtl, BufOK(b)
  PROVE  /\ BufOK(backupData(b))
         /\ BufOK(restoreData(b))
         /\ BufOK(getData(b))
         /\ BufOK(cleanToDisk(b))
  BY DEF BufOK, Copy, backupData, restoreData, getData, cleanToDisk

LEMMA InitBufOK ==
  ASSUME NEW c \in Content
  PROVE  BufOK(initBuf(c))
  BY DEF BufOK, Copy, initBuf

LEMMA BufInit == Init => BufInv
  BY InitBufOK, BlankType DEF Init, BufInv

LEMMA BufStep == TypeOK /\ BufInv /\ [Next]_vars => BufInv'
  <1> SUFFICES ASSUME TypeOK, BufInv, [Next]_vars PROVE BufInv'
    OBVIOUS
  <1>0. buf \in [Parts -> PartCtl] /\ \A p \in Parts : buf[p] \in PartCtl /\ BufOK(buf[p])
    BY SMTT(60) DEF TypeOK, BufInv
  \* One partition gets new copies, or none does.
  <1>a. ASSUME NEW q \in Parts, NEW b, BufOK(b), buf' = [buf EXCEPT ![q] = b] PROVE BufInv'
    BY <1>0, <1>a DEF BufInv
  <1>b. ASSUME buf' = buf PROVE BufInv'
    BY <1>0, <1>b DEF BufInv
  <1>1. ASSUME NEW p \in Parts, LoadPart(p) PROVE BufInv'
    <2>1. got'[p] \in Content
      BY SMTT(60), <1>1 DEF LoadPart, StoreRead, TypeOK
    <2> QED BY <1>1, <2>1, <1>a, InitBufOK DEF LoadPart
  <1>2. CASE Receive
    <2>1. ASSUME NEW p \in Parts, IntakeHead(p) PROVE BufInv'
      BY <2>1, <1>b DEF IntakeHead
    <2>2. ASSUME NEW new \in Buf, IntakeData(new) PROVE BufInv'
      <3>1. id \in Parts
        BY SMTT(60), <2>2 DEF IntakeData, TypeOK
      <3>2. BufOK([fromChannel |-> new, backup |-> buf[id].backup, toDisk |-> buf[id].toDisk])
        BY <1>0, <2>2, <3>1 DEF IntakeData, BufOK
      <3> QED BY <2>2, <3>1, <3>2, <1>a DEF IntakeData
    <2>3. CASE IntakeReset
      BY <2>3, <1>0, <1>a, BufOps DEF IntakeReset, TypeOK
    <2> QED BY <1>2, <2>1, <2>2, <2>3 DEF Receive
  <1>3. CASE Commit
    BY <1>3, <1>0, <1>a, BufOps DEF Commit, IntakeCommit, TypeOK
  <1>4. CASE GetData
    <2>1. save.part \in Parts
      BY SMTT(60), <1>4 DEF GetData, TypeOK
    <2>2. BufOK(getData(buf[save.part]))
      BY <1>0, <2>1, BufOps
    <2> QED BY <1>4, <1>a, <2>1, <2>2 DEF GetData
  <1>5. CASE Written
    <2>1. save.part \in Parts
      BY SMTT(60), <1>5 DEF Written, TypeOK
    <2>2. BufOK(cleanToDisk(buf[save.part]))
      BY <1>0, <2>1, BufOps
    <2> QED BY <1>5, <1>a, <2>1, <2>2 DEF Written
  <1>6. CASE WriteFailed
    <2>1. save.part \in Parts
      BY SMTT(60), <1>6 DEF WriteFailed, TypeOK
    <2>2. BufOK(cleanToDisk(buf[save.part]))
      BY <1>0, <2>1, BufOps
    <2> QED BY <1>6, <1>a, <1>b, <2>1, <2>2 DEF WriteFailed
  <1>7. CASE Restart
    BY <1>7, InitBufOK, BlankType DEF Restart, BufInv
  <1>8. ASSUME NEW p \in Parts, IoError(p) \/ CheckDirty(p) PROVE BufInv'
    BY <1>8, <1>b DEF IoError, CheckDirty, intakeVars
  <1>9. CASE Start \/ GiveEvent \/ CaliSave \/ CaliAnswer \/ SpuriousWakeup \/ SaveEnd
    BY <1>9, <1>b DEF Start, GiveEvent, CaliSave, CaliAnswer, SpuriousWakeup, SaveEnd, intakeVars,
                      IntakeDone
  <1>10. CASE UNCHANGED vars
    BY <1>10, <1>b DEF vars, intakeVars
  <1> QED BY <1>1, <1>2, <1>3, <1>4, <1>5, <1>6, <1>7, <1>8, <1>9, <1>10 DEF Next, SaveStep
-----------------------------------------------------------------------------
(***************************************************************************)
(* saveToDisk and its write.                                               *)
(***************************************************************************)
LEMMA SaverInit == Init => SaverInv
  <1> SUFFICES ASSUME Init PROVE SaverInv
    OBVIOUS
  <1>1. ~wr.on /\ ~up /\ phase = "idle" /\ save.pc = "wait"
    BY DEF Init, StoreInit, NoWrite, NoSave
  <1> QED BY <1>1 DEF SaverInv

LEMMA SaverStep == TypeOK /\ SaverInv /\ [Next]_vars => SaverInv'
  <1> SUFFICES ASSUME TypeOK, SaverInv, [Next]_vars PROVE SaverInv'
    OBVIOUS
  <1>1. ASSUME NEW p \in Parts, LoadPart(p) PROVE SaverInv'
    <2>1. wr' = wr /\ ~wr.on /\ save' = save /\ phase' = phase /\ ~up /\ ~up'
      BY <1>1 DEF LoadPart, StoreRead
    <2> QED BY <2>1 DEF SaverInv
  <1>2. ASSUME NEW p \in Parts, IoError(p) PROVE SaverInv'
    BY <1>2 DEF IoError, StoreError, SaverInv, intakeVars
  <1>3. CASE Start
    BY <1>3 DEF Start, SaverInv, intakeVars, storeVars
  <1>4. CASE Receive
    <2>1. up /\ up' /\ UNCHANGED <<wr, got, save>>
      BY <1>4 DEF Receive, storeVars
    <2>2. ASSUME wr.on PROVE buf'[save.part].toDisk = buf[save.part].toDisk
      <3>1. save.part \in Parts /\ buf \in [Parts -> PartCtl]
        BY SMTT(60), <2>2 DEF SaverInv, TypeOK
      <3>2. ASSUME NEW p \in Parts, IntakeHead(p) PROVE buf'[save.part].toDisk = buf[save.part].toDisk
        BY <3>2 DEF IntakeHead
      <3>3. ASSUME NEW new \in Buf, IntakeData(new) PROVE buf'[save.part].toDisk = buf[save.part].toDisk
        BY <3>1, <3>3 DEF IntakeData
      <3>4. CASE IntakeReset
        BY <3>1, <3>4 DEF IntakeReset, restoreData
      <3> QED BY SMTT(60), <1>4, <3>2, <3>3, <3>4 DEF Receive
    <2> QED BY <2>1, <2>2 DEF SaverInv
  <1>5. CASE Commit
    <2>1. up /\ up' /\ UNCHANGED <<wr, got, save>>
      BY <1>5 DEF Commit, storeVars
    <2>2. ASSUME wr.on PROVE buf'[save.part].toDisk = buf[save.part].toDisk
      <3>1. save.part \in Parts /\ buf \in [Parts -> PartCtl]
        BY SMTT(60), <2>2 DEF SaverInv, TypeOK
      <3> QED BY <1>5, <3>1 DEF Commit, IntakeCommit, backupData
    <2> QED BY <2>1, <2>2 DEF SaverInv
  <1>6. CASE GiveEvent
    <2>1. up /\ up' /\ UNCHANGED <<buf, wr, got>>
      BY <1>6 DEF GiveEvent, IntakeDone, storeVars
    <2>2. save' = save \/ (save.pc = "wait" /\ save'.pc = "check")
      BY <1>6 DEF GiveEvent, StartSave
    <2> QED BY <2>1, <2>2 DEF SaverInv
  <1>7. CASE CaliSave \/ SpuriousWakeup
    <2>1. up /\ up' /\ UNCHANGED <<buf, wr, got>> /\ save.pc = "wait" /\ save'.pc = "check"
      BY SMTT(60), <1>7 DEF CaliSave, SpuriousWakeup, StartSave, intakeVars, storeVars
    <2> QED BY <2>1 DEF SaverInv
  <1>8. CASE CaliAnswer
    <2>1. up /\ up' /\ UNCHANGED <<buf, wr, got>> /\ save.pc = "back" /\ save'.pc = "wait"
      BY <1>8 DEF CaliAnswer, IntakeDone, NoSave, storeVars
    <2> QED BY <2>1 DEF SaverInv
  <1>9. ASSUME NEW p \in Parts, CheckDirty(p) PROVE SaverInv'
    <2>1. UNCHANGED <<buf, phase, wr, got, up>> /\ save.pc = "check"
      BY <1>9 DEF CheckDirty, intakeVars, storeVars
    <2>2. save'.pc = "check" \/ (save'.pc = "get" /\ save'.part \in save'.todo)
      BY <1>9 DEF CheckDirty, NextPart
    <2> QED BY <2>1, <2>2 DEF SaverInv
  <1>10. CASE GetData
    <2>1. save.part \in Parts /\ buf \in [Parts -> PartCtl] /\ save.part \in save.todo /\ up
      BY SMTT(60), <1>10 DEF GetData, TypeOK, SaverInv
    <2>2. save'.pc = "write" /\ save'.part = save.part /\ save'.todo = save.todo
      BY <1>10 DEF GetData
    <2>3. wr'.on /\ wr'.part = save.part /\ wr'.buf = getData(buf[save.part]).toDisk.data
      BY <1>10 DEF GetData, StoreBegin, Writing
    <2>4. buf'[save.part] = getData(buf[save.part])
      BY <1>10, <2>1 DEF GetData
    <2>5. up' /\ UNCHANGED got
      BY <1>10, <2>1 DEF GetData, StoreBegin
    <2> QED BY <2>1, <2>2, <2>3, <2>4, <2>5 DEF SaverInv
  <1>11. CASE Written \/ WriteFailed
    <2>1. save.pc = "write" /\ save'.pc = "check" /\ ~wr'.on /\ UNCHANGED <<up, got>>
      BY SMTT(60), <1>11 DEF Written, WriteFailed, StoreDone, StoreGiveUp, NoWrite, NextPart
    <2> QED BY <2>1 DEF SaverInv
  <1>12. CASE SaveEnd
    <2>1. UNCHANGED <<buf, phase, wr, got, up>> /\ save.pc = "check"
      BY <1>12 DEF SaveEnd, intakeVars, storeVars
    <2>2. save'.pc = "wait" \/ (save'.pc = "back" /\ save'.todo = {} /\ Cali)
      BY <1>12 DEF SaveEnd, NoSave
    <2> QED BY <2>1, <2>2 DEF SaverInv
  <1>13. CASE Restart
    <2>1. ~wr'.on /\ ~up' /\ phase' = "idle" /\ save'.pc = "wait"
      BY <1>13 DEF Restart, StoreRestart, NoWrite, NoSave
    <2> QED BY <2>1 DEF SaverInv
  <1>14. CASE UNCHANGED vars
    BY <1>14 DEF vars, intakeVars, storeVars, SaverInv
  <1> QED BY <1>1, <1>2, <1>3, <1>4, <1>5, <1>6, <1>7, <1>8, <1>9, <1>10, <1>11, <1>12, <1>13,
             <1>14 DEF Next, SaveStep
-----------------------------------------------------------------------------
(***************************************************************************)
(* What is committed and what is on the device.                            *)
(***************************************************************************)

\* The parser touches only fromChannel.
LEMMA ReceiveCopies ==
  ASSUME TypeOK, Receive
  PROVE  \A p \in Parts : buf'[p].backup = buf[p].backup /\ buf'[p].toDisk = buf[p].toDisk
  <1> DEFINE Same == \A p \in Parts : buf'[p].backup = buf[p].backup /\ buf'[p].toDisk = buf[p].toDisk
  <1>0. buf \in [Parts -> PartCtl] /\ (phase = "busy" => id \in Parts)
    BY SMTT(60) DEF TypeOK
  <1>1. ASSUME NEW q \in Parts, IntakeHead(q) PROVE Same
    BY <1>1 DEF IntakeHead
  <1>2. ASSUME NEW new \in Buf, IntakeData(new) PROVE Same
    BY <1>0, <1>2 DEF IntakeData
  <1>3. CASE IntakeReset
    BY <1>0, <1>3 DEF IntakeReset, restoreData
  <1> QED BY <1>1, <1>2, <1>3 DEF Receive

\* So does cleaning the dirty bits of toDisk leave all contents alone.
LEMMA CleanCopies ==
  ASSUME TypeOK, save.part \in Parts,
         buf' \in {buf, [buf EXCEPT ![save.part] = cleanToDisk(buf[save.part])]}
  PROVE  \A p \in Parts : /\ buf'[p].fromChannel = buf[p].fromChannel
                          /\ buf'[p].backup = buf[p].backup
                          /\ buf'[p].toDisk.data = buf[p].toDisk.data
  BY SMTT(60) DEF TypeOK, cleanToDisk, Copy

LEMMA KeptInit == Init => KeptInv
  <1> SUFFICES ASSUME Init PROVE KeptInv
    OBVIOUS
  <1>1. ~wr.on /\ kept = found /\ trusted = Parts /\ \A p \in Parts : got[p] = Unread
    BY DEF Init, StoreInit, NoWrite
  <1> QED BY <1>1 DEF KeptInv, Durable

LEMMA KeptStep == TypeOK /\ SaverInv /\ KeptInv /\ [Next]_vars => KeptInv'
  <1> SUFFICES ASSUME TypeOK, SaverInv, KeptInv, [Next]_vars PROVE KeptInv'
    OBVIOUS
  <1>0. /\ buf \in [Parts -> PartCtl] /\ trusted \in SUBSET Parts
        /\ found \in [Parts -> SUBSET Content] /\ got \in [Parts -> Content \cup {Unread}]
        /\ kept \in [Parts -> SUBSET Content] /\ mark \in [Parts -> SUBSET Content]
        /\ wr.on => wr.part \in Parts
    BY SMTT(60), WriteTyped DEF TypeOK
  \* Steps of the parser and the control flow of saveToDisk.
  <1>a. ASSUME UNCHANGED <<found, wr, got, trusted, kept, mark>>,
               \A p \in Parts : buf'[p].backup = buf[p].backup
        PROVE  KeptInv'
    BY <1>0, <1>a DEF KeptInv, Durable
  <1>1. ASSUME NEW p \in Parts, LoadPart(p) PROVE KeptInv'
    <2>1. /\ ~wr'.on /\ UNCHANGED <<found, kept>> /\ trusted' \subseteq trusted
          /\ p \in trusted' => got'[p] \in found[p]
          /\ \A q \in Parts : q # p => got'[q] = got[q] /\ buf'[q] = buf[q]
          /\ buf'[p].backup.data = got'[p]
      BY <1>0, <1>1 DEF LoadPart, StoreRead, history, initBuf, Copy
    <2> QED BY <1>0, <2>1 DEF KeptInv, Durable
  <1>2. ASSUME NEW p \in Parts, IoError(p) PROVE KeptInv'
    <2>1. UNCHANGED <<buf, found, wr, got, kept, mark>> /\ trusted' \subseteq trusted
      BY <1>2 DEF IoError, StoreError, intakeVars, history
    <2> QED BY <2>1 DEF KeptInv, Durable
  <1>3. CASE Receive
    BY <1>3, <1>a, ReceiveCopies DEF Receive, storeVars, history
  <1>4. CASE Commit
    <2>1. id \in Parts
      BY SMTT(60), <1>4 DEF Commit, IntakeCommit, TypeOK
    <2>2. /\ UNCHANGED <<found, wr, got, trusted>>
          /\ buf'[id].backup.data = buf[id].fromChannel.data
          /\ kept'[id] = kept[id] \cup {buf[id].fromChannel.data}
          /\ mark'[id] = mark[id] \cup {buf[id].fromChannel.data}
          /\ \A q \in Parts : q # id => buf'[q] = buf[q] /\ kept'[q] = kept[q] /\ mark'[q] = mark[q]
      BY <1>0, <1>4, <2>1 DEF Commit, IntakeCommit, backupData, Copy, storeVars
    <2> QED BY SMTT(60), <1>0, <2>1, <2>2 DEF KeptInv, Durable
  <1>5. CASE GetData
    <2>1. save.part \in Parts /\ got[save.part] # Unread
      BY SMTT(60), <1>5 DEF GetData, TypeOK, SaverInv
    <2> DEFINE q == save.part
               c == buf[q].backup.data
    <2>2. /\ UNCHANGED <<got, trusted, kept>>
          /\ wr' = Writing(q, getData(buf[q]).toDisk.data)
          /\ found' = [found EXCEPT ![q] = @ \cup {getData(buf[q]).toDisk.data}]
          /\ mark' = [mark EXCEPT ![q] = {c}]
          /\ buf' = [buf EXCEPT ![q] = getData(buf[q])]
      BY <1>5 DEF GetData, StoreBegin
    <2>a. getData(buf[q]).toDisk.data = c /\ getData(buf[q]).backup.data = c
      BY <1>0, <2>1 DEF getData, Copy
    <2>3. \A p \in Parts : buf'[p].backup.data = buf[p].backup.data
      BY <1>0, <2>1, <2>2, <2>a
    <2>4. wr'.part = q /\ wr'.buf = c
      BY <2>2, <2>a DEF Writing
    <2>5. /\ mark'[q] = {c} /\ found'[q] = found[q] \cup {c}
          /\ \A p \in Parts : p # q => found'[p] = found[p]
      BY <1>0, <2>1, <2>2, <2>a
    <2>6. q \in trusted => c \in kept[q]
      BY <2>1 DEF KeptInv
    <2>7. Durable'
      <3>1. ASSUME NEW p \in trusted', p # q PROVE found'[p] \subseteq kept'[p]
        BY <1>0, <2>2, <2>5, <3>1 DEF KeptInv, Durable
      <3>2. ASSUME q \in trusted' PROVE found'[q] \subseteq kept'[q]
        BY <2>2, <2>5, <2>6, <3>2 DEF KeptInv, Durable
      <3> QED BY <3>1, <3>2 DEF Durable
    <2>8. \A p \in trusted' : got'[p] # Unread => buf'[p].backup.data \in kept'[p]
      BY <1>0, <2>2, <2>3 DEF KeptInv
    <2>9. wr'.on => wr'.buf \in mark'[wr'.part] /\ buf'[wr'.part].backup.data \in mark'[wr'.part]
      BY <2>1, <2>3, <2>4, <2>5
    <2> QED BY <2>7, <2>8, <2>9 DEF KeptInv
  <1>6. CASE Written
    <2>1. save.part \in Parts /\ wr.on /\ wr.part = save.part
      BY SMTT(60), <1>6 DEF Written, TypeOK, SaverInv
    <2> DEFINE q == save.part
    <2>2. \A p \in Parts : buf'[p].backup = buf[p].backup
      BY <1>6, <2>1, CleanCopies DEF Written
    <2>3. ~wr'.on /\ trusted' = trusted \cup {q} /\ UNCHANGED got
      BY <1>6, <2>1 DEF Written, StoreDone, NoWrite
    <2>4. /\ found'[q] = {wr.buf} /\ kept'[q] = mark[q]
          /\ \A p \in Parts : p # q => found'[p] = found[p] /\ kept'[p] = kept[p]
      BY <1>0, <1>6, <2>1 DEF Written, StoreDone
    <2>5. wr.buf \in mark[q] /\ buf[q].backup.data \in mark[q]
      BY <2>1 DEF KeptInv
    <2> QED BY SMTT(60), <1>0, <2>1, <2>2, <2>3, <2>4, <2>5 DEF KeptInv, Durable
  <1>7. CASE WriteFailed
    <2>1. save.part \in Parts
      BY SMTT(60), <1>7 DEF WriteFailed, TypeOK
    <2>2. \A p \in Parts : buf'[p].backup = buf[p].backup
      BY <1>7, <2>1, CleanCopies DEF WriteFailed
    <2>3. ~wr'.on /\ UNCHANGED <<found, got, trusted, kept>>
      BY <1>7 DEF WriteFailed, StoreGiveUp, NoWrite, history
    <2> QED BY <1>0, <2>2, <2>3 DEF KeptInv, Durable
  <1>8. CASE Restart
    <2>1. ~wr'.on /\ UNCHANGED <<found, trusted, kept>> /\ \A p \in Parts : got'[p] = Unread
      BY <1>8 DEF Restart, StoreRestart, NoWrite
    <2> QED BY <1>0, <2>1 DEF KeptInv, Durable
  <1>9. ASSUME NEW p \in Parts, CheckDirty(p) PROVE KeptInv'
    BY <1>9, <1>a DEF CheckDirty, intakeVars, storeVars, history
  <1>10. CASE Start \/ GiveEvent \/ CaliSave \/ CaliAnswer \/ SpuriousWakeup \/ SaveEnd
    BY <1>10, <1>a DEF Start, GiveEvent, CaliSave, CaliAnswer, SpuriousWakeup, SaveEnd, intakeVars,
                       storeVars, history, IntakeDone
  <1>11. CASE UNCHANGED vars
    BY <1>11, <1>a DEF vars, intakeVars, storeVars, history
  <1> QED BY SMTT(60), <1>1, <1>2, <1>3, <1>4, <1>5, <1>6, <1>7, <1>8, <1>9, <1>10, <1>11 DEF Next, SaveStep

LEMMA FlushStep == TypeOK /\ SaverInv /\ FlushInv /\ [Next]_vars => FlushInv'
  <1> SUFFICES ASSUME TypeOK, SaverInv, FlushInv, [Next]_vars PROVE FlushInv'
    OBVIOUS
  <1>0. /\ buf \in [Parts -> PartCtl] /\ trusted \in SUBSET Parts /\ flushed \in SUBSET Parts
        /\ found \in [Parts -> SUBSET Content] /\ got \in [Parts -> Content \cup {Unread}]
    BY SMTT(60) DEF TypeOK
  <1>a. ASSUME UNCHANGED <<found, wr, trusted, flushed>>,
               \A p \in Parts : buf'[p].toDisk.data = buf[p].toDisk.data
        PROVE  FlushInv'
    BY <1>0, <1>a DEF FlushInv
  <1>1. ASSUME NEW p \in Parts, LoadPart(p) PROVE FlushInv'
    <2>1. /\ ~wr.on /\ ~wr'.on /\ UNCHANGED <<found, flushed>> /\ trusted' \subseteq trusted
          /\ p \in trusted' => got'[p] \in found[p]
          /\ \A q \in Parts : q # p => buf'[q] = buf[q]
          /\ buf'[p].toDisk.data = got'[p]
      BY <1>0, <1>1 DEF LoadPart, StoreRead, history, initBuf, Copy
    <2> QED BY SMTT(60), <1>0, <2>1 DEF FlushInv
  <1>2. ASSUME NEW p \in Parts, IoError(p) PROVE FlushInv'
    <2>1. UNCHANGED <<buf, found, wr, flushed>> /\ trusted' \subseteq trusted
      BY <1>2 DEF IoError, StoreError, intakeVars, history
    <2> QED BY <2>1 DEF FlushInv
  <1>3. CASE Receive
    BY <1>3, <1>a, ReceiveCopies DEF Receive, storeVars, history
  <1>4. CASE Commit
    <2>1. id \in Parts
      BY SMTT(60), <1>4 DEF Commit, IntakeCommit, TypeOK
    <2>2. \A p \in Parts : buf'[p].toDisk = buf[p].toDisk
      BY <1>0, <1>4, <2>1 DEF Commit, IntakeCommit, backupData
    <2> QED BY <1>4, <2>2, <1>a DEF Commit, storeVars
  <1>5. CASE GetData
    <2>0. save.pc = "get" /\ wr' = Writing(save.part, getData(buf[save.part]).toDisk.data) /\ ~wr.on
      BY <1>5 DEF GetData, StoreBegin
    <2>1. save.part \in Parts /\ ~wr.on /\ wr'.on /\ wr'.part = save.part
      BY <2>0, PartTyped DEF Writing
    <2>2. \A p \in Parts : p # save.part => buf'[p] = buf[p] /\ found'[p] = found[p]
      BY <1>0, <1>5 DEF GetData, StoreBegin
    <2>3. UNCHANGED <<trusted, flushed>>
      BY <1>5 DEF GetData, StoreBegin
    <2> QED BY <1>0, <2>1, <2>2, <2>3 DEF FlushInv
  <1>6. CASE Written
    <2>0. save.pc = "write"
      BY <1>6 DEF Written
    <2>1. save.part \in Parts /\ wr.on /\ wr.part = save.part /\ wr.buf = buf[save.part].toDisk.data
      BY <2>0, PartTyped DEF SaverInv
    <2> DEFINE q == save.part
    <2>2. \A p \in Parts : buf'[p].toDisk.data = buf[p].toDisk.data
      BY <1>6, <2>1, CleanCopies DEF Written
    <2>3. /\ ~wr'.on /\ trusted' = trusted \cup {q} /\ flushed' = flushed \cup {q}
          /\ found'[q] = {wr.buf} /\ \A p \in Parts : p # q => found'[p] = found[p]
      BY <1>0, <1>6, <2>1 DEF Written, StoreDone, NoWrite
    <2> QED BY SMTT(60), <1>0, <2>1, <2>2, <2>3 DEF FlushInv
  <1>7. CASE WriteFailed
    <2>1. save.part \in Parts /\ wr.part \notin trusted
      BY SMTT(60), <1>7 DEF WriteFailed, StoreGiveUp, TypeOK
    <2>2. \A p \in Parts : buf'[p].toDisk.data = buf[p].toDisk.data
      BY <1>7, <2>1, CleanCopies DEF WriteFailed
    <2>3. UNCHANGED <<found, trusted, flushed>>
      BY <1>7 DEF WriteFailed, StoreGiveUp, history
    <2> QED BY <1>0, <2>1, <2>2, <2>3 DEF FlushInv
  <1>8. CASE Restart
    BY <1>8 DEF Restart, FlushInv
  <1>9. ASSUME NEW p \in Parts, CheckDirty(p) PROVE FlushInv'
    BY <1>9, <1>a DEF CheckDirty, intakeVars, storeVars, history
  <1>10. CASE Start \/ GiveEvent \/ CaliSave \/ CaliAnswer \/ SpuriousWakeup \/ SaveEnd
    BY <1>10, <1>a DEF Start, GiveEvent, CaliSave, CaliAnswer, SpuriousWakeup, SaveEnd, intakeVars,
                       storeVars, history, IntakeDone
  <1>11. CASE UNCHANGED vars
    BY <1>11, <1>a DEF vars, intakeVars, storeVars, history
  <1> QED BY <1>1, <1>2, <1>3, <1>4, <1>5, <1>6, <1>7, <1>8, <1>9, <1>10, <1>11 DEF Next, SaveStep
-----------------------------------------------------------------------------
(***************************************************************************)
(* Calibration mode.                                                       *)
(***************************************************************************)
LEMMA CaliInit == Init => CaliInv
  BY SMTT(60) DEF Init, NoSave, CaliInv

LEMMA CaliStep == TypeOK /\ SaverInv /\ CaliInv /\ [Next]_vars => CaliInv'
  <1> SUFFICES ASSUME TypeOK, SaverInv, CaliInv, [Next]_vars, Cali PROVE CaliInv'
    BY DEF CaliInv
  <1>0. /\ buf \in [Parts -> PartCtl] /\ trusted \in SUBSET Parts
        /\ phase = "commit" => id \in Parts
        /\ save.pc # "wait" => phase = "commit"
    BY SMTT(60) DEF TypeOK, CaliInv
  \* No request is being committed.
  <1>a. ASSUME save'.pc = "wait", phase' # "commit" PROVE CaliInv'
    BY <1>a DEF CaliInv
  \* saveToDisk goes on without having come to the partition of the request.
  <1>b. ASSUME UNCHANGED <<phase, id, trusted, flushed>>, phase = "commit",
               \A p \in {id} : buf'[p] = buf[p],
               Pending' <=> Pending,
               ~(save.pc = "write" /\ save.part = id)
        PROVE  CaliInv'
    BY <1>b DEF CaliInv
  <1>1. ASSUME NEW p \in Parts, LoadPart(p) PROVE CaliInv'
    BY <1>1, <1>a DEF LoadPart, SaverInv
  <1>2. ASSUME NEW p \in Parts, IoError(p) PROVE CaliInv'
    <2>1. UNCHANGED <<buf, phase, id, save, flushed>> /\ trusted' \subseteq trusted
      BY <1>2 DEF IoError, StoreError, intakeVars, history
    <2> QED BY <2>1 DEF CaliInv, Pending
  <1>3. CASE Start
    BY <1>3, <1>a DEF Start, SaverInv, intakeVars
  <1>4. CASE Receive
    <2>1. phase # "commit" /\ phase' # "commit" /\ UNCHANGED save
      BY <1>4 DEF Receive, IntakeHead, IntakeData, IntakeReset
    <2> QED BY <1>0, <2>1, <1>a
  <1>5. CASE Commit
    <2>1. id \in Parts /\ save.pc = "wait" /\ UNCHANGED <<save, id>>
      BY SMTT(60), <1>0, <1>5 DEF Commit, IntakeCommit, TypeOK
    <2>2. buf'[id].fromChannel = buf[id].fromChannel
      BY <1>0, <1>5, <2>1 DEF Commit, IntakeCommit, backupData
    <2>3. buf'[id].backup.dirty = buf[id].backup.dirty \cup buf[id].fromChannel.dirty
      BY <1>0, <1>5, <2>1 DEF Commit, IntakeCommit, backupData, Copy
    <2> QED BY <2>1, <2>2, <2>3 DEF CaliInv, Pending, ifHasDirty
  <1>6. CASE CaliSave
    <2>1. save.pc = "wait" /\ save'.pc = "check" /\ save'.todo = Parts /\ phase = "commit"
      BY <1>6 DEF CaliSave, StartSave
    <2>2. UNCHANGED <<buf, phase, id, trusted, flushed>>
      BY <1>6 DEF CaliSave, intakeVars, storeVars, history
    <2> QED BY <1>0, <2>1, <2>2, <1>b DEF Pending
  <1>7. CASE CaliAnswer
    BY <1>7, <1>a DEF CaliAnswer, IntakeDone, NoSave
  <1>8. ASSUME NEW p \in Parts, CheckDirty(p) PROVE CaliInv'
    <2>1. save.pc = "check" /\ phase = "commit" /\ p \in save.todo
      BY <1>0, <1>8 DEF CheckDirty
    <2>2. UNCHANGED <<buf, phase, id, trusted, flushed>>
      BY <1>8 DEF CheckDirty, intakeVars, storeVars, history
    <2>3. CASE ifHasDirty(buf[p]) \/ p # id
      <3>1. save'.pc \in {"check", "get"} /\ (id \in save'.todo <=> id \in save.todo)
        BY <1>8, <2>3 DEF CheckDirty, NextPart
      <3> QED BY <2>1, <2>2, <3>1, <1>b DEF Pending
    <2>4. CASE ~ifHasDirty(buf[p]) /\ p = id
      <3>1. Pending /\ buf[id].fromChannel.dirty = {}
        BY <2>1, <2>4 DEF Pending, CaliInv
      <3> QED BY <2>1, <2>2, <3>1 DEF CaliInv
    <2> QED BY <2>3, <2>4
  <1>9. CASE GetData
    <2>1. save.pc = "get" /\ phase = "commit" /\ save.part \in save.todo
      BY <1>0, <1>9 DEF GetData, SaverInv
    <2>2. save'.pc = "write" /\ save'.part = save.part /\ save'.todo = save.todo
      BY <1>9 DEF GetData
    <2>3. UNCHANGED <<phase, id, trusted, flushed>>
      BY <1>9 DEF GetData, StoreBegin
    <2>4. CASE save.part = id
      <3>1. buf'[id].backup.dirty = {}
        BY <1>0, <1>9, <2>1, <2>4 DEF GetData, getData, Copy
      <3> QED BY <2>1, <2>2, <2>3, <2>4, <3>1 DEF CaliInv, Pending, ifHasDirty
    <2>5. CASE save.part # id
      <3>1. buf'[id] = buf[id]
        BY <1>0, <1>9, <2>1, <2>5 DEF GetData
      <3> QED BY <2>1, <2>2, <2>3, <2>5, <3>1, <1>b DEF Pending
    <2> QED BY <2>4, <2>5
  <1>10. CASE Written \/ WriteFailed
    <2>0. save.pc = "write" /\ save' = NextPart(save.part)
      BY <1>10 DEF Written, WriteFailed
    <2>1. save.pc = "write" /\ phase = "commit" /\ save.part \in Parts /\ wr.part = save.part
      BY <1>0, <2>0, PartTyped DEF SaverInv
    <2>2. save'.pc = "check" /\ save'.todo = save.todo \ {save.part}
      BY <2>0 DEF NextPart
    <2>3. buf'[id].fromChannel = buf[id].fromChannel /\ buf'[id].backup = buf[id].backup
      BY <1>0, <1>10, <2>1, CleanCopies DEF Written, WriteFailed
    <2>4. UNCHANGED <<phase, id>>
      BY <1>10 DEF Written, WriteFailed
    <2>5. \/ trusted' = trusted \cup {save.part} /\ flushed' = flushed \cup {save.part}
          \/ trusted' = trusted /\ flushed' = flushed /\ save.part \notin trusted
      BY <1>10, <2>1 DEF Written, WriteFailed, StoreDone, StoreGiveUp, history
    <2>6. Pending' <=> Pending
      BY <2>1, <2>2, <2>4 DEF Pending
    <2> QED BY <2>1, <2>2, <2>3, <2>4, <2>5, <2>6 DEF CaliInv, ifHasDirty
  <1>11. CASE SaveEnd
    <2>1. save.pc = "check" /\ save.todo = {} /\ phase = "commit" /\ save'.pc = "back" /\ save'.todo = {}
      BY <1>0, <1>11 DEF SaveEnd, NoSave
    <2>2. UNCHANGED <<buf, phase, id, trusted, flushed>>
      BY <1>11 DEF SaveEnd, intakeVars, storeVars, history
    <2> QED BY <2>1, <2>2, <1>b DEF Pending
  <1>12. CASE Restart
    BY <1>12, <1>a DEF Restart, NoSave
  <1>13. CASE UNCHANGED vars
    BY <1>13 DEF vars, intakeVars, storeVars, history, CaliInv, Pending
  <1> QED BY <1>1, <1>2, <1>3, <1>4, <1>5, <1>6, <1>7, <1>8, <1>9, <1>10, <1>11, <1>12, <1>13
          DEF Next, SaveStep, GiveEvent, SpuriousWakeup
-----------------------------------------------------------------------------
LEMMA Invariance == Spec => []Inv
  <1>1. Init => Inv
    <2>1. Init => FlushInv
      BY DEF Init, FlushInv
    <2> QED BY <2>1, TypeInit, BufInit, SaverInit, KeptInit, CaliInit DEF Inv
  <1>2. Inv /\ [Next]_vars => Inv'
    BY TypeStep, BufStep, SaverStep, KeptStep, FlushStep, CaliStep DEF Inv
  <1> QED BY <1>1, <1>2, PTL DEF Spec

\* Copies without a dirty sector agree.
LEMMA CleanAgrees ==
  ASSUME TypeOK, BufInv, NEW p \in Parts, ~ifHasDirty(buf[p])
  PROVE  buf[p].toDisk.data = buf[p].backup.data
  <1>1. buf[p].toDisk.data \in Content /\ buf[p].backup.data \in Content
    BY SMTT(60) DEF TypeOK, PartCtl, Buf
  <1>2. \A s \in Sectors : buf[p].toDisk.data[s] = buf[p].backup.data[s]
    BY DEF BufInv, BufOK, ifHasDirty
  <1> QED BY SMTT(60), <1>1, <1>2 DEF Content

LEMMA InvCleanMeansSaved == Inv => CleanMeansSaved
  BY SMTT(60), CleanAgrees DEF Inv, FlushInv, CleanMeansSaved, TypeOK

LEMMA InvCaliDurable == Inv => CaliDurable
  <1> SUFFICES ASSUME Inv, save.pc = "back", id \in trusted, buf[id].fromChannel.dirty # {}
               PROVE  found[id] = {buf[id].backup.data}
    BY DEF CaliDurable
  <1>1. Cali /\ save.todo = {} /\ ~wr.on
    BY DEF Inv, SaverInv
  <1>2. ~Pending
    BY <1>1 DEF Pending
  <1>3. ~ifHasDirty(buf[id]) /\ id \in flushed
    BY <1>1, <1>2 DEF Inv, CaliInv
  <1> QED BY <1>1, <1>3, InvCleanMeansSaved DEF CleanMeansSaved

\* Types are kept.
THEOREM NvitemdTypes == Spec => []TypeOK
  BY Invariance, PTL DEF Inv

\* Whatever pSaveTask, the parser, I/O errors and restarts do, a trusted
\* partition comes back with contents that were committed as a whole and are no
\* older than its last completed save.
THEOREM CommittedContentsSurvive == Spec => []Durable
  <1>1. Inv => Durable
    BY DEF Inv, KeptInv
  <1> QED BY <1>1, Invariance, PTL

\* A sector that pSaveTask has not taken yet is dirty in backup, so that the
\* unlocked __ifHasDirty does not pass over it.
THEOREM DirtyBitsSuffice == Spec => []NothingForgotten
  <1>1. Inv => NothingForgotten
    BY DEF Inv, BufInv, BufOK, NothingForgotten
  <1> QED BY <1>1, Invariance, PTL

\* A partition that saveToDisk wrote and that has no dirty bit is on the device.
THEOREM CleanIsSaved == Spec => []CleanMeansSaved
  BY InvCleanMeansSaved, Invariance, PTL

\* In calibration mode what a request changed is on the device when saveToDisk
\* returns to backupData, before the modem is answered.
THEOREM CalibrationIsDurable == Spec => []CaliDurable
  BY InvCaliDurable, Invariance, PTL
-----------------------------------------------------------------------------
(***************************************************************************)
(* _markDirtyInfo marks exactly the announced sectors, for a dirty table   *)
(* of any size and any range within it.                                    *)
(*                                                                         *)
(* The loop invariant: the sectors from start up to the current position,  *)
(* 32 * bytes + bits, are the ones marked so far, and the position plus    *)
(* the count left is the end of the range.                                 *)
(***************************************************************************)
USE DirtyTableAssumption

\* The sector with bit b of word w is among the first ones of the range.
Passed(w, b, end) == start <= 32 * w + b /\ 32 * w + b < end

LoopInv ==
    pc = "loop" =>
        /\ 32 * bytes + bits + scts = start + num
        /\ start <= 32 * bytes + bits
        /\ num > 0 => scts > 0
        /\ num = 0 => bytes < Words
        /\ \A w \in 0 .. Words - 1, b \in Bits :
             b \in dirty[w] <=> b \in old[w] \/ Passed(w, b, 32 * bytes + bits)

TableInv == TableTypeOK /\ LoopInv /\ MarksRange

\* The loop invariant keeps the position inside the table.
LEMMA PositionInTable ==
  ASSUME TableTypeOK, LoopInv
  PROVE  InTable
  BY SMTT(60) DEF TableTypeOK, LoopInv, InTable, Bits

LEMMA TableInvInit == TableInit => TableInv
  <1> SUFFICES ASSUME TableInit PROVE TableInv
    OBVIOUS
  <1>1. bytes \in 0 .. Words - 1 /\ bits \in Bits
    BY SMTT(60) DEF TableInit, Bits
  <1>2. TableTypeOK
    BY SMTT(60), <1>1 DEF TableInit, TableTypeOK
  <1>3. LoopInv
    BY SMTT(60), <1>1 DEF TableInit, LoopInv, Passed, Bits, Table
  <1> QED BY <1>2, <1>3 DEF TableInv, TableInit, MarksRange

\* One more full word.
LEMMA FillWordKeeps ==
  ASSUME TableInv, FillWord
  PROVE  TableInv'
  <1>1. bytes \in 0 .. Words - 1
    BY PositionInTable DEF TableInv, InTable, FillWord
  <1>2. TableTypeOK'
    <2>1. dirty' \in Table
      BY <1>1 DEF TableInv, TableTypeOK, FillWord, MaskLeft, Table
    <2>2. scts' \in Nat /\ bytes' \in Nat /\ bits' \in Bits
      BY SMTT(60) DEF TableInv, TableTypeOK, FillWord, Bits
    <2> QED BY <2>1, <2>2 DEF TableInv, TableTypeOK, FillWord
  <1>3. ASSUME NEW w \in 0 .. Words - 1, NEW b \in Bits
        PROVE  b \in dirty'[w] <=> b \in old'[w] \/ Passed(w, b, 32 * bytes + bits)'
    <2>1. b \in dirty'[w] <=> b \in dirty[w] \/ (w = bytes /\ bits <= b)
      BY <1>1, <1>3 DEF TableInv, TableTypeOK, FillWord, MaskLeft, Table
    <2>2. b \in dirty[w] <=> b \in old[w] \/ Passed(w, b, 32 * bytes + bits)
      BY <1>3 DEF TableInv, LoopInv, FillWord
    <2>3. Passed(w, b, 32 * bytes + bits)'
            <=> Passed(w, b, 32 * bytes + bits) \/ (w = bytes /\ bits <= b)
      BY SMTT(60), <1>1, <1>3 DEF TableInv, TableTypeOK, LoopInv, FillWord, Passed, Bits
    <2> QED BY <2>1, <2>2, <2>3 DEF FillWord
  <1>4. LoopInv'
    <2>1. /\ 32 * bytes' + bits' + scts' = start' + num'
          /\ start' <= 32 * bytes' + bits'
          /\ num' > 0 => scts' > 0
          /\ num' # 0
      BY SMTT(60), <1>1 DEF TableInv, TableTypeOK, LoopInv, FillWord, Bits
    <2> QED BY <1>3, <2>1 DEF LoopInv, Passed
  <1> QED BY <1>2, <1>4 DEF TableInv, MarksRange, FillWord

\* The rest of the range, and the bits an empty range may set.
LEMMA LastWordKeeps ==
  ASSUME TableInv, LastWord
  PROVE  TableInv'
  <1>1. bytes \in 0 .. Words - 1
    BY PositionInTable DEF TableInv, InTable, LastWord
  <1>2. PICK w0 \in MaskRight(32 - scts) :
          dirty' = [dirty EXCEPT ![bytes] = @ \cup ShiftLeft(w0, bits)]
    BY DEF LastWord
  <1>3. TableTypeOK'
    BY <1>1, <1>2 DEF TableInv, TableTypeOK, LastWord, ShiftLeft, Table, Bits
  <1>4. ASSUME NEW w \in 0 .. Words - 1, NEW b \in Bits
        PROVE  LET asked == start <= 32 * w + b /\ 32 * w + b < start + num
               IN  /\ b \in old[w] \/ asked => b \in dirty'[w]
                   /\ num > 0 /\ b \in dirty'[w] => b \in old[w] \/ asked
    <2>1. b \in dirty'[w] <=> b \in dirty[w] \/ (w = bytes /\ b - bits \in w0)
      BY <1>1, <1>2, <1>4 DEF TableInv, TableTypeOK, ShiftLeft, Table
    <2>2. b \in dirty[w] <=> b \in old[w] \/ Passed(w, b, 32 * bytes + bits)
      BY <1>4 DEF TableInv, LoopInv, LastWord
    <2>3. scts > 0 => (b - bits \in w0 <=> 0 <= b - bits /\ b - bits < scts)
      BY SMTT(60), <1>2, <1>4 DEF TableInv, TableTypeOK, LastWord, MaskRight, Bits
    <2>4. num = 0 <=> scts = 0
      BY SMTT(60) DEF TableInv, TableTypeOK, LoopInv, LastWord, Bits
    <2> QED BY SMTT(60), <1>1, <1>4, <2>1, <2>2, <2>3, <2>4
            DEF TableInv, TableTypeOK, LoopInv, LastWord, Passed, Bits
  <1>5. MarksRange'
    BY <1>4 DEF MarksRange, LastWord
  <1> QED BY <1>3, <1>5 DEF TableInv, LoopInv, LastWord

LEMMA TableInvStep == TableInv /\ [TableNext]_tableVars => TableInv'
  <1> SUFFICES ASSUME TableInv, [TableNext]_tableVars PROVE TableInv'
    OBVIOUS
  <1>1. CASE UNCHANGED tableVars
    BY <1>1 DEF TableInv, TableTypeOK, LoopInv, Passed, MarksRange, tableVars
  <1> QED BY <1>1, FillWordKeeps, LastWordKeeps DEF TableNext

LEMMA TableInvAlways == TableSpec => []TableInv
  BY TableInvInit, TableInvStep, PTL DEF TableSpec

\* _markDirtyInfo never leaves the dirty table.
THEOREM MarkStaysInTable == TableSpec => []InTable
  <1>1. TableInv => InTable
    BY PositionInTable DEF TableInv
  <1> QED BY <1>1, TableInvAlways, PTL

\* When _markDirtyInfo returns, exactly the announced sectors have been marked.
THEOREM MarkIsExact == TableSpec => []MarksRange
  <1>1. TableInv => MarksRange
    BY DEF TableInv
  <1> QED BY <1>1, TableInvAlways, PTL
=============================================================================
