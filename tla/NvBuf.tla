------------------------------- MODULE NvBuf -------------------------------
(***************************************************************************)
(* The three copies of a partition that nvitem_buf.c keeps.  fromChannel   *)
(* takes the data of a request while it arrives, backup holds what was     *)
(* last committed, toDisk is what the saver writes.  Each has a dirty set, *)
(* one bit per sector in the code.  backup is shared by the two threads    *)
(* and every copy from or to it is made under the mutex of nvitem_os.c,    *)
(* so each operator below is one atomic step.                              *)
(***************************************************************************)
EXTENDS NvData

Buf == [data : Content, dirty : SUBSET Sectors]
PartCtl == [fromChannel : Buf, backup : Buf, toDisk : Buf]

Copy(data, dirty) == [data |-> data, dirty |-> dirty]

\* initBuf for one partition: ramDisk_Read gave c.
initBuf(c) == [fromChannel |-> Copy(c, {}), backup |-> Copy(c, {}), toDisk |-> Copy(c, {})]

\* Mutant: the last sector is left out.
markDirtyInfoShort(b, start, num) ==
    [fromChannel |-> Copy(b.fromChannel.data,
                          b.fromChannel.dirty \cup {s \in Sectors : start <= s /\ s < start + num - 1}),
     backup      |-> b.backup,
     toDisk      |-> b.toDisk]

\* _markDirtyInfo: the num sectors from start on.
markDirtyInfo(b, start, num) ==
    [fromChannel |-> Copy(b.fromChannel.data,
                          b.fromChannel.dirty \cup {s \in Sectors : start <= s /\ s < start + num}),
     backup      |-> b.backup,
     toDisk      |-> b.toDisk]

\* writeData: the new data from sector start on.
writeData(b, start, num, val) ==
    [fromChannel |-> Copy([s \in Sectors |-> IF start <= s /\ s < start + num
                                               THEN val[s] ELSE b.fromChannel.data[s]],
                          b.fromChannel.dirty),
     backup      |-> b.backup,
     toDisk      |-> b.toDisk]

\* Mutant: the dirty bits are not taken over.
backupDataClean(b) ==
    [fromChannel |-> b.fromChannel,
     backup      |-> Copy(b.fromChannel.data, b.backup.dirty),
     toDisk      |-> b.toDisk]

\* backupData up to putMutex: the dirty bits of fromChannel stay set.
backupData(b) ==
    [fromChannel |-> b.fromChannel,
     backup      |-> Copy(b.fromChannel.data, b.backup.dirty \cup b.fromChannel.dirty),
     toDisk      |-> b.toDisk]

restoreData(b) ==
    [fromChannel |-> b.backup, backup |-> b.backup, toDisk |-> b.toDisk]

\* Mutant: the dirty table of the wrong copy.
ifHasDirtyToDisk(b) == b.toDisk.dirty # {}

\* __ifHasDirty looks at the backup copy.
ifHasDirty(b) == b.backup.dirty # {}

\* Mutant: the copy is made from fromChannel.
getDataFromChannel(b) ==
    [fromChannel |-> b.fromChannel,
     backup      |-> Copy(b.backup.data, {}),
     toDisk      |-> Copy(b.fromChannel.data, b.toDisk.dirty \cup b.backup.dirty)]

\* __getData
getData(b) ==
    [fromChannel |-> b.fromChannel,
     backup      |-> Copy(b.backup.data, {}),
     toDisk      |-> Copy(b.backup.data, b.toDisk.dirty \cup b.backup.dirty)]

\* Mutant: the dirty bits of backup are cleared after the write as well.
cleanBoth(b) ==
    [fromChannel |-> b.fromChannel, backup |-> Copy(b.backup.data, {}),
     toDisk |-> Copy(b.toDisk.data, {})]

\* saveToDisk after a ramDisk_Write that returned 1.
cleanToDisk(b) ==
    [fromChannel |-> b.fromChannel, backup |-> b.backup, toDisk |-> Copy(b.toDisk.data, {})]
=============================================================================
