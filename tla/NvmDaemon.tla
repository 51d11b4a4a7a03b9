----------------------------- MODULE NvmDaemon ------------------------------
(***************************************************************************)
(* The older NV daemon (apps/nvm_daemon/nvitem.c, the eMMC build).  The    *)
(* modem sends requests over a pipe: a header, then the data in pieces, or *)
(* the sync command.  fixnv and product information are merged into a      *)
(* buffer read from the first copy, sealed with a checksum and written;    *)
(* fixnv's second copy is written by the next sync command.  runtimenv has *)
(* no checksum and is written to both copies piece by piece.  A file is a  *)
(* sequence of chunks and the data its checksum was computed for; the data *)
(* of a request is its number.  Power may be lost between any two chunks.  *)
(***************************************************************************)
EXTENDS Naturals, FiniteSets

CONSTANTS Chunks,         \* chunks of a file
          MaxRequests, MaxLosses, MaxEnds    \* bounds on requests, power losses and
                                             \* ends of file on the pipe

ASSUME NvmDaemonAssumption == Chunks \in Nat

VARIABLES disk,           \* the six partitions
          nvm_buf,        \* fixnv_buffer and phasecheck_buffer
          update_finxn_flag,
          nvm_pc, type, offset, left, \* the request being served
          k,              \* chunks of the file written so far
          synced,         \* the answer to a sync command has just been sent
          due, versions,  \* history: the image a request leads to, and the images
                          \* complete requests have led to
          n, losses, ends
request == <<type, offset, left, due>>
bounds == <<losses, ends>>
nvmVars == <<disk, nvm_buf, update_finxn_flag, nvm_pc, request, k, synced, versions, n,
             bounds>>

Index == 1..Chunks
Sealed == {"fixnv", "product"}
First == [fixnv |-> "fix1", product |-> "prod1", runtimenv |-> "run1"]
Second == [fixnv |-> "fix2", product |-> "prod2", runtimenv |-> "run2"]
NvmPartitions == {First[t] : t \in DOMAIN First} \cup {Second[t] : t \in DOMAIN Second}

Zero == [x \in Index |-> 0]
NvmIntact(f) == f.sum = f.data
NvmImage(t) == IF NvmIntact(disk[First[t]]) THEN disk[First[t]].data ELSE disk[Second[t]].data

NvmInit ==
    /\ disk = [p \in NvmPartitions |-> [data |-> Zero, sum |-> Zero]]
    /\ nvm_buf = [t \in Sealed |-> [data |-> Zero, sum |-> Zero]]
    /\ update_finxn_flag = FALSE /\ nvm_pc = "read" /\ synced = FALSE
    /\ type = "none" /\ offset = 0 /\ left = 0 /\ due = Zero /\ k = 0
    /\ versions = [t \in Sealed |-> {Zero}] /\ n = 0 /\ losses = 0 /\ ends = 0

-----------------------------------------------------------------------------
(* The header of a request *)

\* The first copy is read into the buffer, whatever its checksum.
Loaded(t) == IF t \in Sealed THEN [nvm_buf EXCEPT ![t] = disk[First[t]]] ELSE nvm_buf

ReadHeader ==
    /\ nvm_pc = "read" /\ n < MaxRequests /\ n' = n + 1
    /\ \E t \in DOMAIN First, o \in 0..Chunks : \E size \in 0..(Chunks - o) :
          /\ type' = t /\ offset' = o /\ left' = size /\ nvm_buf' = Loaded(t)
          /\ due' = [x \in Index |-> IF x \in (o + 1)..(o + size) THEN n' ELSE NvmImage(t)[x]]
    /\ nvm_pc' = "data" /\ synced' = FALSE
    /\ UNCHANGED <<disk, update_finxn_flag, k, versions, bounds>>

ReadSync ==
    /\ nvm_pc = "read" /\ ~synced
    /\ IF update_finxn_flag THEN nvm_pc' = "backup" /\ UNCHANGED synced
                            ELSE nvm_pc' = "read" /\ synced' = TRUE
    /\ UNCHANGED <<disk, nvm_buf, update_finxn_flag, request, k, versions, n, bounds>>

-----------------------------------------------------------------------------
(* The data of a request *)

Merge == [nvm_buf EXCEPT ![type].data[offset + 1] = n]
Advance == offset' = offset + 1 /\ left' = left - 1

ReadData ==
    /\ nvm_pc = "data" /\ left > 0
    /\ IF type \in Sealed
         THEN nvm_buf' = Merge /\ Advance /\ UNCHANGED <<disk, nvm_pc>>
         ELSE /\ disk' = [disk EXCEPT !["run1"].data[offset + 1] = n]
              /\ nvm_pc' = "second" /\ UNCHANGED <<nvm_buf, offset, left>>
    /\ UNCHANGED <<update_finxn_flag, type, due, k, synced, versions, n, bounds>>

WriteSecond ==
    /\ nvm_pc = "second" /\ disk' = [disk EXCEPT !["run2"].data[offset + 1] = n]
    /\ nvm_pc' = "data" /\ Advance
    /\ UNCHANGED <<nvm_buf, update_finxn_flag, type, due, k, synced, versions, n, bounds>>

\* The modem is gone: the pipe is opened again.  The buffer keeps what it holds.
EndOfFile ==
    /\ nvm_pc = "data" /\ left > 0 /\ ends < MaxEnds /\ ends' = ends + 1
    /\ nvm_pc' = "read" /\ left' = 0 /\ type' = "none" /\ offset' = 0 /\ due' = Zero
    /\ UNCHANGED <<disk, nvm_buf, update_finxn_flag, k, synced, versions, n, losses>>

\* Mutant: the checksum of the file read is kept.
Unsealed == nvm_buf
Seal == [nvm_buf EXCEPT ![type].sum = nvm_buf[type].data]

Marked == update_finxn_flag \/ type = "fixnv"

EndOfData ==
    /\ nvm_pc = "data" /\ left = 0
    /\ IF type \in Sealed
         THEN /\ nvm_buf' = Seal /\ nvm_pc' = "first" /\ UNCHANGED <<type, due>>
              /\ update_finxn_flag' = Marked
              /\ versions' = [versions EXCEPT ![type] = @ \cup {due}]
         ELSE /\ nvm_pc' = "read" /\ type' = "none" /\ due' = Zero
              /\ UNCHANGED <<nvm_buf, update_finxn_flag, versions>>
    /\ offset' = 0 /\ UNCHANGED <<disk, left, k, synced, n, bounds>>

-----------------------------------------------------------------------------
(* Writing a file: its chunks in order, then the checksum *)

Write(p, b) ==
    IF k < Chunks THEN disk' = [disk EXCEPT ![p].data[k + 1] = b.data[k + 1]]
                  ELSE disk' = [disk EXCEPT ![p].sum = b.sum]
Written == k = Chunks
Progress == k' = IF Written THEN 0 ELSE k + 1

\* update_fixnvfile, and the first half of update_productinfofile_emmc.
WriteFirst ==
    /\ nvm_pc = "first" /\ Write(First[type], nvm_buf[type]) /\ Progress
    /\ nvm_pc' = IF ~Written THEN "first" ELSE IF type = "product" THEN "other" ELSE "read"
    /\ type' = IF nvm_pc' = "read" THEN "none" ELSE type
    /\ due' = IF nvm_pc' = "read" THEN Zero ELSE due
    /\ UNCHANGED <<nvm_buf, update_finxn_flag, offset, left, synced, versions, n, bounds>>

\* The second half of update_productinfofile_emmc.
WriteOther ==
    /\ nvm_pc = "other" /\ Write("prod2", nvm_buf["product"]) /\ Progress
    /\ nvm_pc' = IF Written THEN "read" ELSE "other"
    /\ type' = IF Written THEN "none" ELSE type
    /\ due' = IF Written THEN Zero ELSE due
    /\ UNCHANGED <<nvm_buf, update_finxn_flag, offset, left, synced, versions, n, bounds>>

\* update_backupfile, and the answer to the sync command.
WriteBackup ==
    /\ nvm_pc = "backup" /\ Write("fix2", nvm_buf["fixnv"]) /\ Progress
    /\ nvm_pc' = IF Written THEN "read" ELSE "backup"
    /\ update_finxn_flag' = ~Written /\ synced' = Written
    /\ UNCHANGED <<nvm_buf, request, versions, n, bounds>>

-----------------------------------------------------------------------------
(* Power is lost; the boot loader restores a damaged copy from an intact one *)

NvmRestored(p, q) ==
    IF ~NvmIntact(disk[p]) /\ NvmIntact(disk[q]) THEN disk[q] ELSE disk[p]
Restore ==
    [p \in NvmPartitions |->
        CASE p \in {First[t] : t \in Sealed} ->
                 NvmRestored(p, Second[CHOOSE t \in Sealed : First[t] = p])
          [] p \in {Second[t] : t \in Sealed} ->
                 NvmRestored(p, First[CHOOSE t \in Sealed : Second[t] = p])
          [] OTHER -> disk[p]]

NvmPowerLoss ==
    /\ losses < MaxLosses /\ losses' = losses + 1 /\ disk' = Restore
    /\ nvm_buf' = [t \in Sealed |-> [data |-> Zero, sum |-> Zero]]
    /\ update_finxn_flag' = FALSE /\ nvm_pc' = "read" /\ k' = 0 /\ synced' = FALSE
    /\ type' = "none" /\ offset' = 0 /\ left' = 0 /\ due' = Zero
    /\ UNCHANGED <<versions, n, ends>>

NvmNext ==
    \/ ReadHeader \/ ReadSync \/ ReadData \/ WriteSecond \/ EndOfFile \/ EndOfData
    \/ WriteFirst \/ WriteOther \/ WriteBackup \/ NvmPowerLoss

NvmSpec == NvmInit /\ [][NvmNext]_nvmVars

-----------------------------------------------------------------------------

\* Whenever power is lost, a copy of the file has a right checksum, and no copy
\* with a right checksum holds anything but the outcome of complete requests.
Survives(t) ==
    /\ \E p \in {First[t], Second[t]} : NvmIntact(disk[p])
    /\ \A p \in {First[t], Second[t]} : NvmIntact(disk[p]) => disk[p].data \in versions[t]

\* So do product information, written to both copies by one request, and fixnv,
\* as long as the modem breaks off no request: a broken-off one stays in
\* fixnv_buffer, and the next sync command writes it to the second copy.
ProductSurvives == Survives("product")
FixnvSurvives == ends = 0 => Survives("fixnv")

\* A sync command that was answered leaves fixnv's second copy equal to its first,
\* as long as power stays on and no request is broken off.
BackupSynced ==
    synced /\ losses = 0 /\ ends = 0 => disk["fix2"] = disk["fix1"] /\ NvmIntact(disk["fix2"])

\* nvm_daemon's copies: whenever power is lost, an intact copy of each file holds
\* complete requests, and a sync command leaves both copies of fixnv equal.
NvmCopies == FixnvSurvives /\ ProductSurvives /\ BackupSynced
=============================================================================
