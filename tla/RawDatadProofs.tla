--------------------------- MODULE RawDatadProofs ---------------------------
(***************************************************************************)
(* What the daemons guarantee that keep two copies of files in raw         *)
(* partitions: rawdatad for every number of files, versions, changes and   *)
(* power losses, as long as no counter becomes negative as an int          *)
(* (MaxCounter < Half), and the older nvm_daemon for files of any length   *)
(* and every number of requests, power losses and ends of file.            *)
(***************************************************************************)
EXTENDS RawDatad, NvmDaemon, TLAPS

(* nvm_daemon.  FileInv: the checksum a copy has is always that of a complete *)
(* request, since it is written after the data; a copy that is not being      *)
(* written is intact; and the copy being written has the buffer's chunks up   *)
(* to k.  BackupInv: between two requests fixnv_buffer is what the first copy *)
(* has, so that the sync command makes the second one equal.                  *)

USE ZenonT(60)

Contents == [Index -> Nat]
File == [data : Contents, sum : Contents]
Types == {"fixnv", "product", "runtimenv"}

NvmTypeOK ==
    /\ disk \in [NvmPartitions -> File] /\ nvm_buf \in [Sealed -> File]
    /\ versions \in [Sealed -> SUBSET Contents]
    /\ update_finxn_flag \in BOOLEAN /\ synced \in BOOLEAN
    /\ nvm_pc \in {"read", "data", "second", "first", "other", "backup"}
    /\ type \in Types \cup {"none"}
    /\ offset \in Nat /\ left \in Nat /\ offset + left <= Chunks
    /\ k \in 0..Chunks /\ due \in Contents
    /\ n \in Nat /\ losses \in Nat /\ ends \in Nat

\* What a request is at each place of the daemon's loop.
PhaseOK ==
    /\ nvm_pc = "data" => type \in Types
    /\ nvm_pc = "second" => type = "runtimenv" /\ left > 0
    /\ nvm_pc = "first" => type \in Sealed
    /\ nvm_pc = "other" => type = "product"
    /\ nvm_pc \notin {"first", "other", "backup"} => k = 0

\* The copy p of the file t is being written.
Writing(t, p) ==
    \/ nvm_pc = "first" /\ type = t /\ p = First[t]
    \/ nvm_pc = "other" /\ t = "product" /\ p = Second[t]
    \/ nvm_pc = "backup" /\ t = "fixnv" /\ p = Second[t]

Copies(t) == {First[t], Second[t]}

SumsOK(t) == \A p \in Copies(t) : disk[p].sum \in versions[t]
WholeOK(t) == \A p \in Copies(t) : ~Writing(t, p) => NvmIntact(disk[p])
PrefixOK(t) ==
    \A p \in Copies(t) : Writing(t, p) =>
        /\ NvmIntact(nvm_buf[t]) /\ nvm_buf[t].sum \in versions[t]
        /\ \A x \in 1..k : disk[p].data[x] = nvm_buf[t].data[x]

\* The buffer is what the request leads to, but for the chunks yet to come.
MergeOK(t) ==
    nvm_pc = "data" /\ type = t =>
        \A x \in Index :
            due[x] = IF offset < x /\ x <= offset + left THEN n ELSE nvm_buf[t].data[x]

FileInv(t) == SumsOK(t) /\ WholeOK(t) /\ PrefixOK(t) /\ MergeOK(t)

\* fixnv_buffer, as the sync command finds it.
InRequest == type = "fixnv" /\ nvm_pc \in {"data", "first"}
BackupInv ==
    /\ nvm_pc = "backup" => update_finxn_flag
    /\ nvm_pc = "first" /\ type = "fixnv" => update_finxn_flag
    /\ update_finxn_flag /\ ~InRequest =>
          /\ NvmIntact(nvm_buf["fixnv"]) /\ nvm_buf["fixnv"].sum \in versions["fixnv"]
          /\ disk["fix1"] = nvm_buf["fixnv"]
    /\ losses = 0 /\ ~update_finxn_flag => disk["fix2"] = disk["fix1"]
    /\ synced => ~update_finxn_flag /\ nvm_pc = "read"

NvmInv ==
    /\ NvmTypeOK /\ PhaseOK /\ FileInv("product")
    /\ ends = 0 => FileInv("fixnv") /\ BackupInv

-----------------------------------------------------------------------------
(* Names, and the effect of one write *)

LEMMA Names ==
  /\ DOMAIN First = Types /\ DOMAIN Second = Types
  /\ First["fixnv"] = "fix1" /\ First["product"] = "prod1" /\ First["runtimenv"] = "run1"
  /\ Second["fixnv"] = "fix2" /\ Second["product"] = "prod2" /\ Second["runtimenv"] = "run2"
  /\ NvmPartitions = {"fix1", "fix2", "prod1", "prod2", "run1", "run2"}
  /\ Sealed = {"fixnv", "product"} /\ Sealed \subseteq Types
<1>1. DOMAIN First = Types /\ DOMAIN Second = Types
  BY SMTT(60) DEF First, Second, Types
<1>2. /\ First["fixnv"] = "fix1" /\ First["product"] = "prod1" /\ First["runtimenv"] = "run1"
      /\ Second["fixnv"] = "fix2" /\ Second["product"] = "prod2" /\ Second["runtimenv"] = "run2"
  BY DEF First, Second
<1>3. NvmPartitions = {"fix1", "fix2", "prod1", "prod2", "run1", "run2"}
  BY <1>1, <1>2 DEF NvmPartitions, Types
<1>. QED  BY <1>1, <1>2, <1>3 DEF Sealed, Types

LEMMA CopyNames ==
  ASSUME NEW t \in Sealed
  PROVE  /\ First[t] \in NvmPartitions /\ Second[t] \in NvmPartitions /\ First[t] # Second[t]
         /\ First[t] \notin {"run1", "run2"} /\ Second[t] \notin {"run1", "run2"}
         /\ Copies(t) \subseteq NvmPartitions
         /\ \A u \in Sealed : u # t => Copies(u) \cap Copies(t) = {}
  BY Names DEF Copies

LEMMA SameContents ==
  ASSUME NEW c \in Contents, NEW d \in Contents, \A x \in Index : c[x] = d[x]
  PROVE  c = d
  BY SMTT(60) DEF Contents

\* A copy with the chunks and the checksum of an intact buffer is the buffer.
LEMMA SameFile ==
  ASSUME NEW f \in File, NEW g \in File, f.data = g.data, f.sum = g.sum
  PROVE  f = g
  BY SMTT(60) DEF File

\* One write of a file changes one copy: a chunk, or at the end the checksum.
LEMMA WriteFile ==
  ASSUME Chunks \in Nat, disk \in [NvmPartitions -> File], k \in 0..Chunks,
         NEW p \in NvmPartitions, NEW b \in File, Write(p, b), Progress
  PROVE  /\ disk' \in [NvmPartitions -> File] /\ k' \in 0..Chunks /\ (Written => k' = 0)
         /\ \A q \in NvmPartitions : q # p => disk'[q] = disk[q]
         /\ ~Written => disk'[p].sum = disk[p].sum
         /\ (\A x \in 1..k : disk[p].data[x] = b.data[x]) =>
               IF Written THEN disk'[p] = b ELSE \A x \in 1..k' : disk'[p].data[x] = b.data[x]
<1>1. CASE k < Chunks
  <2>1. /\ ~Written /\ k' = k + 1 /\ k + 1 \in Index
        /\ disk' = [disk EXCEPT ![p].data[k + 1] = b.data[k + 1]]
    BY SMTT(60), <1>1 DEF Written, Progress, Write, Index
  <2>2. b.data \in Contents /\ disk[p] \in File /\ disk[p].data \in Contents
    BY DEF File
  <2>3. b.data[k + 1] \in Nat
    BY <2>1, <2>2 DEF Contents
  <2>4. disk'[p] = [disk[p] EXCEPT !.data[k + 1] = b.data[k + 1]]
    BY <2>1
  <2>5. /\ disk'[p].sum = disk[p].sum
        /\ disk'[p].data = [disk[p].data EXCEPT ![k + 1] = b.data[k + 1]]
    BY <2>4, <2>2 DEF File
  <2>6. disk'[p] \in File
    BY <2>4, <2>5, <2>2, <2>3, <2>1 DEF File, Contents
  <2>7. disk' \in [NvmPartitions -> File] /\ \A q \in NvmPartitions : q # p => disk'[q] = disk[q]
    BY <2>1, <2>6
  <2>8. (\A x \in 1..k : disk[p].data[x] = b.data[x]) =>
            \A x \in 1..k' : disk'[p].data[x] = b.data[x]
    BY SMTT(60), <2>1, <2>2, <2>5 DEF Contents, Index
  <2>. QED  BY SMTT(60), <2>1, <2>5, <2>7, <2>8, <1>1
<1>2. CASE k = Chunks
  <2>1. Written /\ k' = 0 /\ disk' = [disk EXCEPT ![p].sum = b.sum]
    BY SMTT(60), <1>2 DEF Written, Progress, Write
  <2>2. /\ b.data \in Contents /\ b.sum \in Contents /\ disk[p] \in File
        /\ disk[p].data \in Contents
    BY DEF File
  <2>3. (\A x \in 1..k : disk[p].data[x] = b.data[x]) => disk[p].data = b.data
    <3>1. 1..k = Index
      BY <1>2 DEF Index
    <3>. QED  BY <2>2, <3>1, SameContents
  <2>4. disk'[p] = [disk[p] EXCEPT !.sum = b.sum]
    BY <2>1
  <2>5. disk'[p] \in File /\ disk'[p].data = disk[p].data /\ disk'[p].sum = b.sum
    BY <2>4, <2>2 DEF File
  <2>6. disk[p].data = b.data => disk'[p] = b
    BY <2>5, SameFile
  <2>7. disk' \in [NvmPartitions -> File] /\ \A q \in NvmPartitions : q # p => disk'[q] = disk[q]
    BY <2>1, <2>5
  <2>. QED  BY SMTT(60), <2>1, <2>3, <2>6, <2>7
<1>. QED  BY SMTT(60), <1>1, <1>2

-----------------------------------------------------------------------------
(* Types and places *)

LEMMA ImageTyped ==
  ASSUME disk \in [NvmPartitions -> File], NEW t \in Types
  PROVE  NvmImage(t) \in Contents
<1>1. First[t] \in NvmPartitions /\ Second[t] \in NvmPartitions
  BY Names DEF Types
<1>. QED  BY <1>1 DEF NvmImage, File

LEMMA HeaderTyped ==
  ASSUME Chunks \in Nat, NvmTypeOK, PhaseOK, ReadHeader
  PROVE  NvmTypeOK' /\ PhaseOK'
<1>0. PICK t \in DOMAIN First, o \in 0..Chunks : \E size \in 0..(Chunks - o) :
        /\ type' = t /\ offset' = o /\ left' = size /\ nvm_buf' = Loaded(t)
        /\ due' = [x \in Index |-> IF x \in (o + 1)..(o + size) THEN n' ELSE NvmImage(t)[x]]
  BY DEF ReadHeader
<1>1. PICK size \in 0..(Chunks - o) :
        /\ type' = t /\ offset' = o /\ left' = size /\ nvm_buf' = Loaded(t)
        /\ due' = [x \in Index |-> IF x \in (o + 1)..(o + size) THEN n' ELSE NvmImage(t)[x]]
  BY <1>0
<1>2. t \in Types /\ n' = n + 1 /\ n' \in Nat /\ nvm_pc' = "data" /\ synced' = FALSE
  BY SMTT(60), Names DEF ReadHeader, NvmTypeOK
<1>3. nvm_buf' \in [Sealed -> File]
  <2>1. t \in Sealed => First[t] \in NvmPartitions
    BY CopyNames
  <2>. QED  BY <1>1, <2>1 DEF Loaded, NvmTypeOK
<1>4. due' \in Contents
  <2>1. NvmImage(t) \in Contents
    BY <1>2, ImageTyped DEF NvmTypeOK
  <2>. QED  BY <1>1, <1>2, <2>1 DEF Contents
<1>5. UNCHANGED <<disk, update_finxn_flag, k, versions, losses, ends>> /\ nvm_pc = "read"
  BY DEF ReadHeader, bounds
<1>6. offset' \in Nat /\ left' \in Nat /\ offset' + left' <= Chunks
  BY SMTT(60), <1>1
<1>7. PhaseOK'
  BY <1>1, <1>2, <1>5 DEF PhaseOK
<1>. QED  BY <1>1, <1>2, <1>3, <1>4, <1>5, <1>6, <1>7 DEF NvmTypeOK

LEMMA DataTyped ==
  ASSUME Chunks \in Nat, NvmTypeOK, PhaseOK,
         ReadSync \/ ReadData \/ WriteSecond \/ EndOfFile \/ EndOfData
  PROVE  NvmTypeOK' /\ PhaseOK'
<1>0. Zero \in Contents
  BY DEF Zero, Contents
<1>1. CASE ReadSync
  BY <1>1 DEF ReadSync, NvmTypeOK, PhaseOK, request, bounds
<1>2. CASE ReadData
  <2>1. /\ nvm_pc = "data" /\ left > 0 /\ type \in Types /\ k = 0
        /\ UNCHANGED <<update_finxn_flag, type, due, k, synced, versions, n, losses, ends>>
    BY <1>2 DEF ReadData, PhaseOK, bounds
  <2>2. offset + 1 \in Index /\ n \in Nat
    BY SMTT(60), <2>1 DEF NvmTypeOK, Index
  <2>3. CASE type \in Sealed
    <3>1. nvm_buf' = Merge /\ Advance /\ UNCHANGED <<disk, nvm_pc>>
      BY <1>2, <2>3 DEF ReadData
    <3>2. nvm_buf' \in [Sealed -> File]
      <4>1. nvm_buf[type] \in File /\ nvm_buf' = [nvm_buf EXCEPT ![type].data[offset + 1] = n]
        BY <2>3, <3>1 DEF NvmTypeOK, Merge
      <4>2. [nvm_buf[type] EXCEPT !.data[offset + 1] = n] \in File
        BY <4>1, <2>2 DEF File, Contents
      <4>. QED  BY <4>1, <4>2, <2>3 DEF NvmTypeOK
    <3>. QED  BY SMTT(60), <2>1, <3>1, <3>2 DEF NvmTypeOK, PhaseOK, Advance
  <2>4. CASE type \notin Sealed
    <3>1. /\ disk' = [disk EXCEPT !["run1"].data[offset + 1] = n]
          /\ nvm_pc' = "second" /\ UNCHANGED <<nvm_buf, offset, left>> /\ type = "runtimenv"
      BY <1>2, <2>1, <2>4, Names DEF ReadData, Types
    <3>2. disk' \in [NvmPartitions -> File]
      <4>1. "run1" \in NvmPartitions /\ disk["run1"] \in File
        BY Names DEF NvmTypeOK
      <4>2. [disk["run1"] EXCEPT !.data[offset + 1] = n] \in File
        BY <4>1, <2>2 DEF File, Contents
      <4>. QED  BY <3>1, <4>1, <4>2 DEF NvmTypeOK
    <3>. QED  BY <2>1, <3>1, <3>2 DEF NvmTypeOK, PhaseOK
  <2>. QED  BY <2>3, <2>4
<1>3. CASE WriteSecond
  <2>1. /\ nvm_pc = "second" /\ type = "runtimenv" /\ left > 0 /\ k = 0
        /\ nvm_pc' = "data" /\ Advance
        /\ disk' = [disk EXCEPT !["run2"].data[offset + 1] = n]
        /\ UNCHANGED <<nvm_buf, update_finxn_flag, type, due, k, synced, versions, n, losses,
                        ends>>
    BY <1>3 DEF WriteSecond, PhaseOK, bounds
  <2>2. offset + 1 \in Index /\ n \in Nat
    BY SMTT(60), <2>1 DEF NvmTypeOK, Index
  <2>3. "run2" \in NvmPartitions /\ disk["run2"] \in File
    BY Names DEF NvmTypeOK
  <2>4. [disk["run2"] EXCEPT !.data[offset + 1] = n] \in File
    BY <2>2, <2>3 DEF File, Contents
  <2>5. disk' \in [NvmPartitions -> File]
    BY <2>1, <2>3, <2>4 DEF NvmTypeOK
  <2>. QED  BY SMTT(60), <2>1, <2>5 DEF NvmTypeOK, PhaseOK, Advance, Types
<1>4. CASE EndOfFile
  BY SMTT(60), <1>4, <1>0 DEF EndOfFile, NvmTypeOK, PhaseOK
<1>5. CASE EndOfData
  <2>1. /\ nvm_pc = "data" /\ left = 0 /\ type \in Types /\ k = 0 /\ offset' = 0
        /\ UNCHANGED <<disk, left, k, synced, n, losses, ends>>
    BY <1>5 DEF EndOfData, PhaseOK, bounds
  <2>2. CASE type \in Sealed
    <3>1. /\ nvm_buf' = Seal /\ nvm_pc' = "first" /\ UNCHANGED <<type, due>>
          /\ update_finxn_flag' = Marked
          /\ versions' = [versions EXCEPT ![type] = @ \cup {due}]
      BY SMTT(60), <1>5, <2>2 DEF EndOfData
    <3>2. nvm_buf' \in [Sealed -> File]
      BY <2>2, <3>1 DEF Seal, NvmTypeOK, File
    <3>3. versions' \in [Sealed -> SUBSET Contents]
      BY <2>2, <3>1 DEF NvmTypeOK
    <3>. QED  BY SMTT(60), <2>1, <2>2, <3>1, <3>2, <3>3 DEF NvmTypeOK, PhaseOK, Marked
  <2>3. CASE type \notin Sealed
    BY SMTT(60), <1>5, <2>1, <2>3, <1>0 DEF EndOfData, NvmTypeOK, PhaseOK
  <2>. QED  BY <2>2, <2>3
<1>. QED  BY <1>1, <1>2, <1>3, <1>4, <1>5

LEMMA WriteTyped ==
  ASSUME Chunks \in Nat, NvmTypeOK, PhaseOK, WriteFirst \/ WriteOther \/ WriteBackup
  PROVE  NvmTypeOK' /\ PhaseOK'
<1>0. Zero \in Contents
  BY DEF Zero, Contents
<1>1. CASE WriteFirst
  <2>1. /\ nvm_pc = "first" /\ type \in Sealed /\ Write(First[type], nvm_buf[type]) /\ Progress
        /\ UNCHANGED <<nvm_buf, update_finxn_flag, offset, left, synced, versions, n, losses,
                        ends>>
    BY <1>1 DEF WriteFirst, PhaseOK, bounds
  <2>2. First[type] \in NvmPartitions /\ nvm_buf[type] \in File
    BY <2>1, CopyNames DEF NvmTypeOK
  <2>3. disk' \in [NvmPartitions -> File] /\ k' \in 0..Chunks /\ (Written => k' = 0)
    BY <2>1, <2>2, WriteFile DEF NvmTypeOK
  <2>4. /\ nvm_pc' = IF ~Written THEN "first" ELSE IF type = "product" THEN "other" ELSE "read"
        /\ type' = IF nvm_pc' = "read" THEN "none" ELSE type
        /\ due' = IF nvm_pc' = "read" THEN Zero ELSE due
    BY <1>1 DEF WriteFirst
  <2>. QED  BY <1>0, <2>1, <2>3, <2>4 DEF NvmTypeOK, PhaseOK
<1>2. CASE WriteOther
  <2>1. /\ nvm_pc = "other" /\ type = "product" /\ Write("prod2", nvm_buf["product"]) /\ Progress
        /\ UNCHANGED <<nvm_buf, update_finxn_flag, offset, left, synced, versions, n, losses,
                        ends>>
    BY <1>2 DEF WriteOther, PhaseOK, bounds
  <2>2. "prod2" \in NvmPartitions /\ nvm_buf["product"] \in File
    BY Names DEF NvmTypeOK
  <2>3. disk' \in [NvmPartitions -> File] /\ k' \in 0..Chunks /\ (Written => k' = 0)
    BY <2>1, <2>2, WriteFile DEF NvmTypeOK
  <2>4. /\ nvm_pc' = IF Written THEN "read" ELSE "other"
        /\ type' = IF Written THEN "none" ELSE type
        /\ due' = IF Written THEN Zero ELSE due
    BY <1>2 DEF WriteOther
  <2>. QED  BY <1>0, <2>1, <2>3, <2>4 DEF NvmTypeOK, PhaseOK
<1>3. CASE WriteBackup
  <2>1. /\ nvm_pc = "backup" /\ Write("fix2", nvm_buf["fixnv"]) /\ Progress
        /\ UNCHANGED <<nvm_buf, type, offset, left, due, versions, n, losses, ends>>
    BY <1>3 DEF WriteBackup, request, bounds
  <2>2. "fix2" \in NvmPartitions /\ nvm_buf["fixnv"] \in File
    BY Names DEF NvmTypeOK
  <2>3. disk' \in [NvmPartitions -> File] /\ k' \in 0..Chunks /\ (Written => k' = 0)
    BY <2>1, <2>2, WriteFile DEF NvmTypeOK
  <2>4. /\ nvm_pc' = IF Written THEN "read" ELSE "backup"
        /\ update_finxn_flag' = ~Written /\ synced' = Written
    BY <1>3 DEF WriteBackup
  <2>5. update_finxn_flag' \in BOOLEAN /\ synced' \in BOOLEAN
    BY <2>4 DEF Written
  <2>. QED  BY <2>1, <2>3, <2>4, <2>5 DEF NvmTypeOK, PhaseOK
<1>. QED  BY <1>1, <1>2, <1>3

\* What the boot loader makes of the two copies of a file.
LEMMA RestoredCopies ==
  ASSUME NEW t \in Sealed
  PROVE  /\ Restore[First[t]] = NvmRestored(First[t], Second[t])
         /\ Restore[Second[t]] = NvmRestored(Second[t], First[t])
<1>1. /\ First[t] \in {First[u] : u \in Sealed} /\ Second[t] \in {Second[u] : u \in Sealed}
      /\ Second[t] \notin {First[u] : u \in Sealed} /\ First[t] \notin {Second[u] : u \in Sealed}
      /\ First[t] \in NvmPartitions /\ Second[t] \in NvmPartitions
  BY Names
<1>2. (CHOOSE u \in Sealed : First[u] = First[t]) = t
  <2>1. \A u \in Sealed : First[u] = First[t] => u = t
    BY Names
  <2>. QED  BY <2>1
<1>3. (CHOOSE u \in Sealed : Second[u] = Second[t]) = t
  <2>1. \A u \in Sealed : Second[u] = Second[t] => u = t
    BY Names
  <2>. QED  BY <2>1
<1>4. Restore[First[t]] = NvmRestored(First[t], Second[CHOOSE u \in Sealed : First[u] = First[t]])
  BY SMTT(60), <1>1 DEF Restore
<1>5. Restore[Second[t]] =
         NvmRestored(Second[t], First[CHOOSE u \in Sealed : Second[u] = Second[t]])
  BY SMTT(60), <1>1 DEF Restore
<1>. QED  BY <1>2, <1>3, <1>4, <1>5

LEMMA LossTyped ==
  ASSUME Chunks \in Nat, NvmTypeOK, PhaseOK, NvmPowerLoss
  PROVE  NvmTypeOK' /\ PhaseOK'
<1>1. Zero \in Contents
  BY DEF Zero, Contents
<1>2. disk' = Restore /\ losses' = losses + 1
  BY DEF NvmPowerLoss
<1>3. \A p \in NvmPartitions : Restore[p] \in File
  <2>1. \A p, q \in NvmPartitions : NvmRestored(p, q) \in File
    BY SMTT(60) DEF NvmRestored, NvmTypeOK
  <2>2. Restore["run1"] = disk["run1"] /\ Restore["run2"] = disk["run2"]
    BY Names DEF Restore
  <2>3. \A t \in Sealed : Restore[First[t]] \in File /\ Restore[Second[t]] \in File
    BY SMTT(60), <2>1, RestoredCopies, CopyNames
  <2>. QED  BY <2>2, <2>3, Names DEF NvmTypeOK
<1>4. disk' \in [NvmPartitions -> File]
  BY <1>2, <1>3 DEF Restore
<1>5. nvm_buf' \in [Sealed -> File]
  BY <1>1 DEF NvmPowerLoss, File
<1>6. /\ update_finxn_flag' = FALSE /\ nvm_pc' = "read" /\ k' = 0 /\ synced' = FALSE
      /\ type' = "none" /\ offset' = 0 /\ left' = 0 /\ due' = Zero
      /\ UNCHANGED <<versions, n, ends>>
  BY DEF NvmPowerLoss
<1>7. losses' \in Nat /\ k' \in 0..Chunks /\ offset' + left' <= Chunks
  BY SMTT(60), <1>2, <1>6 DEF NvmTypeOK
<1>8. PhaseOK'
  BY <1>6 DEF PhaseOK
<1>. QED  BY <1>1, <1>4, <1>5, <1>6, <1>7, <1>8 DEF NvmTypeOK

-----------------------------------------------------------------------------
(* The copies of one file *)

\* A step that writes neither copy, and after which neither is being written.
LEMMA Unwritten ==
  ASSUME NEW t \in Sealed, SumsOK(t), WholeOK(t),
         \A p \in Copies(t) : ~Writing(t, p), \A p \in Copies(t) : ~Writing(t, p)',
         \A p \in Copies(t) : disk'[p] = disk[p], versions[t] \subseteq versions'[t]
  PROVE  SumsOK(t)' /\ WholeOK(t)' /\ PrefixOK(t)'
  BY SMTT(60) DEF SumsOK, WholeOK, PrefixOK, NvmIntact, Copies

LEMMA HeaderFile ==
  ASSUME Chunks \in Nat, NvmTypeOK, NEW t \in Sealed, FileInv(t), ReadHeader
  PROVE  FileInv(t)'
<1>0. PICK u \in DOMAIN First, o \in 0..Chunks : \E size \in 0..(Chunks - o) :
        /\ type' = u /\ offset' = o /\ left' = size /\ nvm_buf' = Loaded(u)
        /\ due' = [x \in Index |-> IF x \in (o + 1)..(o + size) THEN n' ELSE NvmImage(u)[x]]
  BY DEF ReadHeader
<1>1. PICK size \in 0..(Chunks - o) :
        /\ type' = u /\ offset' = o /\ left' = size /\ nvm_buf' = Loaded(u)
        /\ due' = [x \in Index |-> IF x \in (o + 1)..(o + size) THEN n' ELSE NvmImage(u)[x]]
  BY <1>0
<1>2. nvm_pc = "read" /\ nvm_pc' = "data" /\ UNCHANGED <<disk, versions>>
  BY DEF ReadHeader
<1>3. SumsOK(t)' /\ WholeOK(t)' /\ PrefixOK(t)'
  BY <1>2, Unwritten DEF Writing, FileInv
<1>4. ASSUME u = t PROVE MergeOK(t)'
  <2>1. NvmIntact(disk[First[t]]) /\ First[t] \in NvmPartitions
    BY <1>2, CopyNames DEF FileInv, WholeOK, Copies, Writing
  <2>2. NvmImage(t) = disk[First[t]].data /\ nvm_buf'[t] = disk[First[t]]
    BY <1>1, <1>4, <2>1 DEF NvmImage, Loaded, NvmTypeOK
  <2>. QED  BY SMTT(60), <1>1, <1>4, <2>2 DEF MergeOK, Index
<1>5. u # t => MergeOK(t)'
  BY <1>1 DEF MergeOK
<1>. QED  BY <1>3, <1>4, <1>5 DEF FileInv

LEMMA SyncFile ==
  ASSUME NvmTypeOK, PhaseOK, NEW t \in Sealed, FileInv(t), t = "fixnv" => BackupInv, ReadSync
  PROVE  FileInv(t)'
<1>1. nvm_pc = "read" /\ UNCHANGED <<disk, nvm_buf, versions, k, type>> /\ k = 0
  BY DEF ReadSync, request, PhaseOK
<1>2. CASE nvm_pc' = "read" \/ t = "product"
  <2>1. nvm_pc' \in {"read", "backup"}
    BY DEF ReadSync
  <2>. QED  BY <1>1, <1>2, <2>1, Unwritten DEF Writing, FileInv, MergeOK
<1>3. CASE nvm_pc' # "read" /\ t # "product"
  <2>1. t = "fixnv" /\ nvm_pc' = "backup" /\ update_finxn_flag
    BY <1>3, Names DEF ReadSync
  <2>2. NvmIntact(nvm_buf[t]) /\ nvm_buf[t].sum \in versions[t]
    BY <1>1, <2>1 DEF BackupInv, InRequest
  <2>3. PrefixOK(t)'
    BY SMTT(60), <1>1, <2>2 DEF PrefixOK, NvmIntact
  <2>4. SumsOK(t)' /\ WholeOK(t)'
    BY <1>1 DEF SumsOK, WholeOK, FileInv, Writing, NvmIntact, Copies
  <2>. QED  BY <2>1, <2>3, <2>4 DEF FileInv, MergeOK
<1>. QED  BY <1>2, <1>3

LEMMA DataFile ==
  ASSUME Chunks \in Nat, NvmTypeOK, PhaseOK, NEW t \in Sealed, FileInv(t), ReadData \/ WriteSecond
  PROVE  FileInv(t)'
<1>1. /\ nvm_pc \in {"data", "second"} /\ nvm_pc' \in {"data", "second"}
      /\ UNCHANGED <<versions, type, n, due>>
  BY DEF ReadData, WriteSecond
<1>2. \A p \in Copies(t) : disk'[p] = disk[p]
  BY CopyNames DEF ReadData, WriteSecond, Copies, NvmTypeOK
<1>3. SumsOK(t)' /\ WholeOK(t)' /\ PrefixOK(t)'
  BY <1>1, <1>2, Unwritten DEF Writing, FileInv
<1>4. ASSUME type = t PROVE MergeOK(t)'
  <2>1. /\ nvm_pc = "data" /\ left > 0 /\ nvm_buf' = Merge /\ Advance
    BY <1>4, Names DEF ReadData, WriteSecond, PhaseOK
  <2>2. /\ nvm_buf[t].data \in Contents
        /\ nvm_buf'[t].data = [nvm_buf[t].data EXCEPT ![offset + 1] = n]
    BY <1>4, <2>1 DEF Merge, NvmTypeOK, File
  <2>3. ASSUME NEW x \in Index
        PROVE  due[x] = IF offset' < x /\ x <= offset' + left' THEN n ELSE nvm_buf'[t].data[x]
    <3>1. due[x] = IF offset < x /\ x <= offset + left THEN n ELSE nvm_buf[t].data[x]
      BY <1>4, <2>1 DEF FileInv, MergeOK
    <3>2. nvm_buf'[t].data[x] = IF x = offset + 1 THEN n ELSE nvm_buf[t].data[x]
      BY <2>2 DEF Contents
    <3>. QED  BY SMTT(60), <2>1, <3>1, <3>2 DEF Advance, NvmTypeOK, Index
  <2>. QED  BY <1>1, <2>3 DEF MergeOK
<1>5. type # t => MergeOK(t)'
  BY <1>1 DEF MergeOK
<1>. QED  BY <1>3, <1>4, <1>5 DEF FileInv

LEMMA EndFile ==
  ASSUME Chunks \in Nat, NvmTypeOK, PhaseOK, NEW t \in Sealed, FileInv(t), EndOfFile \/ EndOfData
  PROVE  FileInv(t)'
<1>1. nvm_pc = "data" /\ UNCHANGED <<disk, k>> /\ k = 0
  BY DEF EndOfFile, EndOfData, PhaseOK
<1>2. versions[t] \subseteq versions'[t]
  BY DEF EndOfFile, EndOfData, NvmTypeOK
<1>3. CASE EndOfData /\ type = t
  <2>1. /\ nvm_buf' = Seal /\ nvm_pc' = "first" /\ type' = t /\ left = 0
        /\ versions' = [versions EXCEPT ![t] = @ \cup {due}]
    BY <1>3 DEF EndOfData
  <2>2. /\ nvm_buf'[t].data = nvm_buf[t].data /\ nvm_buf'[t].sum = nvm_buf[t].data
        /\ due \in versions'[t]
    BY <1>3, <2>1 DEF Seal, NvmTypeOK, File
  <2>3. nvm_buf[t].data = due
    <3>1. nvm_buf[t].data \in Contents /\ due \in Contents
      BY DEF NvmTypeOK, File
    <3>2. \A x \in Index : due[x] = nvm_buf[t].data[x]
      BY SMTT(60), <1>1, <1>3, <2>1 DEF FileInv, MergeOK, NvmTypeOK, Index
    <3>. QED  BY <3>1, <3>2, SameContents
  <2>4. NvmIntact(nvm_buf'[t]) /\ nvm_buf'[t].sum \in versions'[t]
    BY <2>2, <2>3 DEF NvmIntact
  <2>5. PrefixOK(t)'
    BY SMTT(60), <1>1, <2>4 DEF PrefixOK, NvmIntact
  <2>6. SumsOK(t)' /\ WholeOK(t)'
    BY <1>1, <1>2 DEF SumsOK, WholeOK, FileInv, Writing, NvmIntact, Copies
  <2>. QED  BY <2>1, <2>5, <2>6 DEF FileInv, MergeOK
<1>4. CASE ~(EndOfData /\ type = t)
  <2>1. nvm_pc' = "read" \/ (nvm_pc' = "first" /\ type' # t)
    BY <1>4 DEF EndOfFile, EndOfData
  <2>. QED  BY <1>1, <1>2, <2>1, Unwritten DEF Writing, FileInv, MergeOK
<1>. QED  BY <1>3, <1>4

\* A write to the copy p of the file t, of which the other copy is q.
LEMMA WriteCopy ==
  ASSUME Chunks \in Nat, NvmTypeOK, NEW t \in Sealed, FileInv(t), NEW p, NEW q,
         Copies(t) = {p, q}, p # q, Writing(t, p), ~Writing(t, q),
         Write(p, nvm_buf[t]), Progress, UNCHANGED <<nvm_buf, versions>>
  PROVE  /\ disk'[q] = disk[q] /\ NvmIntact(disk'[q]) /\ SumsOK(t)'
         /\ NvmIntact(nvm_buf'[t]) /\ nvm_buf'[t].sum \in versions'[t]
         /\ ~Written => \A x \in 1..k' : disk'[p].data[x] = nvm_buf'[t].data[x]
         /\ Written => disk'[p] = nvm_buf[t] /\ NvmIntact(disk'[p]) /\ k' = 0
<1>1. p \in NvmPartitions /\ q \in NvmPartitions /\ nvm_buf[t] \in File /\ k \in 0..Chunks
  BY CopyNames DEF NvmTypeOK
<1>2. /\ NvmIntact(nvm_buf[t]) /\ nvm_buf[t].sum \in versions[t]
      /\ \A x \in 1..k : disk[p].data[x] = nvm_buf[t].data[x]
  BY DEF FileInv, PrefixOK
<1>3. /\ Written => k' = 0
      /\ disk'[q] = disk[q]
      /\ ~Written => disk'[p].sum = disk[p].sum
      /\ IF Written THEN disk'[p] = nvm_buf[t]
                    ELSE \A x \in 1..k' : disk'[p].data[x] = nvm_buf[t].data[x]
  BY <1>1, <1>2, WriteFile DEF NvmTypeOK
<1>4. NvmIntact(disk[q]) /\ disk[q].sum \in versions[t] /\ disk[p].sum \in versions[t]
  BY DEF FileInv, WholeOK, SumsOK
<1>5. NvmIntact(nvm_buf'[t]) /\ nvm_buf'[t].sum \in versions'[t] /\ NvmIntact(disk'[q])
  BY <1>2, <1>3, <1>4 DEF NvmIntact
<1>6. disk'[p].sum \in versions'[t] /\ disk'[q].sum \in versions'[t]
  BY <1>2, <1>3, <1>4
<1>7. SumsOK(t)'
  BY <1>6 DEF SumsOK, Copies
<1>. QED  BY <1>2, <1>3, <1>5, <1>7

LEMMA FirstFile ==
  ASSUME Chunks \in Nat, NvmTypeOK, PhaseOK, NEW t \in Sealed, FileInv(t), WriteFirst
  PROVE  FileInv(t)'
<1>1. /\ nvm_pc = "first" /\ type \in Sealed /\ Write(First[type], nvm_buf[type]) /\ Progress
      /\ UNCHANGED <<nvm_buf, versions>>
      /\ nvm_pc' = IF ~Written THEN "first" ELSE IF type = "product" THEN "other" ELSE "read"
      /\ type' = IF nvm_pc' = "read" THEN "none" ELSE type
  BY DEF WriteFirst, PhaseOK
<1>2. CASE type = t
  <2>1. Copies(t) = {First[t], Second[t]} /\ First[t] # Second[t]
    BY CopyNames DEF Copies
  <2>2. Writing(t, First[t]) /\ ~Writing(t, Second[t])
    BY <1>1, <1>2, <2>1 DEF Writing
  <2>3. /\ NvmIntact(disk'[Second[t]]) /\ SumsOK(t)'
        /\ NvmIntact(nvm_buf'[t]) /\ nvm_buf'[t].sum \in versions'[t]
        /\ ~Written => \A x \in 1..k' : disk'[First[t]].data[x] = nvm_buf'[t].data[x]
        /\ Written => NvmIntact(disk'[First[t]]) /\ k' = 0
    <3>1. Write(First[t], nvm_buf[t]) /\ Progress /\ UNCHANGED <<nvm_buf, versions>>
      BY <1>1, <1>2
    <3>. QED  BY SMTT(60), <2>1, <2>2, <3>1, WriteCopy
  <2>4. CASE ~Written
    <3>1. Writing(t, First[t])' /\ ~Writing(t, Second[t])'
      BY <1>1, <1>2, <2>1, <2>4 DEF Writing
    <3>. QED  BY <1>1, <2>1, <2>3, <2>4, <3>1 DEF FileInv, WholeOK, PrefixOK, MergeOK, Copies
  <2>5. CASE Written
    <3>1. ~Writing(t, First[t])' /\ nvm_pc' # "data"
      BY <1>1, <2>1, <2>5 DEF Writing
    <3>2. WholeOK(t)'
      BY <2>1, <2>3, <2>5 DEF WholeOK, Copies
    <3>3. PrefixOK(t)'
      BY SMTT(60), <2>3, <2>5, <3>1 DEF PrefixOK, Copies
    <3>. QED  BY <2>3, <3>1, <3>2, <3>3 DEF FileInv, MergeOK
  <2>. QED  BY <2>4, <2>5
<1>3. CASE type # t
  <2>1. /\ First[type] \in NvmPartitions /\ nvm_buf[type] \in File
        /\ \A p \in Copies(t) : p # First[type]
    BY <1>1, <1>3, CopyNames DEF NvmTypeOK, Copies
  <2>2. \A p \in Copies(t) : disk'[p] = disk[p]
    BY <1>1, <2>1, WriteFile, CopyNames DEF NvmTypeOK
  <2>3. /\ \A p \in Copies(t) : ~Writing(t, p)
        /\ \A p \in Copies(t) : ~Writing(t, p)'
    BY <1>1, <1>3, Names DEF Writing
  <2>. QED  BY <1>1, <2>2, <2>3, Unwritten DEF FileInv, MergeOK
<1>. QED  BY <1>2, <1>3

LEMMA OtherFile ==
  ASSUME Chunks \in Nat, NvmTypeOK, PhaseOK, NEW t \in Sealed, FileInv(t), WriteOther
  PROVE  FileInv(t)'
<1>1. /\ nvm_pc = "other" /\ Write("prod2", nvm_buf["product"]) /\ Progress
      /\ UNCHANGED <<nvm_buf, versions>>
      /\ nvm_pc' = IF Written THEN "read" ELSE "other"
  BY DEF WriteOther
<1>2. CASE t = "product"
  <2>1. Copies(t) = {"prod1", "prod2"} /\ First[t] = "prod1" /\ Second[t] = "prod2"
    BY <1>2, Names DEF Copies
  <2>2. Writing(t, "prod2") /\ ~Writing(t, "prod1")
    BY <1>1, <1>2, <2>1 DEF Writing
  <2>3. /\ NvmIntact(disk'["prod1"]) /\ SumsOK(t)'
        /\ NvmIntact(nvm_buf'[t]) /\ nvm_buf'[t].sum \in versions'[t]
        /\ ~Written => \A x \in 1..k' : disk'["prod2"].data[x] = nvm_buf'[t].data[x]
        /\ Written => NvmIntact(disk'["prod2"])
    BY SMTT(60), <1>1, <1>2, <2>1, <2>2, WriteCopy
  <2>4. /\ ~Writing(t, "prod1")' /\ (Writing(t, "prod2")' <=> ~Written) /\ nvm_pc' # "data"
    BY <1>1, <1>2, <2>1 DEF Writing
  <2>5. WholeOK(t)' /\ PrefixOK(t)'
    BY <2>1, <2>3, <2>4 DEF WholeOK, PrefixOK, Copies
  <2>. QED  BY <2>3, <2>4, <2>5 DEF FileInv, MergeOK
<1>3. CASE t # "product"
  <2>1. /\ "prod2" \in NvmPartitions /\ nvm_buf["product"] \in File
        /\ \A p \in Copies(t) : p # "prod2"
    BY <1>3, Names DEF NvmTypeOK, Copies
  <2>2. \A p \in Copies(t) : disk'[p] = disk[p]
    BY <1>1, <2>1, WriteFile, CopyNames DEF NvmTypeOK
  <2>3. /\ \A p \in Copies(t) : ~Writing(t, p)
        /\ \A p \in Copies(t) : ~Writing(t, p)'
    BY <1>1, <1>3 DEF Writing
  <2>. QED  BY <1>1, <2>2, <2>3, Unwritten DEF FileInv, MergeOK
<1>. QED  BY <1>2, <1>3

LEMMA BackupFile ==
  ASSUME Chunks \in Nat, NvmTypeOK, PhaseOK, NEW t \in Sealed, FileInv(t), WriteBackup
  PROVE  FileInv(t)'
<1>1. /\ nvm_pc = "backup" /\ Write("fix2", nvm_buf["fixnv"]) /\ Progress
      /\ UNCHANGED <<nvm_buf, versions>>
      /\ nvm_pc' = IF Written THEN "read" ELSE "backup"
  BY DEF WriteBackup
<1>2. CASE t = "fixnv"
  <2>1. Copies(t) = {"fix1", "fix2"} /\ First[t] = "fix1" /\ Second[t] = "fix2"
    BY <1>2, Names DEF Copies
  <2>2. Writing(t, "fix2") /\ ~Writing(t, "fix1")
    BY <1>1, <1>2, <2>1 DEF Writing
  <2>3. /\ NvmIntact(disk'["fix1"]) /\ SumsOK(t)'
        /\ NvmIntact(nvm_buf'[t]) /\ nvm_buf'[t].sum \in versions'[t]
        /\ ~Written => \A x \in 1..k' : disk'["fix2"].data[x] = nvm_buf'[t].data[x]
        /\ Written => NvmIntact(disk'["fix2"])
    BY SMTT(60), <1>1, <1>2, <2>1, <2>2, WriteCopy
  <2>4. /\ ~Writing(t, "fix1")' /\ (Writing(t, "fix2")' <=> ~Written) /\ nvm_pc' # "data"
    BY <1>1, <1>2, <2>1 DEF Writing
  <2>5. WholeOK(t)' /\ PrefixOK(t)'
    BY <2>1, <2>3, <2>4 DEF WholeOK, PrefixOK, Copies
  <2>. QED  BY <2>3, <2>4, <2>5 DEF FileInv, MergeOK
<1>3. CASE t # "fixnv"
  <2>1. "fix2" \in NvmPartitions /\ nvm_buf["fixnv"] \in File /\ \A p \in Copies(t) : p # "fix2"
    BY <1>3, Names DEF NvmTypeOK, Copies
  <2>2. \A p \in Copies(t) : disk'[p] = disk[p]
    BY <1>1, <2>1, WriteFile, CopyNames DEF NvmTypeOK
  <2>3. /\ \A p \in Copies(t) : ~Writing(t, p)
        /\ \A p \in Copies(t) : ~Writing(t, p)'
    BY <1>1, <1>3 DEF Writing
  <2>. QED  BY <1>1, <2>2, <2>3, Unwritten DEF FileInv, MergeOK
<1>. QED  BY <1>2, <1>3

\* One copy is not being written when power is lost, and is the source of the other.
LEMMA LossFile ==
  ASSUME NvmTypeOK, PhaseOK, NEW t \in Sealed, FileInv(t), NvmPowerLoss
  PROVE  FileInv(t)'
<1>1. disk' = Restore /\ nvm_pc' = "read" /\ UNCHANGED versions
  BY DEF NvmPowerLoss
<1>2. First[t] # Second[t] /\ First[t] \in Copies(t) /\ Second[t] \in Copies(t)
  BY CopyNames DEF Copies
<1>3. NvmIntact(disk[First[t]]) \/ NvmIntact(disk[Second[t]])
  <2>1. ~Writing(t, First[t]) \/ ~Writing(t, Second[t])
    BY <1>2 DEF Writing
  <2>. QED  BY <1>2, <2>1 DEF FileInv, WholeOK
<1>4. disk[First[t]].sum \in versions[t] /\ disk[Second[t]].sum \in versions[t]
  BY <1>2 DEF FileInv, SumsOK
<1>5. /\ disk'[First[t]] = NvmRestored(First[t], Second[t])
      /\ disk'[Second[t]] = NvmRestored(Second[t], First[t])
  BY <1>1, RestoredCopies
<1>6. \A p \in Copies(t) : NvmIntact(disk'[p]) /\ disk'[p].sum \in versions'[t]
  BY <1>1, <1>3, <1>4, <1>5 DEF NvmRestored, Copies
<1>7. SumsOK(t)' /\ WholeOK(t)'
  BY <1>6 DEF SumsOK, WholeOK, Copies, NvmIntact
<1>8. PrefixOK(t)' /\ MergeOK(t)'
  BY <1>1 DEF PrefixOK, MergeOK, Writing
<1>. QED  BY <1>7, <1>8 DEF FileInv

-----------------------------------------------------------------------------
(* fixnv_buffer and the sync command *)

\* A step outside of a request for fixnv that changes neither its copies nor its buffer.
LEMMA BackupKept ==
  ASSUME BackupInv, nvm_pc \notin {"read", "backup"}, nvm_pc' # "backup", ~InRequest, ~InRequest',
         disk'["fix1"] = disk["fix1"], disk'["fix2"] = disk["fix2"],
         nvm_buf'["fixnv"] = nvm_buf["fixnv"], versions'["fixnv"] = versions["fixnv"],
         UNCHANGED <<update_finxn_flag, synced, losses>>
  PROVE  BackupInv'
<1>1. ~synced' /\ ~(nvm_pc' = "first" /\ type' = "fixnv")
  BY DEF BackupInv, InRequest
<1>2. update_finxn_flag' =>
        /\ NvmIntact(nvm_buf'["fixnv"]) /\ nvm_buf'["fixnv"].sum \in versions'["fixnv"]
        /\ disk'["fix1"] = nvm_buf'["fixnv"]
  BY DEF BackupInv, NvmIntact
<1>3. losses' = 0 /\ ~update_finxn_flag' => disk'["fix2"] = disk'["fix1"]
  BY DEF BackupInv
<1>. QED  BY <1>1, <1>2, <1>3 DEF BackupInv

LEMMA HeaderBackup ==
  ASSUME NvmTypeOK, BackupInv, ReadHeader
  PROVE  BackupInv'
<1>1. /\ nvm_pc = "read" /\ nvm_pc' = "data" /\ synced' = FALSE /\ ~InRequest
      /\ UNCHANGED <<disk, update_finxn_flag, versions, losses>>
  BY DEF ReadHeader, bounds, InRequest
<1>2. type' # "fixnv" => nvm_buf'["fixnv"] = nvm_buf["fixnv"]
  BY Names DEF ReadHeader, Loaded, NvmTypeOK
<1>3. update_finxn_flag' /\ ~InRequest' =>
        /\ NvmIntact(nvm_buf'["fixnv"]) /\ nvm_buf'["fixnv"].sum \in versions'["fixnv"]
        /\ disk'["fix1"] = nvm_buf'["fixnv"]
  BY <1>1, <1>2 DEF BackupInv, InRequest, NvmIntact
<1>. QED  BY <1>1, <1>3 DEF BackupInv

LEMMA SyncBackup ==
  ASSUME BackupInv, ReadSync
  PROVE  BackupInv'
<1>1. /\ nvm_pc = "read" /\ ~synced
      /\ UNCHANGED <<disk, nvm_buf, update_finxn_flag, versions, losses>>
      /\ IF update_finxn_flag THEN nvm_pc' = "backup" /\ synced' = synced
                              ELSE nvm_pc' = "read" /\ synced' = TRUE
  BY DEF ReadSync, bounds
<1>2. ~InRequest /\ ~InRequest'
  BY <1>1 DEF InRequest
<1>. QED  BY <1>1, <1>2 DEF BackupInv, NvmIntact

LEMMA DataBackup ==
  ASSUME NvmTypeOK, PhaseOK, BackupInv, ReadData \/ WriteSecond
  PROVE  BackupInv'
<1>1. /\ nvm_pc \in {"data", "second"} /\ nvm_pc' \in {"data", "second"}
      /\ UNCHANGED <<update_finxn_flag, type, synced, versions, losses>>
  BY DEF ReadData, WriteSecond, bounds
<1>2. disk'["fix1"] = disk["fix1"] /\ disk'["fix2"] = disk["fix2"]
  BY Names DEF ReadData, WriteSecond, NvmTypeOK
<1>3. CASE type # "fixnv"
  <2>1. nvm_buf'["fixnv"] = nvm_buf["fixnv"]
    BY <1>3, Names DEF ReadData, WriteSecond, Merge, NvmTypeOK
  <2>. QED  BY <1>1, <1>2, <1>3, <2>1, BackupKept DEF InRequest
<1>4. CASE type = "fixnv"
  <2>1. nvm_pc = "data" /\ nvm_pc' = "data"
    BY <1>4, Names DEF ReadData, WriteSecond, PhaseOK
  <2>. QED  BY <1>1, <1>2, <1>4, <2>1 DEF BackupInv, InRequest
<1>. QED  BY <1>3, <1>4

LEMMA EndBackup ==
  ASSUME NvmTypeOK, PhaseOK, BackupInv, EndOfData
  PROVE  BackupInv'
<1>1. nvm_pc = "data" /\ UNCHANGED <<disk, synced, losses>> /\ nvm_pc' \in {"first", "read"}
  BY DEF EndOfData, bounds
<1>2. CASE type # "fixnv"
  <2>1. /\ UNCHANGED update_finxn_flag /\ type' # "fixnv"
        /\ nvm_buf'["fixnv"] = nvm_buf["fixnv"] /\ versions'["fixnv"] = versions["fixnv"]
    BY <1>2, Names DEF EndOfData, Seal, Marked, NvmTypeOK
  <2>. QED  BY <1>1, <1>2, <2>1, BackupKept DEF InRequest
<1>3. CASE type = "fixnv"
  <2>1. update_finxn_flag' = TRUE /\ nvm_pc' = "first" /\ type' = "fixnv"
    BY <1>3, Names DEF EndOfData, Marked
  <2>2. ~synced
    BY <1>1 DEF BackupInv
  <2>. QED  BY <1>1, <2>1, <2>2 DEF BackupInv, InRequest
<1>. QED  BY <1>2, <1>3

LEMMA FirstBackup ==
  ASSUME Chunks \in Nat, NvmTypeOK, PhaseOK, FileInv("fixnv"), BackupInv, WriteFirst
  PROVE  BackupInv'
<1>1. /\ nvm_pc = "first" /\ type \in Sealed /\ Write(First[type], nvm_buf[type]) /\ Progress
      /\ UNCHANGED <<nvm_buf, update_finxn_flag, synced, versions, losses>>
      /\ nvm_pc' = IF ~Written THEN "first" ELSE IF type = "product" THEN "other" ELSE "read"
      /\ type' = IF nvm_pc' = "read" THEN "none" ELSE type
  BY DEF WriteFirst, PhaseOK, bounds
<1>2. ~synced
  BY <1>1 DEF BackupInv
<1>3. CASE type # "fixnv"
  <2>1. /\ type = "product" /\ First[type] = "prod1"
        /\ "prod1" \in NvmPartitions /\ nvm_buf[type] \in File
    BY <1>1, <1>3, Names DEF NvmTypeOK
  <2>2. disk'["fix1"] = disk["fix1"] /\ disk'["fix2"] = disk["fix2"]
    BY <1>1, <2>1, WriteFile, Names DEF NvmTypeOK
  <2>. QED  BY <1>1, <1>3, <2>1, <2>2, BackupKept DEF InRequest
<1>4. CASE type = "fixnv"
  <2>1. "fixnv" \in Sealed /\ Copies("fixnv") = {"fix1", "fix2"} /\ First["fixnv"] = "fix1"
    BY Names DEF Copies
  <2>2. Writing("fixnv", "fix1") /\ ~Writing("fixnv", "fix2")
    BY <1>1, <1>4, <2>1 DEF Writing
  <2>3. /\ NvmIntact(nvm_buf'["fixnv"]) /\ nvm_buf'["fixnv"].sum \in versions'["fixnv"]
        /\ Written => disk'["fix1"] = nvm_buf["fixnv"]
    BY <1>1, <1>4, <2>1, <2>2, WriteCopy
  <2>4. update_finxn_flag' /\ (~InRequest' <=> Written) /\ nvm_pc' # "backup"
    BY <1>1, <1>4 DEF BackupInv, InRequest
  <2>. QED  BY <1>1, <1>2, <2>3, <2>4 DEF BackupInv
<1>. QED  BY <1>3, <1>4

LEMMA OtherBackup ==
  ASSUME Chunks \in Nat, NvmTypeOK, PhaseOK, BackupInv, WriteOther
  PROVE  BackupInv'
<1>1. /\ nvm_pc = "other" /\ Write("prod2", nvm_buf["product"]) /\ Progress
      /\ UNCHANGED <<nvm_buf, update_finxn_flag, synced, versions, losses>>
      /\ nvm_pc' = IF Written THEN "read" ELSE "other"
  BY DEF WriteOther, bounds
<1>2. "prod2" \in NvmPartitions /\ nvm_buf["product"] \in File
  BY Names DEF NvmTypeOK
<1>3. disk'["fix1"] = disk["fix1"] /\ disk'["fix2"] = disk["fix2"]
  BY <1>1, <1>2, WriteFile, Names DEF NvmTypeOK
<1>. QED  BY <1>1, <1>3, BackupKept DEF InRequest

LEMMA BackupBackup ==
  ASSUME Chunks \in Nat, NvmTypeOK, PhaseOK, FileInv("fixnv"), BackupInv, WriteBackup
  PROVE  BackupInv'
<1>1. /\ nvm_pc = "backup" /\ Write("fix2", nvm_buf["fixnv"]) /\ Progress
      /\ UNCHANGED <<nvm_buf, type, versions, losses>>
      /\ nvm_pc' = IF Written THEN "read" ELSE "backup"
      /\ update_finxn_flag' = ~Written /\ synced' = Written
  BY DEF WriteBackup, request, bounds
<1>2. "fixnv" \in Sealed /\ Copies("fixnv") = {"fix1", "fix2"} /\ First["fixnv"] = "fix1"
  BY Names DEF Copies
<1>3. Writing("fixnv", "fix2") /\ ~Writing("fixnv", "fix1")
  BY <1>1, Names DEF Writing
<1>4. disk'["fix1"] = disk["fix1"] /\ (Written => disk'["fix2"] = nvm_buf["fixnv"])
  BY SMTT(60), <1>1, <1>2, <1>3, WriteCopy
<1>5. /\ NvmIntact(nvm_buf["fixnv"]) /\ nvm_buf["fixnv"].sum \in versions["fixnv"]
      /\ disk["fix1"] = nvm_buf["fixnv"]
  BY <1>1 DEF BackupInv, InRequest
<1>6. NvmIntact(nvm_buf'["fixnv"])
  BY <1>1, <1>5
<1>7. ~InRequest'
  BY <1>1 DEF InRequest
<1>. QED  BY <1>1, <1>4, <1>5, <1>6, <1>7 DEF BackupInv

-----------------------------------------------------------------------------
(* The invariant *)

LEMMA NvmInvInit ==
  ASSUME Chunks \in Nat, NvmInit
  PROVE  NvmInv
<1>1. Zero \in Contents
  BY DEF Zero, Contents
<1>2. disk \in [NvmPartitions -> File] /\ nvm_buf \in [Sealed -> File]
      /\ versions \in [Sealed -> SUBSET Contents]
  BY <1>1 DEF NvmInit, File
<1>3. NvmTypeOK /\ PhaseOK
  <2>1. /\ update_finxn_flag = FALSE /\ nvm_pc = "read" /\ synced = FALSE /\ type = "none"
        /\ k = 0
        /\ offset = 0 /\ left = 0 /\ due = Zero /\ n = 0 /\ losses = 0 /\ ends = 0
    BY DEF NvmInit
  <2>2. k \in 0..Chunks /\ offset + left <= Chunks
    BY SMTT(60), <2>1
  <2>. QED  BY <1>1, <1>2, <2>1, <2>2 DEF NvmTypeOK, PhaseOK
<1>4. \A t \in Sealed : FileInv(t)
  <2>1. \A t \in Sealed : \A p \in Copies(t) :
           NvmIntact(disk[p]) /\ disk[p].sum \in versions[t] /\ ~Writing(t, p)
    BY CopyNames DEF NvmInit, NvmIntact, Writing
  <2>. QED  BY <2>1 DEF FileInv, SumsOK, WholeOK, PrefixOK, MergeOK, NvmInit
<1>5. BackupInv
  BY Names DEF NvmInit, BackupInv
<1>. QED  BY <1>3, <1>4, <1>5, Names DEF NvmInv

LEMMA NvmTypesStep ==
  ASSUME Chunks \in Nat, NvmTypeOK, PhaseOK, NvmNext
  PROVE  NvmTypeOK' /\ PhaseOK'
  BY HeaderTyped, DataTyped, WriteTyped, LossTyped DEF NvmNext

LEMMA FileStep ==
  ASSUME Chunks \in Nat, NvmTypeOK, PhaseOK, NEW t \in Sealed, FileInv(t),
         t = "fixnv" => BackupInv, NvmNext
  PROVE  FileInv(t)'
  BY HeaderFile, SyncFile, DataFile, EndFile, FirstFile, OtherFile, BackupFile, LossFile
  DEF NvmNext

LEMMA BackupStep ==
  ASSUME Chunks \in Nat, NvmTypeOK, PhaseOK, FileInv("fixnv"), BackupInv, NvmNext, ends' = 0
  PROVE  BackupInv'
<1>1. ASSUME EndOfFile PROVE FALSE
  BY SMTT(60), <1>1 DEF EndOfFile, NvmTypeOK
<1>2. ASSUME NvmPowerLoss PROVE BackupInv'
  BY SMTT(60), <1>2 DEF NvmPowerLoss, NvmTypeOK, BackupInv
<1>. QED  BY <1>1, <1>2, HeaderBackup, SyncBackup, DataBackup, EndBackup, FirstBackup,
             OtherBackup, BackupBackup DEF NvmNext

LEMMA EndsStep ==
  ASSUME NvmTypeOK, NvmNext, ends' = 0
  PROVE  ends = 0
<1>1. ends' = ends \/ ends' = ends + 1
  BY DEF NvmNext, ReadHeader, ReadSync, ReadData, WriteSecond, EndOfFile, EndOfData, WriteFirst,
         WriteOther, WriteBackup, NvmPowerLoss, bounds
<1>. QED  BY SMTT(60), <1>1 DEF NvmTypeOK

LEMMA NvmStep ==
  ASSUME Chunks \in Nat, NvmInv, [NvmNext]_nvmVars
  PROVE  NvmInv'
<1>1. CASE UNCHANGED nvmVars
  <2>1. UNCHANGED <<disk, nvm_buf, update_finxn_flag, nvm_pc, type, offset, left, due, k,
                    synced, versions, n, losses, ends>>
    BY <1>1 DEF nvmVars, request, bounds
  <2>2. NvmTypeOK' /\ PhaseOK'
    BY <2>1 DEF NvmInv, NvmTypeOK, PhaseOK
  <2>3. ASSUME NEW t, FileInv(t) PROVE FileInv(t)'
    BY <2>1, <2>3 DEF FileInv, SumsOK, WholeOK, PrefixOK, MergeOK, Writing, Copies, NvmIntact
  <2>4. BackupInv => BackupInv'
    BY <2>1 DEF BackupInv, InRequest, NvmIntact
  <2>. QED  BY <2>1, <2>2, <2>3, <2>4 DEF NvmInv
<1>2. CASE NvmNext
  <2>1. NvmTypeOK /\ PhaseOK /\ FileInv("product") /\ "product" \in Sealed /\ "fixnv" \in Sealed
    BY Names DEF NvmInv
  <2>2. NvmTypeOK' /\ PhaseOK'
    BY <1>2, <2>1, NvmTypesStep
  <2>3. FileInv("product")'
    BY <1>2, <2>1, FileStep
  <2>4. ASSUME ends' = 0 PROVE ends = 0
    BY <1>2, <2>1, <2>4, EndsStep
  <2>5. ASSUME ends' = 0 PROVE FileInv("fixnv")' /\ BackupInv'
    <3>1. FileInv("fixnv") /\ BackupInv
      BY <2>4, <2>5 DEF NvmInv
    <3>. QED  BY <1>2, <2>1, <2>5, <3>1, FileStep, BackupStep
  <2>. QED  BY <2>2, <2>3, <2>5 DEF NvmInv
<1>. QED  BY <1>1, <1>2

LEMMA NvmInvariance == NvmSpec => []NvmInv
<1>1. NvmInit => NvmInv
  BY NvmInvInit, NvmDaemonAssumption
<1>2. NvmInv /\ [NvmNext]_nvmVars => NvmInv'
  BY NvmStep, NvmDaemonAssumption
<1>. QED  BY <1>1, <1>2, PTL DEF NvmSpec

LEMMA FileSurvives ==
  ASSUME NEW t \in Sealed, FileInv(t)
  PROVE  Survives(t)
<1>1. First[t] # Second[t]
  BY CopyNames
<1>2. ~Writing(t, First[t]) \/ ~Writing(t, Second[t])
  BY <1>1 DEF Writing
<1>. QED  BY <1>2 DEF FileInv, SumsOK, WholeOK, Survives, Copies, NvmIntact

\* The daemon keeps its types: buffers, partitions and the place in a request.
THEOREM NvmTypes == NvmSpec => []NvmTypeOK
<1>1. NvmInv => NvmTypeOK
  BY DEF NvmInv
<1>. QED  BY <1>1, NvmInvariance, PTL

\* The product information survives a power loss between any two chunks, broken-off
\* requests included (update_productinfofile_emmc): one of its copies is intact, and
\* an intact copy holds the outcome of complete requests.
THEOREM AlwaysProductSurvives == NvmSpec => []ProductSurvives
<1>1. NvmInv => ProductSurvives
  BY FileSurvives, Names DEF NvmInv, ProductSurvives
<1>. QED  BY <1>1, NvmInvariance, PTL

\* So does fixnv, whose second copy is only written by a sync command, as long as the
\* modem breaks off no request (update_fixnvfile, update_backupfile).
THEOREM AlwaysFixnvSurvives == NvmSpec => []FixnvSurvives
<1>1. NvmInv => FixnvSurvives
  BY FileSurvives, Names DEF NvmInv, FixnvSurvives
<1>. QED  BY <1>1, NvmInvariance, PTL

\* A sync command that was answered has made the copies of fixnv equal, as long as
\* power stays on and no request is broken off.
THEOREM AlwaysBackupSynced == NvmSpec => []BackupSynced
<1>1. NvmInv => BackupSynced
  <2>1. SUFFICES ASSUME NvmInv, synced, losses = 0, ends = 0
                 PROVE  disk["fix2"] = disk["fix1"] /\ NvmIntact(disk["fix2"])
    BY DEF BackupSynced
  <2>2. FileInv("fixnv") /\ BackupInv
    BY <2>1 DEF NvmInv
  <2>3. nvm_pc = "read" /\ disk["fix2"] = disk["fix1"]
    BY <2>1, <2>2 DEF BackupInv
  <2>4. "fix2" \in Copies("fixnv") /\ ~Writing("fixnv", "fix2")
    BY <2>3, Names DEF Copies, Writing
  <2>. QED  BY <2>2, <2>3, <2>4 DEF FileInv, WholeOK
<1>. QED  BY <1>1, NvmInvariance, PTL

\* Together: what the run checks of nvm_daemon's copies on two chunks holds for files of
\* any length, and any numbers of requests, power losses and ends of file.
THEOREM AlwaysNvmCopies == NvmSpec => []NvmCopies
<1>1. FixnvSurvives /\ ProductSurvives /\ BackupSynced => NvmCopies
  BY DEF NvmCopies
<1>. QED  BY <1>1, AlwaysProductSurvives, AlwaysFixnvSurvives, AlwaysBackupSynced, PTL

-----------------------------------------------------------------------------
(***************************************************************************)
(* rawdatad: the inductive invariant.  The two copies of a block are in    *)
(* one of five relations, whatever was interrupted; outside of a save or a *)
(* repair of the block they are settled, and the steps of a save or a      *)
(* repair go from one relation to the next.                                *)
(***************************************************************************)
Blank(b) == saved[b] = None /\ ~part[0][b].ok /\ ~part[1][b].ok
Agree(b) == /\ part[0][b] = part[1][b] /\ part[0][b].ok
            /\ part[0][b].data = saved[b] /\ part[0][b].data = pending[b]
Torn0(b) == ~part[0][b].ok /\ part[1][b].ok /\ part[1][b].data = saved[b]
Ahead(b) == /\ part[0][b].ok /\ part[0][b].data = pending[b]
            /\ part[1][b].ok /\ part[1][b].data = saved[b]
            /\ part[0][b].cnt = part[1][b].cnt + 1
Torn1(b) == part[0][b].ok /\ part[0][b].data = pending[b] /\ ~part[1][b].ok

Settled(b) == Blank(b) \/ Agree(b)
Valid(b) == Settled(b) \/ Torn0(b) \/ Ahead(b) \/ Torn1(b)

CountersInv == \A p \in Partitions, b \in Blocks : part[p][b].ok => part[p][b].cnt <= MaxCounter

\* A block without feedback is never written.
NoFeedbackInv == \A b \in NoFeedback : Agree(b)

Saving == pc \in {"write0", "between", "write1"}
SaveInv ==
    Saving =>
        /\ block \notin NoFeedback /\ counter <= MaxCounter /\ pending[block] = buf
        /\ \A b \in Blocks \ {block} : Settled(b)
        /\ pc = "write0" => \/ Blank(block)
                            \/ Torn0(block) /\ counter = part[1][block].cnt + 1
        /\ pc = "between" => /\ part[0][block] = Copy(TRUE, counter, buf)
                             /\ Ahead(block) \/ Torn1(block)
        /\ pc = "write1" => part[0][block] = Copy(TRUE, counter, buf) /\ Torn1(block)

RepairInv ==
    /\ pc \in {"init", "repair"} => \A b \in Blocks : b < block => Settled(b)
    /\ pc = "repair" => /\ block \notin NoFeedback
                        /\ (partition = 1 /\ Torn0(block)) \/ (partition = 0 /\ Torn1(block))
    /\ pc = "watch" => \A b \in Blocks : Settled(b)

CopiesInv == CountersInv /\ NoFeedbackInv /\ \A b \in Blocks : Valid(b)
Relations == CopiesInv /\ SaveInv /\ RepairInv
DataInv == TypeOK /\ Relations
-----------------------------------------------------------------------------
USE BlocksAssumption, CounterAssumption, BoundsAssumption

CopyType == [ok : BOOLEAN, cnt : 0..(2 * Half - 1), data : Data]

LEMMA StoreEffect ==
  ASSUME part \in [Partitions -> [Blocks -> CopyType]],
         NEW p \in Partitions, NEW b \in Blocks, NEW c \in CopyType, Store(p, b, c)
  PROVE  /\ part' \in [Partitions -> [Blocks -> CopyType]]
         /\ part'[p][b] = c
         /\ \A q \in Partitions : q # p => part'[q][b] = part[q][b]
         /\ \A q \in Partitions, a \in Blocks : a # b => part'[q][a] = part[q][a]
<1>1. part' = [part EXCEPT ![p] = [part[p] EXCEPT ![b] = c]]
  BY DEF Store
<1>2. part[p] \in [Blocks -> CopyType]
  OBVIOUS
<1>3. [part[p] EXCEPT ![b] = c] \in [Blocks -> CopyType]
  BY <1>2
<1>. QED  BY <1>1, <1>2, <1>3

LEMMA PartType ==
  ASSUME TypeOK
  PROVE  /\ part \in [Partitions -> [Blocks -> CopyType]]
         /\ \A p \in Partitions, b \in Blocks :
               /\ part[p][b] \in CopyType /\ part[p][b].ok \in BOOLEAN
               /\ part[p][b].cnt \in 0..(2 * Half - 1) /\ part[p][b].data \in Data
<1>1. part \in [Partitions -> [Blocks -> CopyType]]
  BY DEF TypeOK, CopyType
<1>. QED  BY <1>1 DEF CopyType

LEMMA CopyTyped ==
  ASSUME NEW ok \in BOOLEAN, NEW c \in 0..(2 * Half - 1), NEW d \in Data
  PROVE  /\ Copy(ok, c, d) \in CopyType /\ Copy(ok, c, d).ok = ok
         /\ Copy(ok, c, d).cnt = c /\ Copy(ok, c, d).data = d
BY DEF Copy, CopyType

LEMMA TornTyped ==
  ASSUME NEW c \in 0..(2 * Half - 1)
  PROVE  Copy(FALSE, c, Torn) \in CopyType /\ Copy(FALSE, c, Torn).ok = FALSE
BY DEF Copy, CopyType, Data

LEMMA FullTyped ==
  ASSUME NEW c \in 0..(2 * Half - 1), NEW d \in Data
  PROVE  /\ Copy(TRUE, c, d) \in CopyType /\ Copy(TRUE, c, d).ok
         /\ Copy(TRUE, c, d).cnt = c /\ Copy(TRUE, c, d).data = d
BY DEF Copy, CopyType

\* A step that leaves a block alone leaves the relation of its copies.
LEMMA Frame ==
  ASSUME NEW b, part'[0][b] = part[0][b], part'[1][b] = part[1][b],
         saved'[b] = saved[b], pending'[b] = pending[b]
  PROVE  /\ (Settled(b) => Settled(b)') /\ (Valid(b) => Valid(b)')
         /\ (Agree(b) => Agree(b)') /\ (Torn0(b) => Torn0(b)') /\ (Torn1(b) => Torn1(b)')
BY DEF Settled, Valid, Blank, Agree, Torn0, Ahead, Torn1

\* The copy a restart takes, by the relation of the copies.
LEMMA Chosen ==
  ASSUME MaxCounter < Half, TypeOK, CountersInv, NEW b \in Blocks \ NoFeedback
  PROVE  /\ Blank(b) => CheckBlock(0, b) = -1 /\ CheckBlock(1, b) = -1
         /\ Agree(b) => CheckBlock(0, b) = CheckBlock(1, b) /\ ChooseOf(b) = 1
         /\ Torn0(b) => CheckBlock(0, b) # CheckBlock(1, b) /\ ChooseOf(b) = 1
         /\ Ahead(b) => CheckBlock(0, b) # CheckBlock(1, b) /\ ChooseOf(b) = 0
         /\ Torn1(b) => CheckBlock(0, b) # CheckBlock(1, b) /\ ChooseOf(b) = 0
<1>1. /\ part[0][b].ok => part[0][b].cnt <= MaxCounter
      /\ part[1][b].ok => part[1][b].cnt <= MaxCounter
  BY DEF CountersInv, Partitions
<1>2. part[0][b].cnt \in 0..(2 * Half - 1) /\ part[1][b].cnt \in 0..(2 * Half - 1)
  BY PartType DEF Partitions
<1>3. /\ CheckBlock(0, b) = IF part[0][b].ok THEN part[0][b].cnt ELSE -1
      /\ CheckBlock(1, b) = IF part[1][b].ok THEN part[1][b].cnt ELSE -1
  BY SMTT(60), <1>1, <1>2 DEF CheckBlock, AsInt
<1>4. Agree(b) => CheckBlock(0, b) = CheckBlock(1, b) /\ ChooseOf(b) = 1
  BY SMTT(60), <1>2, <1>3 DEF Agree, ChooseOf
<1>5. Torn0(b) => CheckBlock(0, b) # CheckBlock(1, b) /\ ChooseOf(b) = 1
  BY SMTT(60), <1>2, <1>3 DEF Torn0, ChooseOf
<1>6. Ahead(b) => CheckBlock(0, b) # CheckBlock(1, b) /\ ChooseOf(b) = 0
  BY SMTT(60), <1>2, <1>3 DEF Ahead, ChooseOf
<1>7. Torn1(b) => CheckBlock(0, b) # CheckBlock(1, b) /\ ChooseOf(b) = 0
  BY SMTT(60), <1>2, <1>3 DEF Torn1, ChooseOf
<1>8. Blank(b) => CheckBlock(0, b) = -1 /\ CheckBlock(1, b) = -1
  BY <1>3 DEF Blank
<1>. QED  BY <1>4, <1>5, <1>6, <1>7, <1>8

-----------------------------------------------------------------------------
(* Types *)

Events == [block : Blocks, kind : {"MODIFY", "DELETE"}]

LEMMA DataTypes ==
  /\ Erased \in Data /\ Torn \in Data
  /\ \A b \in Blocks : Content(b) \subseteq Data
BY DEF Data, Content

LEMMA NextBlockType ==
  ASSUME block \in Blocks, NextBlock
  PROVE  block' \in Blocks /\ pc' \in {"init", "watch"}
BY SMTT(60) DEF NextBlock, Blocks

LEMMA InitTypes == Init => TypeOK
<1>. SUFFICES ASSUME Init PROVE TypeOK
  OBVIOUS
<1>1. PICK c \in BlankCounters, v \in Versions :
          /\ part = [p \in Partitions |-> [b \in Blocks |->
                IF b \in NoFeedback THEN Copy(TRUE, 0, <<b, v>>) ELSE Copy(FALSE, c, Torn)]]
          /\ saved = [b \in Blocks |-> IF b \in NoFeedback THEN <<b, v>> ELSE None]
  BY DEF Init
<1>2. \A b \in Blocks : <<b, v>> \in Data
  BY DEF Data
<1>3. \A b \in Blocks : (IF b \in NoFeedback THEN Copy(TRUE, 0, <<b, v>>)
                                            ELSE Copy(FALSE, c, Torn)) \in CopyType
  <2>1. 0 \in 0..(2 * Half - 1) /\ c \in 0..(2 * Half - 1)
    BY SMTT(60)
  <2>. QED  BY <1>2, <2>1, CopyTyped, DataTypes
<1>4. part \in [Partitions -> [Blocks -> CopyType]]
  BY <1>1, <1>3
<1>5. saved \in [Blocks -> Data \cup {None}] /\ pending = saved
  BY <1>1, <1>2 DEF Init
<1>6. 0 \in Blocks /\ 0 \in Partitions /\ 0 \in 0..(2 * Half - 1)
  BY SMTT(60) DEF Blocks, Partitions
<1>7. events \in Seq(Events) /\ file \in [Blocks -> Data \cup {Absent, Empty}]
  BY SMTT(60) DEF Init
<1>8. /\ pc = "down" /\ block = 0 /\ partition = 0 /\ buf = Erased /\ counter = 0
      /\ changes = 0 /\ crashes = 0 /\ deletes \in BOOLEAN
  BY DEF Init
<1>9. changes \in 0..MaxChanges /\ crashes \in 0..MaxCrashes
  BY SMTT(60), <1>8
<1>. QED  BY <1>4, <1>5, <1>6, <1>7, <1>8, <1>9, DataTypes DEF TypeOK, CopyType, Events

\* The copies after every step of the daemon.
LEMMA PartStep ==
  ASSUME TypeOK, MaxCounter < Half, Daemon
  PROVE  part' \in [Partitions -> [Blocks -> CopyType]]
<1>1. /\ part \in [Partitions -> [Blocks -> CopyType]] /\ block \in Blocks
      /\ partition \in Partitions /\ buf \in Data /\ counter \in 0..(2 * Half - 1)
      /\ 0 \in Partitions /\ 1 \in Partitions /\ Torn \in Data
  BY PartType, DataTypes DEF TypeOK, Partitions
<1>2. CASE Boot
  BY <1>1, <1>2 DEF Boot
<1>3. CASE InitBlock
  <2>1. ChooseOf(block) \in Partitions /\ 1 - ChooseOf(block) \in Partitions
    BY SMTT(60) DEF ChooseOf, Partitions
  <2>2. Copy(FALSE, part[ChooseOf(block)][block].cnt, Torn) \in CopyType
    BY <1>1, <2>1, PartType, CopyTyped
  <2>3. part' = part \/ Store(1 - ChooseOf(block), block,
                             Copy(FALSE, part[ChooseOf(block)][block].cnt, Torn))
    BY <1>3 DEF InitBlock
  <2>. QED  BY <1>1, <2>1, <2>2, <2>3, StoreEffect
<1>4. CASE Repaired
  <2>1. 1 - partition \in Partitions /\ part[partition][block] \in CopyType
    BY SMTT(60), <1>1, PartType DEF Partitions
  <2>. QED  BY <1>1, <1>4, <2>1, StoreEffect DEF Repaired
<1>5. CASE HandleEvent
  <2>. DEFINE b == Head(events).block
              c == Increase(part[0][b].cnt)
  <2>1. events \in Seq(Events) /\ events # <<>>
    BY <1>5 DEF HandleEvent, TypeOK, Events
  <2>2. b \in Blocks
    <3>1. Head(events) \in Events
      BY SMTT(60), <2>1
    <3>. QED  BY <3>1 DEF Events
  <2>3. part' = part \/ (c <= MaxCounter /\ Store(0, b, Copy(FALSE, c, Torn)))
    BY <1>5 DEF HandleEvent
  <2>4. c \in Nat
    BY SMTT(60), <1>1, <2>2, PartType DEF Increase
  <2>5. c <= MaxCounter => c \in 0..(2 * Half - 1)
    BY SMTT(60), <2>4
  <2>6. c <= MaxCounter => Copy(FALSE, c, Torn) \in CopyType
    BY <1>1, <2>5, CopyTyped
  <2>. QED  BY <1>1, <2>2, <2>3, <2>6, StoreEffect
<1>6. CASE Written0
  BY <1>1, <1>6, StoreEffect, CopyTyped DEF Written0
<1>7. CASE Write1
  BY <1>1, <1>7, StoreEffect, CopyTyped DEF Write1
<1>8. CASE Written1
  BY <1>1, <1>8, StoreEffect, CopyTyped DEF Written1
<1>. QED  BY <1>2, <1>3, <1>4, <1>5, <1>6, <1>7, <1>8 DEF Daemon

\* The event that is handled, the counter of its save and what is read.
LEMMA EventTypes ==
  ASSUME TypeOK, HandleEvent, MaxCounter < Half
  PROVE  /\ events \in Seq(Events) /\ events # <<>> /\ events' = Tail(events)
         /\ Head(events).block \in Blocks /\ events' \in Seq(Events) /\ buf' \in Data
         /\ Increase(part[0][Head(events).block].cnt) \in Nat
<1>1. events \in Seq(Events) /\ events # <<>> /\ events' = Tail(events)
  BY DEF HandleEvent, Remaining, TypeOK, Events
<1>2. Head(events) \in Events /\ Tail(events) \in Seq(Events)
  BY SMTT(60), <1>1
<1>3. Head(events).block \in Blocks
  BY <1>2 DEF Events
<1>4. buf' \in Data
  <2>1. file[Head(events).block] \in Data \cup {Absent, Empty} /\ buf \in Data
    BY <1>3 DEF TypeOK
  <2>2. ReadFile(Head(events).block) \in Data
    BY <2>1, DataTypes DEF ReadFile
  <2>. QED  BY <2>2, DataTypes DEF HandleEvent
<1>5. part[0][Head(events).block].cnt \in Nat
  BY SMTT(60), <1>3, PartType DEF Partitions
<1>. QED  BY SMTT(60), <1>1, <1>2, <1>3, <1>4, <1>5 DEF Increase

Typed ==
    /\ part \in [Partitions -> [Blocks -> CopyType]]
    /\ file \in [Blocks -> Data \cup {Absent, Empty}] /\ events \in Seq(Events)
    /\ pc \in {"down", "init", "repair", "watch", "write0", "between", "write1"}
    /\ block \in Blocks /\ partition \in Partitions
    /\ buf \in Data /\ counter \in 0..(2 * Half - 1)
    /\ saved \in [Blocks -> Data \cup {None}] /\ pending \in [Blocks -> Data \cup {None}]
    /\ changes \in 0..MaxChanges /\ crashes \in 0..MaxCrashes /\ deletes \in BOOLEAN

LEMMA NextTypes ==
  ASSUME TypeOK, MaxCounter < Half, Next
  PROVE  TypeOK'
<1>1. /\ part \in [Partitions -> [Blocks -> CopyType]]
      /\ file \in [Blocks -> Data \cup {Absent, Empty}] /\ events \in Seq(Events)
      /\ pc \in {"down", "init", "repair", "watch", "write0", "between", "write1"}
      /\ block \in Blocks /\ partition \in Partitions
      /\ buf \in Data /\ counter \in 0..(2 * Half - 1)
      /\ saved \in [Blocks -> Data \cup {None}] /\ pending \in [Blocks -> Data \cup {None}]
      /\ changes \in 0..MaxChanges /\ crashes \in 0..MaxCrashes /\ deletes \in BOOLEAN
      /\ 0 \in Partitions /\ 1 \in Partitions /\ 0 \in Blocks /\ 0 \in 0..(2 * Half - 1)
  BY SMTT(60), PartType DEF TypeOK, Events, Partitions, Blocks
<1>2. Typed' => TypeOK'
  BY DEF TypeOK, Typed, CopyType, Events
<1>3. Daemon => part' \in [Partitions -> [Blocks -> CopyType]]
  BY PartStep
<1>4. ASSUME Boot PROVE Typed'
  BY <1>1, <1>4 DEF Boot, Typed
<1>5. ASSUME InitBlock PROVE Typed'
  <2>1. ChooseOf(block) \in Partitions
    BY DEF ChooseOf, Partitions
  <2>2. part[0][block].data \in Data /\ part[ChooseOf(block)][block].data \in Data
    BY <1>1, <2>1, PartType
  <2>3. file' \in [Blocks -> Data \cup {Absent, Empty}]
    BY <1>1, <1>5, <2>2 DEF InitBlock
  <2>4. block' \in Blocks /\ pc' \in {"init", "watch", "repair"} /\ partition' \in Partitions
    BY <1>1, <1>5, <2>1, NextBlockType DEF InitBlock
  <2>5. buf' \in Data /\ UNCHANGED <<events, counter, saved, pending, changes, crashes, deletes>>
    BY <1>5, <2>2 DEF InitBlock
  <2>. QED  BY <1>1, <1>3, <1>5, <2>3, <2>4, <2>5 DEF Typed, Daemon
<1>6. ASSUME Repaired PROVE Typed'
  <2>1. part[partition][block].data \in Data
    BY <1>1, PartType
  <2>2. saved' \in [Blocks -> Data \cup {None}] /\ pending' \in [Blocks -> Data \cup {None}]
    BY <1>1, <1>6, <2>1 DEF Repaired
  <2>3. block' \in Blocks /\ pc' \in {"init", "watch"}
    BY <1>1, <1>6, NextBlockType DEF Repaired
  <2>4. UNCHANGED <<file, events, partition, buf, counter, changes, crashes, deletes>>
    BY <1>6 DEF Repaired
  <2>. QED  BY <1>1, <1>3, <1>6, <2>2, <2>3, <2>4 DEF Typed, Daemon
<1>7. ASSUME HandleEvent PROVE Typed'
  <2>1. /\ Head(events).block \in Blocks /\ events' \in Seq(Events) /\ buf' \in Data
        /\ Increase(part[0][Head(events).block].cnt) \in Nat
    BY <1>7, EventTypes
  <2>2. UNCHANGED <<file, partition, saved, changes, crashes, deletes>>
    BY <1>7 DEF HandleEvent
  <2>3. counter' \in 0..(2 * Half - 1)
    <3>. DEFINE c == Increase(part[0][Head(events).block].cnt)
    <3>1. counter' = counter \/ (counter' = c /\ c <= MaxCounter)
      BY <1>7 DEF HandleEvent
    <3>. HIDE DEF c
    <3>2. c \in Nat
      BY <2>1 DEF c
    <3>. QED  BY SMTT(60), <1>1, <3>1, <3>2
  <2>4. pending' \in [Blocks -> Data \cup {None}]
    BY <1>1, <1>7, <2>1 DEF HandleEvent
  <2>5. block' \in Blocks /\ pc' \in {"watch", "write0"}
    BY <1>1, <1>7, <2>1 DEF HandleEvent
  <2>. QED  BY <1>1, <1>3, <1>7, <2>1, <2>2, <2>3, <2>4, <2>5 DEF Typed, Daemon
<1>8. ASSUME Written0 \/ Write1 PROVE Typed'
  BY <1>1, <1>3, <1>8 DEF Written0, Write1, Daemon, Typed
<1>9. ASSUME Written1 PROVE Typed'
  <2>1. saved' \in [Blocks -> Data \cup {None}]
    BY <1>1, <1>9 DEF Written1
  <2>. QED  BY <1>1, <1>3, <1>9, <2>1 DEF Typed, Written1, Daemon
<1>10. ASSUME NEW b \in Blocks, AppWrite(b) \/ AppDelete(b)
       PROVE  Typed'
  <2>1. file' \in [Blocks -> Data \cup {Absent, Empty}]
    BY <1>1, <1>10, DataTypes DEF AppWrite, AppDelete
  <2>2. /\ [block |-> b, kind |-> "MODIFY"] \in Events
        /\ [block |-> b, kind |-> "DELETE"] \in Events
    BY DEF Events
  <2>3. \A e \in Events : Append(events, e) \in Seq(Events)
    BY SMTT(60), <1>1
  <2>4. events' \in Seq(Events)
    BY <1>1, <1>10, <2>2, <2>3 DEF AppWrite, AppDelete, Notify
  <2>5. changes' \in 0..MaxChanges
    BY SMTT(60), <1>1, <1>10 DEF AppWrite, AppDelete
  <2>6. UNCHANGED <<part, pc, block, partition, buf, counter, saved, pending, crashes, deletes>>
    BY <1>10 DEF AppWrite, AppDelete
  <2>. QED  BY <1>1, <2>1, <2>4, <2>5, <2>6 DEF Typed
<1>11. ASSUME PowerLoss PROVE Typed'
  <2>1. crashes' \in 0..MaxCrashes
    BY SMTT(60), <1>1, <1>11 DEF PowerLoss
  <2>2. events' \in Seq(Events)
    BY SMTT(60), <1>11 DEF PowerLoss
  <2>. QED  BY <1>1, <1>11, <2>1, <2>2, DataTypes DEF Typed, PowerLoss
<1>. QED  BY <1>2, <1>4, <1>5, <1>6, <1>7, <1>8, <1>9, <1>10, <1>11 DEF Next, Daemon

-----------------------------------------------------------------------------
(* The relations of the copies *)

LEMMA SameCopies ==
  ASSUME CopiesInv, UNCHANGED <<part, saved, pending>>
  PROVE  /\ CopiesInv'
         /\ \A b \in Blocks : (Settled(b) => Settled(b)')
<1>1. \A b : /\ (Settled(b) => Settled(b)') /\ (Valid(b) => Valid(b)')
              /\ (Agree(b) => Agree(b)')
  BY Frame
<1>2. CountersInv' /\ NoFeedbackInv' /\ \A b \in Blocks : Valid(b)'
  BY <1>1 DEF CopiesInv, CountersInv, NoFeedbackInv
<1>. QED  BY <1>1, <1>2 DEF CopiesInv

\* A step that changes the copies of block b alone.
LEMMA OneBlock ==
  ASSUME CopiesInv, NEW b \in Blocks \ NoFeedback, Valid(b)',
         \A q \in Partitions, a \in Blocks : a # b => part'[q][a] = part[q][a],
         \A a \in Blocks : a # b => saved'[a] = saved[a] /\ pending'[a] = pending[a],
         \A q \in Partitions : part'[q][b].ok => part'[q][b].cnt <= MaxCounter
  PROVE  /\ CopiesInv'
         /\ \A a \in Blocks \ {b} : (Settled(a) => Settled(a)')
<1>1. ASSUME NEW a \in Blocks \ {b}
      PROVE  (Settled(a) => Settled(a)') /\ (Valid(a) => Valid(a)') /\ (Agree(a) => Agree(a)')
  <2>1. part'[0][a] = part[0][a] /\ part'[1][a] = part[1][a]
    BY DEF Partitions
  <2>2. saved'[a] = saved[a] /\ pending'[a] = pending[a]
    OBVIOUS
  <2>. QED  BY <2>1, <2>2, Frame
<1>2. \A a \in NoFeedback : a \in Blocks \ {b}
  BY SMTT(60) DEF NoFeedback, Blocks
<1>3. NoFeedbackInv'
  BY <1>1, <1>2 DEF NoFeedbackInv, CopiesInv
<1>4. CountersInv'
  BY SMTT(60) DEF CountersInv, CopiesInv
<1>5. \A a \in Blocks : Valid(a)'
  BY <1>1 DEF CopiesInv
<1>. QED  BY <1>1, <1>3, <1>4, <1>5 DEF CopiesInv

\* Going on to the next block.
LEMMA NextBlockInv ==
  ASSUME block \in Blocks, NextBlock, \A b \in Blocks : b <= block => Settled(b)'
  PROVE  SaveInv' /\ RepairInv'
<1>1. SaveInv'
  BY DEF SaveInv, Saving, NextBlock
<1>2. CASE block + 1 \in Blocks
  <2>1. block' = block + 1 /\ pc' = "init"
    BY <1>2 DEF NextBlock
  <2>2. \A b \in Blocks : b < block' => b <= block
    BY SMTT(60), <2>1 DEF Blocks
  <2>3. \A b \in Blocks : b < block' => Settled(b)'
    BY <2>2
  <2>. QED  BY <1>1, <2>1, <2>3 DEF RepairInv
<1>3. CASE block + 1 \notin Blocks
  <2>1. pc' = "watch"
    BY <1>3 DEF NextBlock
  <2>2. \A b \in Blocks : b <= block
    BY SMTT(60), <1>3 DEF Blocks
  <2>. QED  BY <1>1, <2>1, <2>2 DEF RepairInv
<1>. QED  BY <1>2, <1>3

LEMMA InitRelations == Init => CopiesInv /\ SaveInv /\ RepairInv
<1>. SUFFICES ASSUME Init PROVE CopiesInv /\ SaveInv /\ RepairInv
  OBVIOUS
<1>1. PICK c \in BlankCounters, v \in Versions :
          /\ part = [p \in Partitions |-> [b \in Blocks |->
                IF b \in NoFeedback THEN Copy(TRUE, 0, <<b, v>>) ELSE Copy(FALSE, c, Torn)]]
          /\ saved = [b \in Blocks |-> IF b \in NoFeedback THEN <<b, v>> ELSE None]
  BY DEF Init
<1>2. pending = saved /\ 0 \in Partitions /\ 1 \in Partitions
  BY DEF Init, Partitions
<1>3. ASSUME NEW b \in Blocks, b \in NoFeedback
      PROVE  Agree(b) /\ \A p \in Partitions : part[p][b].cnt = 0
  BY <1>1, <1>2, <1>3 DEF Agree, Copy
<1>4. ASSUME NEW b \in Blocks, b \notin NoFeedback
      PROVE  Blank(b) /\ \A p \in Partitions : ~part[p][b].ok
  BY <1>1, <1>2, <1>4 DEF Blank, Copy
<1>5. \A b \in Blocks : Valid(b)
  BY <1>3, <1>4 DEF Valid, Settled
<1>6. CountersInv
  BY SMTT(60), <1>3, <1>4 DEF CountersInv
<1>7. NoFeedbackInv
  <2>1. NoFeedback \subseteq Blocks
    BY SMTT(60) DEF NoFeedback, Blocks
  <2>. QED  BY <1>3, <2>1 DEF NoFeedbackInv
<1>8. SaveInv /\ RepairInv
  BY DEF Init, SaveInv, Saving, RepairInv
<1>. QED  BY <1>5, <1>6, <1>7, <1>8 DEF CopiesInv

-----------------------------------------------------------------------------
(* The steps *)

LEMMA OutsideInv ==
  ASSUME TypeOK, Relations,
         Boot \/ PowerLoss \/ \E b \in Blocks : AppWrite(b) \/ AppDelete(b)
  PROVE  Relations'
<1>1. UNCHANGED <<part, saved, pending>>
  BY DEF Boot, PowerLoss, AppWrite, AppDelete
<1>2. CopiesInv' /\ \A b \in Blocks : (Settled(b) => Settled(b)')
  BY <1>1, SameCopies DEF Relations
<1>3. CASE Boot
  <2>1. pc' = "init" /\ block' = 0
    BY <1>3 DEF Boot
  <2>2. \A b \in Blocks : ~(b < block')
    BY SMTT(60), <2>1 DEF Blocks
  <2>. QED  BY <1>2, <2>1, <2>2 DEF Relations, SaveInv, Saving, RepairInv
<1>4. CASE PowerLoss
  BY <1>2, <1>4 DEF PowerLoss, Relations, SaveInv, Saving, RepairInv
<1>5. CASE \E b \in Blocks : AppWrite(b) \/ AppDelete(b)
  <2>1. UNCHANGED <<part, pc, block, partition, buf, counter, saved, pending>>
    BY <1>5 DEF AppWrite, AppDelete
  <2>2. SaveInv'
    BY <2>1 DEF Relations, SaveInv, Saving, Settled, Blank, Agree, Torn0, Ahead, Torn1
  <2>3. RepairInv'
    BY <2>1 DEF Relations, RepairInv, Settled, Blank, Agree, Torn0, Torn1
  <2>. QED  BY <1>2, <2>2, <2>3 DEF Relations
<1>. QED  BY <1>3, <1>4, <1>5

LEMMA InitBlockInv ==
  ASSUME MaxCounter < Half, TypeOK, Relations, InitBlock
  PROVE  Relations'
<1>1. /\ pc = "init" /\ block \in Blocks /\ UNCHANGED <<saved, pending>>
      /\ CopiesInv /\ CountersInv /\ Valid(block)
      /\ \A b \in Blocks : b < block => Settled(b)
      /\ part \in [Partitions -> [Blocks -> CopyType]] /\ 0 \in Partitions /\ 1 \in Partitions
  BY PartType DEF InitBlock, TypeOK, Relations, CopiesInv, RepairInv, Partitions
<1>2. ASSUME part' = part, NextBlock, Settled(block)
      PROVE  Relations'
  <2>1. CopiesInv' /\ \A b \in Blocks : (Settled(b) => Settled(b)')
    BY <1>1, <1>2, SameCopies
  <2>2. \A b \in Blocks : b <= block => b = block \/ b < block
    BY SMTT(60), <1>1 DEF Blocks
  <2>3. \A b \in Blocks : b <= block => Settled(b)'
    BY <1>1, <1>2, <2>1, <2>2
  <2>. QED  BY <1>1, <1>2, <2>1, <2>3, NextBlockInv DEF Relations
<1>3. CASE block \in NoFeedback
  <2>1. Agree(block) /\ CheckBlock(0, block) = CheckBlock(1, block)
        /\ CheckBlock(0, block) # -1
    BY SMTT(60), <1>1, <1>3 DEF CopiesInv, NoFeedbackInv, Agree, CheckBlock
  <2>2. part' = part /\ NextBlock
    BY <2>1 DEF InitBlock
  <2>. QED  BY <1>2, <2>1, <2>2 DEF Settled
<1>4. CASE block \notin NoFeedback
  <2>1. CASE Settled(block)
    <3>1. \/ CheckBlock(0, block) = -1 /\ CheckBlock(1, block) = -1
          \/ CheckBlock(0, block) = CheckBlock(1, block)
      BY <1>1, <1>4, <2>1, Chosen DEF Settled
    <3>2. part' = part /\ NextBlock
      BY <3>1 DEF InitBlock
    <3>. QED  BY <1>2, <2>1, <3>2
  <2>2. CASE ~Settled(block)
    <3>1. PICK b \in Blocks \ NoFeedback : b = block
      BY <1>1, <1>4
    <3>2. PICK p \in Partitions, o \in Partitions :
            /\ p = ChooseOf(block) /\ o = 1 - p
            /\ CheckBlock(0, block) # CheckBlock(1, block)
            /\ \/ p = 1 /\ o = 0 /\ Torn0(block)
               \/ p = 0 /\ o = 1 /\ (Ahead(block) \/ Torn1(block))
      BY SMTT(60), <1>1, <1>4, <2>2, Chosen DEF Valid, Partitions
    <3>3. PICK c \in CopyType : c.ok = FALSE /\ c = Copy(FALSE, part[p][block].cnt, Torn)
      BY <1>1, TornTyped, PartType
    <3>4. /\ partition' = p /\ pc' = "repair" /\ block' = block /\ Store(o, b, c)
      BY <3>1, <3>2, <3>3 DEF InitBlock
    <3>5. /\ part'[o][b] = c /\ part'[p][b] = part[p][b]
          /\ \A q \in Partitions, a \in Blocks : a # b => part'[q][a] = part[q][a]
      <4>1. o # p
        BY <3>2
      <4>. QED  BY SMTT(60), <1>1, <3>4, <4>1, StoreEffect
    <3>6. (p = 1 /\ Torn0(b)') \/ (p = 0 /\ Torn1(b)')
      <4>1. CASE p = 1 /\ o = 0 /\ Torn0(block)
        <5>1. part'[0][b].ok = FALSE /\ part'[1][b] = part[1][b]
          BY <3>3, <3>5, <4>1
        <5>. QED  BY <1>1, <3>1, <4>1, <5>1 DEF Torn0
      <4>2. CASE p = 0 /\ o = 1 /\ (Ahead(block) \/ Torn1(block))
        <5>1. part'[1][b].ok = FALSE /\ part'[0][b] = part[0][b]
          BY <3>3, <3>5, <4>2
        <5>. QED  BY <1>1, <3>1, <4>2, <5>1 DEF Torn1, Ahead
      <4>. QED  BY <3>2, <4>1, <4>2
    <3>7. \A q \in Partitions : part'[q][b].ok => part'[q][b].cnt <= MaxCounter
      <4>1. \A q \in Partitions : q = p \/ q = o
        BY <3>2 DEF Partitions
      <4>2. part[p][b].ok => part[p][b].cnt <= MaxCounter
        BY <1>1 DEF CountersInv
      <4>3. part'[o][b].ok = FALSE
        BY <3>3, <3>5
      <4>. QED  BY <3>5, <4>1, <4>2, <4>3
    <3>8. CopiesInv' /\ \A a \in Blocks \ {b} : (Settled(a) => Settled(a)')
      <4>1. Valid(b)'
        BY <3>6 DEF Valid
      <4>2. \A a \in Blocks : a # b => saved'[a] = saved[a] /\ pending'[a] = pending[a]
        BY <1>1
      <4>3. CopiesInv
        BY <1>1
      <4>. QED  BY <3>5, <3>7, <4>1, <4>2, <4>3, OneBlock
    <3>9. \A a \in Blocks : a < block' => Settled(a)'
      BY SMTT(60), <1>1, <3>1, <3>4, <3>8 DEF Blocks
    <3>10. (partition' = 1 /\ Torn0(block)') \/ (partition' = 0 /\ Torn1(block)')
      BY <3>1, <3>4, <3>6 DEF Torn0, Torn1
    <3>11. RepairInv' /\ SaveInv'
      BY <1>4, <3>4, <3>9, <3>10 DEF RepairInv, SaveInv, Saving
    <3>. QED  BY <3>8, <3>11 DEF Relations
  <2>. QED  BY <2>1, <2>2
<1>. QED  BY <1>3, <1>4

LEMMA RepairedInv ==
  ASSUME TypeOK, Relations, Repaired
  PROVE  Relations'
<1>1. /\ pc = "repair" /\ block \in Blocks /\ block \notin NoFeedback /\ CopiesInv /\ CountersInv
      /\ \A b \in Blocks : b < block => Settled(b)
      /\ (partition = 1 /\ Torn0(block)) \/ (partition = 0 /\ Torn1(block))
      /\ part \in [Partitions -> [Blocks -> CopyType]] /\ 0 \in Partitions /\ 1 \in Partitions
      /\ saved \in [Blocks -> Data \cup {None}] /\ pending \in [Blocks -> Data \cup {None}]
  BY PartType DEF Repaired, TypeOK, Relations, CopiesInv, RepairInv, Partitions
<1>2. PICK b \in Blocks \ NoFeedback : b = block
  BY <1>1
<1>3. PICK p \in Partitions, o \in Partitions :
        p = partition /\ o = 1 - p /\ o # p /\ part[p][b].ok /\ {p, o} = {0, 1}
  BY SMTT(60), <1>1, <1>2 DEF Torn0, Torn1, Partitions
<1>4. PICK c \in CopyType : c = part[p][b]
  BY <1>1
<1>5. /\ Store(o, b, c) /\ NextBlock
      /\ saved' = [saved EXCEPT ![b] = c.data] /\ pending' = [pending EXCEPT ![b] = c.data]
  BY <1>2, <1>3, <1>4 DEF Repaired
<1>6. /\ part'[o][b] = c /\ part'[p][b] = c
      /\ \A q \in Partitions, a \in Blocks : a # b => part'[q][a] = part[q][a]
  BY SMTT(60), <1>1, <1>3, <1>4, <1>5, StoreEffect
<1>7. part'[0][b] = c /\ part'[1][b] = c
  BY <1>3, <1>6
<1>8. saved'[b] = c.data /\ pending'[b] = c.data
  BY <1>1, <1>5
<1>9. Agree(b)'
  BY <1>3, <1>4, <1>7, <1>8 DEF Agree
<1>10. CopiesInv' /\ \A a \in Blocks \ {b} : (Settled(a) => Settled(a)')
  <2>1. Valid(b)'
    BY <1>9 DEF Valid, Settled
  <2>2. \A a \in Blocks : a # b => saved'[a] = saved[a] /\ pending'[a] = pending[a]
    BY <1>1, <1>5
  <2>3. \A q \in Partitions : part'[q][b].ok => part'[q][b].cnt <= MaxCounter
    BY SMTT(60), <1>1, <1>3, <1>4, <1>7 DEF CountersInv, Partitions
  <2>4. CopiesInv
    BY <1>1
  <2>. QED  BY <1>6, <2>1, <2>2, <2>3, <2>4, OneBlock
<1>11. \A a \in Blocks : a <= block => Settled(a)'
  <2>1. \A a \in Blocks : a <= block => a = b \/ a < block
    BY SMTT(60), <1>2 DEF Blocks
  <2>2. Settled(b)'
    BY <1>9 DEF Settled
  <2>3. \A a \in Blocks : a < block => a \in Blocks \ {b} /\ Settled(a)
    BY SMTT(60), <1>1, <1>2 DEF Blocks
  <2>. QED  BY <1>10, <2>1, <2>2, <2>3
<1>12. SaveInv' /\ RepairInv'
  BY <1>1, <1>5, <1>11, NextBlockInv
<1>. QED  BY <1>10, <1>12 DEF Relations

LEMMA HandleEventInv ==
  ASSUME MaxCounter < Half, TypeOK, Relations, HandleEvent
  PROVE  Relations'
<1>1. /\ pc = "watch" /\ CopiesInv /\ CountersInv /\ \A b \in Blocks : Settled(b)
      /\ part \in [Partitions -> [Blocks -> CopyType]] /\ 0 \in Partitions /\ 1 \in Partitions
      /\ pending \in [Blocks -> Data \cup {None}] /\ saved' = saved
  <2>1. pc = "watch" /\ saved' = saved
    BY DEF HandleEvent
  <2>2. part \in [Partitions -> [Blocks -> CopyType]] /\ 0 \in Partitions /\ 1 \in Partitions
    BY PartType DEF Partitions
  <2>3. pending \in [Blocks -> Data \cup {None}]
    BY DEF TypeOK
  <2>4. CopiesInv /\ CountersInv /\ \A b \in Blocks : Settled(b)
    BY <2>1 DEF Relations, CopiesInv, RepairInv
  <2>. QED  BY <2>1, <2>2, <2>3, <2>4
<1>2. PICK b \in Blocks : b = Head(events).block
  BY EventTypes
<1>3. PICK next \in Nat : next = Increase(part[0][b].cnt)
  BY <1>2, EventTypes
<1>4. CASE b \in NoFeedback
  <2>1. UNCHANGED <<part, pc, block, pending>>
    BY <1>2, <1>4 DEF HandleEvent
  <2>2. CopiesInv' /\ \A a \in Blocks : (Settled(a) => Settled(a)')
    BY <1>1, <2>1, SameCopies
  <2>3. SaveInv' /\ RepairInv'
    BY <1>1, <2>1, <2>2 DEF SaveInv, Saving, RepairInv
  <2>. QED  BY <2>2, <2>3 DEF Relations
<1>5. CASE b \notin NoFeedback
  <2>1. /\ next <= MaxCounter /\ pc' = "write0" /\ block' = b /\ counter' = next
        /\ Store(0, b, Copy(FALSE, next, Torn)) /\ pending' = [pending EXCEPT ![b] = buf']
    BY <1>2, <1>3, <1>5 DEF HandleEvent
  <2>2. PICK c \in CopyType : c.ok = FALSE /\ c = Copy(FALSE, next, Torn)
    <3>1. next \in 0..(2 * Half - 1)
      BY SMTT(60), <2>1
    <3>. QED  BY <3>1, TornTyped
  <2>3. /\ part'[0][b] = c /\ part'[1][b] = part[1][b]
        /\ \A q \in Partitions, a \in Blocks : a # b => part'[q][a] = part[q][a]
    <3>1. Store(0, b, c) /\ 1 # 0
      BY SMTT(60), <2>1, <2>2 DEF Store
    <3>. QED  BY SMTT(60), <1>1, <3>1, StoreEffect
  <2>4. Blank(b)' \/ (Torn0(b)' /\ next = part'[1][b].cnt + 1)
    <3>1. CASE Blank(b)
      BY <1>1, <2>2, <2>3, <3>1 DEF Blank
    <3>2. CASE Agree(b)
      <4>1. Torn0(b)'
        BY <1>1, <2>2, <2>3, <3>2 DEF Agree, Torn0
      <4>2. part[0][b].cnt <= MaxCounter /\ part[0][b].cnt \in 0..(2 * Half - 1)
        BY <1>1, <3>2, PartType DEF CountersInv, Agree
      <4>3. next = part[0][b].cnt + 1
        BY SMTT(60), <1>3, <4>2 DEF Increase
      <4>. QED  BY <2>3, <3>2, <4>1, <4>3 DEF Agree
    <3>. QED  BY <1>1, <3>1, <3>2 DEF Settled
  <2>5. CopiesInv' /\ \A a \in Blocks \ {b} : (Settled(a) => Settled(a)')
    <3>1. Valid(b)' /\ b \in Blocks \ NoFeedback
      BY <1>5, <2>4 DEF Valid, Settled
    <3>2. \A a \in Blocks : a # b => saved'[a] = saved[a] /\ pending'[a] = pending[a]
      BY <1>1, <2>1
    <3>3. \A q \in Partitions : part'[q][b].ok => part'[q][b].cnt <= MaxCounter
      BY <1>1, <2>2, <2>3 DEF CountersInv, Partitions
    <3>4. CopiesInv
      BY <1>1
    <3>. QED  BY <2>3, <3>1, <3>2, <3>3, <3>4, OneBlock
  <2>6. pending'[b] = buf'
    BY <1>1, <2>1
  <2>7. Blank(block)' \/ (Torn0(block)' /\ counter' = part'[1][block'].cnt + 1)
    BY <2>1, <2>4 DEF Blank, Torn0
  <2>8. SaveInv'
    BY <1>1, <1>5, <2>1, <2>5, <2>6, <2>7 DEF SaveInv, Saving
  <2>9. RepairInv'
    BY <2>1 DEF RepairInv
  <2>. QED  BY <2>5, <2>8, <2>9 DEF Relations
<1>. QED  BY <1>4, <1>5

\* The steps of a save that follow the first.
LEMMA SaveStepsInv ==
  ASSUME MaxCounter < Half, TypeOK, Relations, Written0 \/ Write1 \/ Written1
  PROVE  Relations'
<1>1. /\ Saving /\ CopiesInv /\ CountersInv /\ block \in Blocks /\ block \notin NoFeedback
      /\ counter <= MaxCounter /\ pending[block] = buf
      /\ buf \in Data /\ counter \in 0..(2 * Half - 1)
      /\ \A b \in Blocks \ {block} : Settled(b)
      /\ part \in [Partitions -> [Blocks -> CopyType]] /\ 0 \in Partitions /\ 1 \in Partitions
      /\ saved \in [Blocks -> Data \cup {None}]
  BY PartType DEF Written0, Write1, Written1, Saving, SaveInv, TypeOK, Relations, CopiesInv,
                  Partitions
<1>2. PICK b \in Blocks \ NoFeedback : b = block
  BY <1>1
<1>3. UNCHANGED <<block, counter, buf, pending>>
  BY DEF Written0, Write1, Written1
<1>4. PICK full \in CopyType :
        full = Copy(TRUE, counter, buf) /\ full.ok /\ full.cnt = counter /\ full.data = buf
  BY <1>1, FullTyped
<1>5. PICK torn \in CopyType : torn = Copy(FALSE, counter, Torn) /\ torn.ok = FALSE
  BY <1>1, TornTyped
<1>6. ASSUME Valid(b)', \A a \in Blocks : a # b => saved'[a] = saved[a],
             \A q \in Partitions, a \in Blocks : a # b => part'[q][a] = part[q][a],
             part'[0][b].ok => part'[0][b].cnt <= MaxCounter,
             part'[1][b].ok => part'[1][b].cnt <= MaxCounter
      PROVE  CopiesInv' /\ \A a \in Blocks \ {b} : Settled(a)'
  <2>1. \A a \in Blocks : a # b => saved'[a] = saved[a] /\ pending'[a] = pending[a]
    BY <1>3, <1>6
  <2>2. \A q \in Partitions : part'[q][b].ok => part'[q][b].cnt <= MaxCounter
    BY <1>6 DEF Partitions
  <2>3. CopiesInv' /\ \A a \in Blocks \ {b} : (Settled(a) => Settled(a)')
    <3>1. CopiesInv
      BY <1>1
    <3>. QED  BY <1>6, <2>1, <2>2, <3>1, OneBlock
  <2>. QED  BY <1>1, <1>2, <2>3
<1>7. /\ part[0][b].ok => part[0][b].cnt <= MaxCounter
      /\ part[1][b].ok => part[1][b].cnt <= MaxCounter
  BY <1>1 DEF CountersInv
<1>8. CASE Written0
  <2>1. /\ pc = "write0" /\ pc' = "between" /\ Store(0, b, full) /\ saved' = saved /\ 1 # 0
        /\ Blank(b) \/ (Torn0(b) /\ counter = part[1][b].cnt + 1)
    <3>1. pc = "write0" /\ pc' = "between" /\ saved' = saved
      BY <1>8 DEF Written0
    <3>2. Store(0, b, full)
      BY <1>2, <1>4, <1>8 DEF Written0, Store
    <3>3. Blank(block) \/ (Torn0(block) /\ counter = part[1][block].cnt + 1)
      BY <1>1, <3>1 DEF Relations, SaveInv, Saving
    <3>4. Blank(b) \/ (Torn0(b) /\ counter = part[1][b].cnt + 1)
      BY <1>2, <3>3 DEF Blank, Torn0
    <3>. QED  BY SMTT(60), <3>1, <3>2, <3>4
  <2>2. /\ part'[0][b] = full /\ part'[1][b] = part[1][b]
        /\ \A q \in Partitions, a \in Blocks : a # b => part'[q][a] = part[q][a]
    BY SMTT(60), <1>1, <2>1, StoreEffect
  <2>3. Ahead(b)' \/ Torn1(b)'
    <3>1. part'[0][b].ok /\ part'[0][b].data = pending'[b] /\ part'[0][b].cnt = counter
      BY <1>1, <1>2, <1>3, <1>4, <2>2
    <3>2. CASE Blank(b)
      BY <2>2, <3>1, <3>2 DEF Blank, Torn1
    <3>3. CASE Torn0(b) /\ counter = part[1][b].cnt + 1
      BY <2>1, <2>2, <3>1, <3>3 DEF Torn0, Ahead
    <3>. QED  BY <2>1, <3>2, <3>3
  <2>4. CopiesInv' /\ \A a \in Blocks \ {b} : Settled(a)'
    BY <1>1, <1>4, <1>6, <1>7, <2>1, <2>2, <2>3 DEF Valid
  <2>5. part'[0][block'] = Copy(TRUE, counter', buf') /\ (Ahead(block)' \/ Torn1(block)')
    BY <1>2, <1>3, <1>4, <2>2, <2>3 DEF Ahead, Torn1
  <2>6. Copy(TRUE, counter, buf)' = Copy(TRUE, counter', buf')
    BY DEF Copy
  <2>7. SaveInv' /\ RepairInv'
    BY <1>1, <1>2, <1>3, <2>1, <2>4, <2>5, <2>6 DEF SaveInv, Saving, RepairInv
  <2>. QED  BY <2>4, <2>7 DEF Relations
<1>9. CASE Write1
  <2>1. /\ pc = "between" /\ pc' = "write1" /\ Store(1, b, torn) /\ saved' = saved /\ 0 # 1
        /\ part[0][b] = full
    <3>1. pc = "between" /\ pc' = "write1" /\ saved' = saved
      BY <1>9 DEF Write1
    <3>2. Store(1, b, torn)
      BY <1>2, <1>5, <1>9 DEF Write1, Store
    <3>3. part[0][block] = Copy(TRUE, counter, buf)
      BY <1>1, <3>1 DEF Relations, SaveInv
    <3>. QED  BY SMTT(60), <1>2, <1>4, <3>1, <3>2, <3>3
  <2>2. /\ part'[1][b] = torn /\ part'[0][b] = full
        /\ \A q \in Partitions, a \in Blocks : a # b => part'[q][a] = part[q][a]
    BY SMTT(60), <1>1, <2>1, StoreEffect
  <2>3. Torn1(b)'
    BY <1>1, <1>2, <1>3, <1>4, <1>5, <2>2 DEF Torn1
  <2>4. CopiesInv' /\ \A a \in Blocks \ {b} : Settled(a)'
    BY <1>1, <1>4, <1>5, <1>6, <2>1, <2>2, <2>3 DEF Valid
  <2>5. part'[0][block'] = Copy(TRUE, counter', buf') /\ Torn1(block)'
    BY <1>2, <1>3, <1>4, <2>2, <2>3 DEF Torn1
  <2>6. Copy(TRUE, counter, buf)' = Copy(TRUE, counter', buf')
    BY DEF Copy
  <2>7. SaveInv' /\ RepairInv'
    BY <1>1, <1>2, <1>3, <2>1, <2>4, <2>5, <2>6 DEF SaveInv, Saving, RepairInv
  <2>. QED  BY <2>4, <2>7 DEF Relations
<1>10. CASE Written1
  <2>1. /\ pc = "write1" /\ pc' = "watch" /\ Store(1, b, full) /\ 0 # 1
        /\ part[0][b] = full /\ saved' = [saved EXCEPT ![b] = buf]
    <3>1. pc = "write1" /\ pc' = "watch" /\ saved' = [saved EXCEPT ![b] = buf]
      BY <1>2, <1>10 DEF Written1
    <3>2. Store(1, b, full)
      BY <1>2, <1>4, <1>10 DEF Written1, Store
    <3>3. part[0][block] = Copy(TRUE, counter, buf)
      BY <1>1, <3>1 DEF Relations, SaveInv
    <3>4. part[0][b] = full
      BY <1>2, <1>4, <3>3
    <3>. QED  BY SMTT(60), <3>1, <3>2, <3>4
  <2>2. /\ part'[1][b] = full /\ part'[0][b] = full
        /\ \A q \in Partitions, a \in Blocks : a # b => part'[q][a] = part[q][a]
    BY SMTT(60), <1>1, <2>1, StoreEffect
  <2>3. Agree(b)'
    BY <1>1, <1>2, <1>3, <1>4, <2>1, <2>2 DEF Agree
  <2>4. CopiesInv' /\ \A a \in Blocks \ {b} : Settled(a)'
    BY <1>1, <1>4, <1>6, <2>1, <2>2, <2>3 DEF Valid, Settled
  <2>5. \A a \in Blocks : Settled(a)'
    BY <2>3, <2>4 DEF Settled
  <2>6. SaveInv' /\ RepairInv'
    <3>1. ~Saving' /\ pc' = "watch"
      BY <2>1 DEF Saving
    <3>2. SaveInv'
      BY <3>1 DEF SaveInv
    <3>. QED  BY <2>5, <3>1, <3>2 DEF RepairInv
  <2>. QED  BY <2>4, <2>6 DEF Relations
<1>. QED  BY <1>8, <1>9, <1>10

LEMMA NextData ==
  ASSUME MaxCounter < Half
  PROVE  DataInv /\ [Next]_vars => DataInv'
<1>. SUFFICES ASSUME DataInv, [Next]_vars PROVE DataInv'
  OBVIOUS
<1>1. TypeOK /\ Relations
  BY DEF DataInv
<1>2. CASE Next
  <2>1. TypeOK'
    BY <1>1, <1>2, NextTypes
  <2>2. Relations'
    BY <1>1, <1>2, OutsideInv, InitBlockInv, RepairedInv, HandleEventInv, SaveStepsInv
       DEF Next, Daemon
  <2>. QED  BY <2>1, <2>2 DEF DataInv
<1>3. CASE UNCHANGED vars
  <2>1. UNCHANGED <<part, pc, block, partition, buf, counter, saved, pending>>
    BY <1>3 DEF vars
  <2>2. TypeOK'
    BY <1>1, <1>3 DEF vars, TypeOK
  <2>3. CopiesInv'
    BY <1>1, <2>1, SameCopies DEF Relations
  <2>4. SaveInv'
    BY <1>1, <2>1
       DEF Relations, SaveInv, Saving, Settled, Blank, Agree, Torn0, Ahead, Torn1
  <2>5. RepairInv'
    BY <1>1, <2>1 DEF Relations, RepairInv, Settled, Blank, Agree, Torn0, Torn1
  <2>. QED  BY <2>2, <2>3, <2>4, <2>5 DEF DataInv, Relations
<1>. QED  BY <1>2, <1>3

LEMMA DataInvariance ==
  ASSUME MaxCounter < Half
  PROVE  Spec => []DataInv
<1>1. Init => DataInv
  BY InitTypes, InitRelations DEF DataInv, Relations
<1>2. DataInv /\ [Next]_vars => DataInv'
  BY NextData
<1>. QED  BY <1>1, <1>2, PTL DEF Spec

\* What a restart restores, by the invariant.
LEMMA RestoredData ==
  ASSUME MaxCounter < Half, DataInv, NEW b \in Blocks, saved[b] # None
  PROVE  Restored(b).ok /\ Restored(b).data \in {saved[b], pending[b]}
<1>1. TypeOK /\ CountersInv /\ NoFeedbackInv /\ Valid(b) /\ ~Blank(b)
  BY DEF DataInv, Relations, CopiesInv, Blank
<1>2. CASE b \in NoFeedback
  <2>1. Agree(b)
    BY <1>1, <1>2 DEF NoFeedbackInv
  <2>2. ChooseOf(b) \in {0, 1}
    BY DEF ChooseOf
  <2>. QED  BY <2>1, <2>2 DEF Restored, Agree
<1>3. CASE b \notin NoFeedback
  <2>1. b \in Blocks \ NoFeedback
    BY <1>3
  <2>2. /\ Agree(b) \/ Torn0(b) => ChooseOf(b) = 1
        /\ Ahead(b) \/ Torn1(b) => ChooseOf(b) = 0
    BY <1>1, <2>1, Chosen
  <2>3. Agree(b) \/ Torn0(b) => part[1][b].ok /\ part[1][b].data = saved[b]
    BY DEF Agree, Torn0
  <2>4. Ahead(b) \/ Torn1(b) => part[0][b].ok /\ part[0][b].data = pending[b]
    BY DEF Ahead, Torn1
  <2>5. Agree(b) \/ Torn0(b) \/ Ahead(b) \/ Torn1(b)
    BY <1>1 DEF Valid, Settled
  <2>. QED  BY <2>2, <2>3, <2>4, <2>5 DEF Restored
<1>. QED  BY <1>2, <1>3

-----------------------------------------------------------------------------
\* However many files, changes and power losses there are, a restart finds a
\* valid copy of every block that was ever saved, while the counters stay
\* positive (write_partition, init_productinfo).
THEOREM AlwaysIntact ==
  ASSUME MaxCounter < Half
  PROVE  Spec => []Intact
<1>1. DataInv => Intact
  BY RestoredData DEF Intact
<1>. QED  BY <1>1, DataInvariance, PTL

\* Under the same condition a restart restores the last complete save or the
\* one that power loss interrupted, never an older one.
THEOREM AlwaysOldOrNew ==
  ASSUME MaxCounter < Half
  PROVE  Spec => []OldOrNew
<1>1. DataInv => OldOrNew
  BY RestoredData DEF OldOrNew
<1>. QED  BY <1>1, DataInvariance, PTL

\* Under the same condition the copies agree whenever the daemon waits for an
\* event, so write_partition takes its counter from a valid copy.
THEOREM AlwaysAgree ==
  ASSUME MaxCounter < Half
  PROVE  Spec => []CopiesAgree
<1>1. DataInv => CopiesAgree
  BY DEF DataInv, Relations, RepairInv, CopiesAgree, Settled, Blank, Agree
<1>. QED  BY <1>1, DataInvariance, PTL

\* Under the same condition init_productinfo repairs only from a valid copy.
THEOREM AlwaysRightToError ==
  ASSUME MaxCounter < Half
  PROVE  Spec => []RightToError
<1>1. DataInv => RightToError
  BY DEF DataInv, Relations, RepairInv, RightToError, Torn0, Torn1
<1>. QED  BY <1>1, DataInvariance, PTL

\* Under the same condition every step keeps the types: the counters fit in an
\* int, the buffer holds a file's content, the queue holds inotify events.
THEOREM AlwaysTyped ==
  ASSUME MaxCounter < Half
  PROVE  Spec => []TypeOK
<1>1. DataInv => TypeOK
  BY DEF DataInv
<1>. QED  BY <1>1, DataInvariance, PTL
-----------------------------------------------------------------------------
(***************************************************************************)
(* Whose content a block holds.  All files are read into one buffer, and   *)
(* read_productinfo leaves it as it is when the file cannot be opened: the *)
(* invariant says that, without deletions, a file with an event is there.  *)
(***************************************************************************)
Own(b) == Content(b) \cup {Erased}
OwnCopies == \A p \in Partitions, b \in Blocks : part[p][b].ok => part[p][b].data \in Own(b)
OwnFiles == \A b \in Blocks : file[b] \in Own(b) \cup {Absent, Empty}
OwnEvents ==
    \A j \in 1..Len(events) : events[j].kind = "MODIFY" /\ file[events[j].block] # Absent
OwnBuffer == Saving => buf \in Own(block)
OwnInv == ~deletes => OwnCopies /\ OwnFiles /\ OwnEvents /\ OwnBuffer

LEMMA EventBlocks ==
  ASSUME events \in Seq(Events)
  PROVE  \A j \in 1..Len(events) : events[j].block \in Blocks
<1>1. \A j \in 1..Len(events) : events[j] \in Events
  BY SMTT(60)
<1>2. \A e \in Events : e.block \in Blocks
  BY DEF Events
<1>. QED  BY <1>1, <1>2

LEMMA OwnValues == Absent # Empty /\ \A b : \A d \in Own(b) : d # Absent
<1>1. Absent # Empty /\ Absent # Erased
  BY DEF Absent, Empty, Erased
<1>2. ASSUME NEW b, NEW d \in Content(b) PROVE d # Absent
  <2>1. PICK v \in Versions : d = <<b, v>>
    BY SMTT(60), <1>2 DEF Content
  <2>2. Len(d) = 2 /\ Len(Absent) = 1
    BY <2>1 DEF Absent
  <2>. QED  BY SMTT(60), <2>2
<1>. QED  BY <1>1, <1>2 DEF Own

\* A copy is written: torn, or with content of its own file.
LEMMA OwnStore ==
  ASSUME part \in [Partitions -> [Blocks -> CopyType]], OwnCopies,
         NEW p \in Partitions, NEW b \in Blocks, NEW c \in CopyType, Store(p, b, c),
         c.ok => c.data \in Own(b)
  PROVE  OwnCopies'
<1>1. /\ part'[p][b] = c
      /\ \A q \in Partitions : q # p => part'[q][b] = part[q][b]
      /\ \A q \in Partitions, a \in Blocks : a # b => part'[q][a] = part[q][a]
  BY SMTT(60), StoreEffect
<1>2. ASSUME NEW q \in Partitions, NEW a \in Blocks, part'[q][a].ok
      PROVE  part'[q][a].data \in Own(a)
  <2>1. CASE a = b /\ q = p
    BY <1>1, <1>2, <2>1
  <2>2. CASE ~(a = b /\ q = p)
    <3>1. part'[q][a] = part[q][a]
      BY <1>1, <2>2
    <3>. QED  BY <1>2, <3>1 DEF OwnCopies
  <2>. QED  BY <2>1, <2>2
<1>. QED  BY <1>2 DEF OwnCopies, Own, Content

\* The copy that a restart restores from is valid, if any is.
LEMMA ChosenOk ==
  ASSUME MaxCounter < Half, TypeOK, CountersInv, NEW b \in Blocks,
         ~(CheckBlock(0, b) = -1 /\ CheckBlock(1, b) = -1)
  PROVE  ChooseOf(b) \in Partitions /\ part[ChooseOf(b)][b].ok
<1>1. /\ part[0][b].ok => part[0][b].cnt <= MaxCounter
      /\ part[1][b].ok => part[1][b].cnt <= MaxCounter
  BY DEF CountersInv, Partitions
<1>2. part[0][b].cnt \in 0..(2 * Half - 1) /\ part[1][b].cnt \in 0..(2 * Half - 1)
  BY PartType DEF Partitions
<1>3. /\ part[0][b].ok => CheckBlock(0, b) \in Nat
      /\ part[1][b].ok => CheckBlock(1, b) \in Nat
      /\ ~part[0][b].ok => CheckBlock(0, b) = -1
      /\ ~part[1][b].ok => CheckBlock(1, b) = -1
  BY SMTT(60), <1>1, <1>2 DEF CheckBlock, AsInt
<1>. QED  BY SMTT(60), <1>3 DEF ChooseOf, Partitions

\* The daemon's steps at start-up.
LEMMA OwnStart ==
  ASSUME MaxCounter < Half, DataInv, OwnCopies, OwnFiles, OwnEvents, Boot \/ InitBlock \/ Repaired
  PROVE  OwnCopies' /\ OwnFiles' /\ OwnEvents' /\ OwnBuffer'
<1>1. /\ TypeOK /\ CountersInv /\ block \in Blocks /\ partition \in Partitions
      /\ part \in [Partitions -> [Blocks -> CopyType]]
      /\ file \in [Blocks -> Data \cup {Absent, Empty}]
  BY PartType DEF DataInv, Relations, CopiesInv, TypeOK
<1>2. OwnBuffer' /\ events' = events
  BY DEF OwnBuffer, Saving, Boot, InitBlock, Repaired, NextBlock
<1>3. CASE Boot
  <2>1. UNCHANGED <<part, file>>
    BY <1>3 DEF Boot
  <2>2. OwnCopies' /\ OwnFiles'
    BY <2>1 DEF OwnCopies, OwnFiles, Own, Content
  <2>3. OwnEvents'
    BY <1>2, <2>1 DEF OwnEvents
  <2>. QED  BY <1>2, <2>2, <2>3
<1>4. CASE InitBlock
  <2>. DEFINE p == ChooseOf(block)
  <2>1. p \in Partitions /\ 1 - p \in Partitions
    BY SMTT(60) DEF ChooseOf, Partitions
  <2>2. OwnCopies'
    <3>1. part' = part \/ Store(1 - p, block, Copy(FALSE, part[p][block].cnt, Torn))
      BY <1>4 DEF InitBlock
    <3>2. CASE part' = part
      BY <3>2 DEF OwnCopies
    <3>3. CASE Store(1 - p, block, Copy(FALSE, part[p][block].cnt, Torn))
      <4>1. PICK c \in CopyType : c.ok = FALSE /\ c = Copy(FALSE, part[p][block].cnt, Torn)
        BY <1>1, <2>1, TornTyped, PartType
      <4>2. Store(1 - p, block, c)
        BY <3>3, <4>1
      <4>. QED  BY <1>1, <2>1, <4>1, <4>2, OwnStore
    <3>. QED  BY <3>1, <3>2, <3>3
  <2>3. file' = file \/ (/\ file' = [file EXCEPT ![block] = part[p][block].data]
                         /\ ~(CheckBlock(0, block) = -1 /\ CheckBlock(1, block) = -1))
    BY <1>4 DEF InitBlock
  <2>4. CASE file' = file
    BY <1>2, <2>2, <2>4 DEF OwnFiles, OwnEvents
  <2>5. CASE /\ file' = [file EXCEPT ![block] = part[p][block].data]
             /\ ~(CheckBlock(0, block) = -1 /\ CheckBlock(1, block) = -1)
    <3>1. part[p][block].data \in Own(block)
      BY <1>1, <2>1, <2>5, ChosenOk DEF OwnCopies
    <3>2. /\ file'[block] = part[p][block].data
          /\ \A b \in Blocks : b # block => file'[b] = file[b]
      BY <1>1, <2>5
    <3>3. OwnFiles'
      BY <3>1, <3>2 DEF OwnFiles, Own, Content
    <3>4. \A b \in Blocks : file[b] # Absent => file'[b] # Absent
      BY <3>1, <3>2, OwnValues
    <3>5. OwnEvents'
      <4>0. events \in Seq(Events)
        BY <1>1 DEF TypeOK, Events
      <4>1. \A j \in 1..Len(events) : events[j].block \in Blocks
        BY <4>0, EventBlocks
      <4>. QED  BY <1>2, <3>4, <4>1 DEF OwnEvents
    <3>. QED  BY <1>2, <2>2, <3>3, <3>5
  <2>. QED  BY <2>3, <2>4, <2>5
<1>5. CASE Repaired
  <2>1. 1 - partition \in Partitions /\ part[partition][block] \in CopyType
    BY SMTT(60), <1>1, PartType DEF Partitions
  <2>2. Store(1 - partition, block, part[partition][block])
    BY <1>5 DEF Repaired
  <2>3. part[partition][block].ok => part[partition][block].data \in Own(block)
    BY <1>1 DEF OwnCopies
  <2>4. OwnCopies'
    BY <1>1, <2>1, <2>2, <2>3, OwnStore
  <2>. QED  BY <1>2, <1>5, <2>4 DEF Repaired, OwnFiles, OwnEvents
<1>. QED  BY <1>3, <1>4, <1>5

\* The daemon reads a file, which is there, and saves it.
LEMMA OwnSave ==
  ASSUME MaxCounter < Half, DataInv, OwnCopies, OwnFiles, OwnEvents, OwnBuffer,
         HandleEvent \/ Written0 \/ Write1 \/ Written1
  PROVE  OwnCopies' /\ OwnFiles' /\ OwnEvents' /\ OwnBuffer'
<1>1. /\ TypeOK /\ block \in Blocks /\ buf \in Data /\ counter \in 0..(2 * Half - 1)
      /\ part \in [Partitions -> [Blocks -> CopyType]] /\ 0 \in Partitions /\ 1 \in Partitions
  BY PartType DEF DataInv, TypeOK, Partitions
<1>2. file' = file /\ OwnFiles'
  BY DEF HandleEvent, Written0, Write1, Written1, OwnFiles
<1>3. CASE HandleEvent
  <2>1. PICK b \in Blocks : b = Head(events).block
    BY <1>1, <1>3, EventTypes
  <2>2. PICK next \in Nat : next = Increase(part[0][b].cnt)
    BY <1>1, <1>3, <2>1, EventTypes
  <2>3. /\ events \in Seq(Events) /\ events # <<>> /\ events' = Tail(events)
        /\ Head(events) = events[1] /\ 1 \in 1..Len(events)
    <3>1. events \in Seq(Events) /\ events # <<>> /\ events' = Tail(events)
      BY <1>1, <1>3, EventTypes
    <3>. QED  BY SMTT(60), <3>1
  <2>4. Head(events).kind = "MODIFY" /\ file[b] # Absent
    BY <2>1, <2>3 DEF OwnEvents
  <2>5. buf' \in Own(b)
    <3>1. buf' = ReadFile(b)
      BY <1>3, <2>1, <2>4 DEF HandleEvent
    <3>2. file[b] \in Own(b) \cup {Empty}
      BY <2>4 DEF OwnFiles
    <3>. QED  BY <2>4, <3>1, <3>2 DEF ReadFile, Own
  <2>6. OwnEvents'
    <3>1. /\ Len(events') = Len(events) - 1 /\ Len(events) \in Nat
          /\ \A j \in 1..Len(events') : events'[j] = events[j + 1]
      BY SMTT(60), <2>3
    <3>2. \A j \in 1..Len(events') : j + 1 \in 1..Len(events)
      BY SMTT(60), <3>1
    <3>. QED  BY SMTT(60), <1>2, <3>1, <3>2 DEF OwnEvents
  <2>7. CASE b \in NoFeedback
    <3>1. UNCHANGED <<part, pc, block>> /\ pc = "watch"
      BY <1>3, <2>1, <2>7 DEF HandleEvent
    <3>. QED  BY <1>2, <2>6, <3>1 DEF OwnCopies, OwnBuffer, Saving
  <2>8. CASE b \notin NoFeedback
    <3>1. next <= MaxCounter /\ block' = b /\ Store(0, b, Copy(FALSE, next, Torn))
      BY <1>3, <2>1, <2>2, <2>8 DEF HandleEvent
    <3>2. PICK c \in CopyType : c.ok = FALSE /\ c = Copy(FALSE, next, Torn)
      <4>1. next \in 0..(2 * Half - 1)
        BY SMTT(60), <3>1
      <4>. QED  BY <4>1, TornTyped
    <3>3. Store(0, b, c)
      BY <3>1, <3>2
    <3>4. OwnCopies'
      BY <1>1, <3>2, <3>3, OwnStore
    <3>. QED  BY <1>2, <2>5, <2>6, <3>1, <3>4 DEF OwnBuffer
  <2>. QED  BY <2>7, <2>8
<1>4. CASE Written0 \/ Write1 \/ Written1
  <2>1. /\ UNCHANGED <<events, buf, block>> /\ buf \in Own(block)
        /\ \E p \in Partitions : \/ Store(p, block, Copy(TRUE, counter, buf))
                                 \/ Store(p, block, Copy(FALSE, counter, Torn))
    BY <1>1, <1>4 DEF Written0, Write1, Written1, OwnBuffer, Saving
  <2>2. PICK p \in Partitions : \/ Store(p, block, Copy(TRUE, counter, buf))
                                \/ Store(p, block, Copy(FALSE, counter, Torn))
    BY <2>1
  <2>3. PICK c \in CopyType : Store(p, block, c) /\ (c.ok => c.data = buf)
    <3>1. CASE Store(p, block, Copy(TRUE, counter, buf))
      BY <1>1, <3>1, FullTyped
    <3>2. CASE Store(p, block, Copy(FALSE, counter, Torn))
      BY <1>1, <3>2, TornTyped
    <3>. QED  BY <2>2, <3>1, <3>2
  <2>4. c.ok => c.data \in Own(block)
    BY <2>1, <2>3
  <2>5. OwnCopies'
    BY <1>1, <2>3, <2>4, OwnStore
  <2>6. OwnEvents'
    BY <1>2, <2>1 DEF OwnEvents
  <2>7. OwnBuffer'
    BY <2>1 DEF OwnBuffer
  <2>. QED  BY <1>2, <2>5, <2>6, <2>7
<1>. QED  BY <1>3, <1>4

\* The applications and the power.
LEMMA OwnOutside ==
  ASSUME DataInv, OwnCopies, OwnFiles, OwnEvents, OwnBuffer,
         PowerLoss \/ \E b \in Blocks : AppWrite(b)
  PROVE  OwnCopies' /\ OwnFiles' /\ OwnEvents' /\ OwnBuffer'
<1>1. /\ file \in [Blocks -> Data \cup {Absent, Empty}] /\ events \in Seq(Events)
  BY DEF DataInv, TypeOK, Events
<1>2. CASE PowerLoss
  <2>1. UNCHANGED <<part, file>> /\ pc' = "down" /\ events' = <<>>
    BY <1>2 DEF PowerLoss
  <2>2. OwnCopies' /\ OwnFiles'
    BY <2>1 DEF OwnCopies, OwnFiles, Own, Content
  <2>3. OwnEvents' /\ OwnBuffer'
    BY SMTT(60), <2>1 DEF OwnEvents, OwnBuffer, Saving
  <2>. QED  BY <2>2, <2>3
<1>3. CASE \E b \in Blocks : AppWrite(b)
  <2>1. PICK b \in Blocks : AppWrite(b)
    BY <1>3
  <2>2. PICK c \in Content(b) \cup {Empty} :
          /\ file' = [file EXCEPT ![b] = c]
          /\ events' = events \/ events' = Append(events, [block |-> b, kind |-> "MODIFY"])
    BY <2>1 DEF AppWrite, Notify
  <2>3. UNCHANGED <<part, pc, block, buf>>
    BY <2>1 DEF AppWrite
  <2>4. c # Absent /\ file'[b] = c /\ \A a \in Blocks : a # b => file'[a] = file[a]
    <3>1. c \in Own(b) \/ c = Empty
      BY DEF Own
    <3>2. c # Absent
      BY <3>1, OwnValues
    <3>. QED  BY <1>1, <2>2, <3>2
  <2>5. OwnFiles'
    BY <2>2, <2>4 DEF OwnFiles, Own, Content
  <2>6. \A j \in 1..Len(events) : /\ events[j].block \in Blocks /\ events[j].kind = "MODIFY"
                                  /\ file'[events[j].block] # Absent
    <3>1. \A j \in 1..Len(events) : events[j].block \in Blocks
      BY <1>1, EventBlocks
    <3>. QED  BY <2>4, <3>1 DEF OwnEvents
  <2>7. OwnEvents'
    <3>1. CASE events' = events
      BY <2>6, <3>1 DEF OwnEvents
    <3>2. CASE events' = Append(events, [block |-> b, kind |-> "MODIFY"])
      <4>1. /\ Len(events') = Len(events) + 1 /\ Len(events) \in Nat
            /\ \A j \in 1..Len(events) : events'[j] = events[j]
            /\ events'[Len(events) + 1] = [block |-> b, kind |-> "MODIFY"]
        BY SMTT(60), <1>1, <3>2
      <4>2. ASSUME NEW j \in 1..Len(events')
            PROVE  events'[j].kind = "MODIFY" /\ file'[events'[j].block] # Absent
        <5>1. CASE j \in 1..Len(events)
          BY <2>6, <4>1, <5>1
        <5>2. CASE j = Len(events) + 1
          BY SMTT(60), <2>4, <4>1, <5>2
        <5>. QED  BY SMTT(60), <4>1, <4>2, <5>1, <5>2
      <4>. QED  BY <4>2 DEF OwnEvents
    <3>. QED  BY <2>2, <3>1, <3>2
  <2>. QED  BY <2>3, <2>5, <2>7 DEF OwnCopies, OwnBuffer, Saving
<1>. QED  BY <1>2, <1>3

LEMMA NextOwn ==
  ASSUME MaxCounter < Half
  PROVE  DataInv /\ OwnInv /\ [Next]_vars => OwnInv'
<1>. SUFFICES ASSUME DataInv, OwnInv, [Next]_vars, ~deletes' PROVE OwnInv'
  BY DEF OwnInv
<1>1. deletes' = deletes
  BY DEF Next, vars, Daemon, Boot, InitBlock, Repaired, HandleEvent, Written0, Write1, Written1,
         AppWrite, AppDelete, PowerLoss
<1>2. ~deletes /\ OwnCopies /\ OwnFiles /\ OwnEvents /\ OwnBuffer
  BY <1>1 DEF OwnInv
<1>3. CASE Boot \/ InitBlock \/ Repaired
  BY <1>2, <1>3, OwnStart DEF OwnInv
<1>4. CASE HandleEvent \/ Written0 \/ Write1 \/ Written1
  BY <1>2, <1>4, OwnSave DEF OwnInv
<1>5. CASE PowerLoss \/ \E b \in Blocks : AppWrite(b)
  BY <1>2, <1>5, OwnOutside DEF OwnInv
<1>6. CASE \E b \in Blocks : AppDelete(b)
  BY <1>2, <1>6 DEF AppDelete
<1>7. CASE UNCHANGED vars
  <2>1. UNCHANGED <<part, file, events, pc, block, buf>>
    BY <1>7 DEF vars
  <2>2. OwnCopies' /\ OwnFiles'
    BY <1>2, <2>1 DEF OwnCopies, OwnFiles, Own, Content
  <2>3. OwnEvents'
    BY <1>2, <2>1 DEF OwnEvents
  <2>4. OwnBuffer'
    BY <1>2, <2>1 DEF OwnBuffer, Saving
  <2>. QED  BY <2>2, <2>3, <2>4 DEF OwnInv
<1>. QED  BY <1>3, <1>4, <1>5, <1>6, <1>7 DEF Next, Daemon

LEMMA InitOwn == Init => OwnInv
<1>. SUFFICES ASSUME Init PROVE OwnCopies /\ OwnFiles /\ OwnEvents /\ OwnBuffer
  BY DEF OwnInv
<1>1. PICK c \in BlankCounters, v \in Versions :
          part = [p \in Partitions |-> [b \in Blocks |->
                IF b \in NoFeedback THEN Copy(TRUE, 0, <<b, v>>) ELSE Copy(FALSE, c, Torn)]]
  BY DEF Init
<1>2. ASSUME NEW p \in Partitions, NEW b \in Blocks, part[p][b].ok
      PROVE  part[p][b].data \in Own(b)
  <2>1. part[p][b] = IF b \in NoFeedback THEN Copy(TRUE, 0, <<b, v>>) ELSE Copy(FALSE, c, Torn)
    BY <1>1
  <2>2. CASE b \in NoFeedback
    BY SMTT(60), <2>1, <2>2 DEF Copy, Own, Content
  <2>3. CASE b \notin NoFeedback
    BY SMTT(60), <1>2, <2>1, <2>3 DEF Copy
  <2>. QED  BY <2>2, <2>3
<1>3. OwnCopies
  BY <1>2 DEF OwnCopies
<1>. QED  BY SMTT(60), <1>3 DEF Init, OwnFiles, OwnEvents, OwnBuffer, Saving

\* However many files there are, and however their changes, the saves and power
\* losses fall, no file's block ever holds what was read from another file, as
\* long as no file is deleted (read_productinfo, write_partition).
THEOREM AlwaysOwnContent ==
  ASSUME MaxCounter < Half
  PROVE  Spec => []OwnContent
<1>1. DataInv /\ OwnInv /\ [Next]_vars => OwnInv'
  BY NextOwn
<1>2. OwnInv => OwnContent
  BY DEF OwnInv, OwnCopies, Own, OwnContent
<1>. QED  BY <1>1, <1>2, InitOwn, DataInvariance, PTL DEF Spec
=============================================================================
