------------------------------ MODULE RawDatad ------------------------------
(***************************************************************************)
(* rawdatad (apps/rawdatad/rawdata.c) keeps the files of /productinfo in   *)
(* two raw partitions.  Every block has a copy in each partition, with a   *)
(* counter and a CRC.  At start-up the daemon restores each file from the  *)
(* copy with the larger counter and repairs the other; afterwards it saves *)
(* a file, to one partition after the other, whenever inotify reports a    *)
(* change.  Power may be lost at any point, in the middle of a write to a  *)
(* partition included: the copy then has a wrong CRC.                      *)
(***************************************************************************)
EXTENDS Integers, Sequences

CONSTANTS NumBlocks,      \* the files; block 0 is productinfo.bin
          Half,           \* 2^31: a counter from here on is a negative int
          THRES,          \* RAWDATA_COUNTER_THRES
          BlankCounters,  \* the counters a never-written block may hold
          MaxCounter,     \* bound on the counter of a save
          Versions,       \* the contents the applications write
          MaxChanges, MaxCrashes

ASSUME BlocksAssumption == NumBlocks \in Nat \ {0}
ASSUME CounterAssumption ==
    /\ Half \in Nat /\ THRES \in Nat /\ Half <= THRES /\ THRES < 2 * Half - 1
    /\ BlankCounters \subseteq 0..(2 * Half - 1) /\ MaxCounter \in Nat
ASSUME BoundsAssumption == MaxChanges \in Nat /\ MaxCrashes \in Nat

Blocks == 0..(NumBlocks - 1)
NoFeedback == {0}
Partitions == {0, 1}
Erased == <<"0xff">>              \* a block, or a buffer, of bytes 0xff
Torn == <<"torn">>
None == <<"none">>
Absent == <<"absent">>
Empty == <<"empty">>
Content(b) == {b} \X Versions     \* d stands for d padded with 0xff, too
Data == (Blocks \X Versions) \cup {Erased, Torn}

VARIABLES part,                   \* what the two partitions hold
          file, events,           \* the files, and the inotify queue
          pc, block, partition,   \* the daemon, and its loop variables
          buf,                    \* rawdata_buffer[0]
          counter,                \* the counter of the save under way
          saved, pending,         \* history: the last save of each block that was
          changes, crashes,       \*   completed, and that was begun
          deletes                 \* are files ever deleted?
vars == <<part, file, events, pc, block, partition, buf, counter, saved, pending, changes, crashes,
          deletes>>

Copy(ok, c, d) == [ok |-> ok, cnt |-> c, data |-> d]
Init ==
    /\ \E c \in BlankCounters, v \in Versions :
          /\ part = [p \in Partitions |-> [b \in Blocks |->
                IF b \in NoFeedback THEN Copy(TRUE, 0, <<b, v>>) ELSE Copy(FALSE, c, Torn)]]
          /\ saved = [b \in Blocks |-> IF b \in NoFeedback THEN <<b, v>> ELSE None]
    /\ file = [b \in Blocks |-> Absent] /\ events = <<>>
    /\ pc = "down" /\ block = 0 /\ partition = 0 /\ buf = Erased /\ counter = 0
    /\ pending = saved /\ changes = 0 /\ crashes = 0 /\ deletes \in BOOLEAN

Store(p, b, c) == part' = [part EXCEPT ![p][b] = c]

-----------------------------------------------------------------------------
(* init_productinfo *)

AsInt(c) == IF c >= Half THEN c - 2 * Half ELSE c

CheckBlock(p, b) ==
    IF ~part[p][b].ok THEN -1
    ELSE IF b \in NoFeedback THEN 0 ELSE AsInt(part[p][b].cnt)

ChooseOf(b) == IF CheckBlock(0, b) > CheckBlock(1, b) THEN 0 ELSE 1

NextBlock ==
    IF block + 1 \in Blocks
      THEN block' = block + 1 /\ pc' = "init"
      ELSE block' = 0 /\ pc' = "watch"

Boot ==
    /\ pc = "down" /\ pc' = "init" /\ block' = 0
    /\ UNCHANGED <<part, file, events, partition, buf, counter, saved, pending,
                   changes, crashes, deletes>>

InitBlock ==
    LET valid1 == CheckBlock(0, block)
        valid2 == CheckBlock(1, block)
        p == ChooseOf(block)
    IN  /\ pc = "init" /\ buf' = part[0][block].data
        /\ IF valid1 = -1 /\ valid2 = -1
             THEN NextBlock /\ UNCHANGED <<part, file, partition>>
             ELSE /\ file' = [file EXCEPT ![block] = part[p][block].data]
                  /\ IF valid1 # valid2
                       THEN /\ partition' = p /\ pc' = "repair" /\ UNCHANGED block
                            /\ Store(1 - p, block, Copy(FALSE, part[p][block].cnt, Torn))
                       ELSE NextBlock /\ UNCHANGED <<part, partition>>
        /\ UNCHANGED <<events, counter, saved, pending, changes, crashes, deletes>>

\* The write to the other partition is complete; a copy of a torn block is torn.
Repaired ==
    /\ pc = "repair" /\ Store(1 - partition, block, part[partition][block]) /\ NextBlock
    /\ saved' = [saved EXCEPT ![block] = part[partition][block].data]
    /\ pending' = [pending EXCEPT ![block] = part[partition][block].data]
    /\ UNCHANGED <<file, events, partition, buf, counter, changes, crashes, deletes>>

-----------------------------------------------------------------------------
(* The event loop of main *)

\* read_productinfo: nothing is read of a file that is gone.
ReadFileUncleared(b) == IF file[b] \in {Absent, Empty} THEN buf ELSE file[b]
ReadFile(b) ==
    CASE file[b] = Absent -> buf
      [] file[b] = Empty -> Erased
      [] OTHER -> file[b]

Increase(c) == IF c > THRES THEN 0 ELSE c + 1

OnlyFirst == <<>>
Remaining == Tail(events)

\* An event is handled: what the file now holds is read, and write_partition
\* begins, with the counter of the first partition, to write to it.
HandleEvent ==
    LET b == Head(events).block
        c == Increase(part[0][b].cnt)
    IN  /\ pc = "watch" /\ events # <<>> /\ events' = Remaining
        /\ buf' = IF Head(events).kind = "MODIFY" THEN ReadFile(b) ELSE Erased
        /\ IF b \in NoFeedback
             THEN UNCHANGED <<part, pc, block, counter, pending>>
             ELSE /\ c <= MaxCounter
                  /\ pc' = "write0" /\ block' = b /\ counter' = c
                  /\ Store(0, b, Copy(FALSE, c, Torn)) /\ pending' = [pending EXCEPT ![b] = buf']
        /\ UNCHANGED <<file, partition, saved, changes, crashes, deletes>>

Written0 ==
    /\ pc = "write0" /\ pc' = "between" /\ Store(0, block, Copy(TRUE, counter, buf))
    /\ UNCHANGED <<file, events, block, partition, buf, counter, saved, pending,
                   changes, crashes, deletes>>

Write1 ==
    /\ pc = "between" /\ pc' = "write1" /\ Store(1, block, Copy(FALSE, counter, Torn))
    /\ UNCHANGED <<file, events, block, partition, buf, counter, saved, pending,
                   changes, crashes, deletes>>

Written1Reread ==
    /\ pc = "write1" /\ pc' = "watch" /\ Store(1, block, Copy(TRUE, counter, ReadFile(block)))
    /\ saved' = [saved EXCEPT ![block] = buf]
    /\ UNCHANGED <<file, events, block, partition, buf, counter, pending,
                   changes, crashes, deletes>>

Written1 ==
    /\ pc = "write1" /\ pc' = "watch" /\ Store(1, block, Copy(TRUE, counter, buf))
    /\ saved' = [saved EXCEPT ![block] = buf]
    /\ UNCHANGED <<file, events, block, partition, buf, counter, pending,
                   changes, crashes, deletes>>

Daemon == Boot \/ InitBlock \/ Repaired \/ HandleEvent \/ Written0 \/ Write1 \/ Written1

-----------------------------------------------------------------------------
(* The applications, once the daemon is ready, and the power *)

Ready == pc \in {"watch", "write0", "between", "write1"}

\* inotify drops an event that repeats the last one of the queue.
Notify(e) ==
    events' = IF events # <<>> /\ events[Len(events)] = e THEN events ELSE Append(events, e)

AppWrite(b) ==
    /\ Ready /\ changes < MaxChanges /\ changes' = changes + 1
    /\ \E c \in Content(b) \cup {Empty} :
          /\ c # file[b] /\ file' = [file EXCEPT ![b] = c]
          /\ IF file[b] = Absent /\ c = Empty
               THEN UNCHANGED events
               ELSE Notify([block |-> b, kind |-> "MODIFY"])
    /\ UNCHANGED <<part, pc, block, partition, buf, counter, saved, pending, crashes, deletes>>

AppDelete(b) ==
    /\ deletes /\ Ready /\ changes < MaxChanges /\ changes' = changes + 1 /\ file[b] # Absent
    /\ file' = [file EXCEPT ![b] = Absent] /\ Notify([block |-> b, kind |-> "DELETE"])
    /\ UNCHANGED <<part, pc, block, partition, buf, counter, saved, pending, crashes, deletes>>

PowerLoss ==
    /\ pc # "down" /\ crashes < MaxCrashes /\ crashes' = crashes + 1
    /\ pc' = "down" /\ events' = <<>> /\ buf' = Erased /\ counter' = 0
    /\ block' = 0 /\ partition' = 0
    /\ UNCHANGED <<part, file, saved, pending, changes, deletes>>

Next ==
    \/ Daemon
    \/ \E b \in Blocks : AppWrite(b) \/ AppDelete(b)
    \/ PowerLoss

Spec == Init /\ [][Next]_vars

\* The daemon runs.
FairSpec == Spec /\ WF_vars(Daemon)

-----------------------------------------------------------------------------
(* Properties *)

\* The types of the variables.
TypeOK ==
    /\ part \in [Partitions -> [Blocks -> [ok : BOOLEAN, cnt : 0..(2 * Half - 1), data : Data]]]
    /\ file \in [Blocks -> Data \cup {Absent, Empty}]
    /\ events \in Seq([block : Blocks, kind : {"MODIFY", "DELETE"}])
    /\ pc \in {"down", "init", "repair", "watch", "write0", "between", "write1"}
    /\ block \in Blocks /\ partition \in Partitions
    /\ buf \in Data /\ counter \in 0..(2 * Half - 1)
    /\ {saved, pending} \subseteq [Blocks -> Data \cup {None}] /\ changes \in 0..MaxChanges
    /\ crashes \in 0..MaxCrashes /\ deletes \in BOOLEAN

\* What a restart at this point would put into file b.
Restored(b) == part[ChooseOf(b)][b]

\* Power loss at any point, while a save or while a repair is under way and
\* however often, leaves a valid copy of every block that was ever saved, and
\* the restart finds it (write_partition, init_productinfo).
Intact == \A b \in Blocks : saved[b] # None => Restored(b).ok

\* What a restart restores is the last complete save or a later one that power
\* loss interrupted; once restored, that one is never undone.
OldOrNew == \A b \in Blocks : saved[b] # None => Restored(b).data \in {saved[b], pending[b]}

\* Outside a save and before a repair is done the copies agree, so the counter
\* that write_partition takes from the first partition, without its CRC, is one
\* that was saved.
CopiesAgree ==
    pc = "watch" => \A b \in Blocks : saved[b] # None =>
        part[0][b] = part[1][b] /\ part[0][b].ok

\* A file's block never holds what was another file's, although all files are
\* read into one buffer, as long as no file is deleted: read_productinfo leaves
\* the buffer as it is when the file is gone by the time its event is handled.
OwnContent == ~deletes => \A p \in Partitions, b \in Blocks :
    part[p][b].ok => part[p][b].data \in Content(b) \cup {Erased}

\* The repair writes right data to the error block (init_productinfo).
RightToError == pc = "repair" => part[partition][block].ok

\* A reported change reaches both partitions, unless power is lost first.
Image(b) == IF file[b] \in {Absent, Empty} THEN Erased ELSE file[b]
Reported(b) == \E i \in DOMAIN events : events[i].block = b
ChangesSaved == \A b \in Blocks \ NoFeedback :
    Reported(b) ~> pc = "down" \/ \A p \in Partitions : part[p][b].data = Image(b)
=============================================================================
