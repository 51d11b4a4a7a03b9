------------------------------ MODULE RamDisk ------------------------------
(***************************************************************************)
(* The two-image partition store of nvitem_fs.c.                           *)
(*                                                                         *)
(* Every partition has an origin image and a backup image, each a header   *)
(* sector with a checksum followed by the body.  On the boards of this     *)
(* tree both are block devices (nvitem_td.cfg, nvitem_w.cfg), so O_TRUNC   *)
(* removes nothing and a write replaces sectors in place.                  *)
(*                                                                         *)
(* disk is what survives a power cut and cache what a read returns; they   *)
(* differ only between a write and the fsync that follows it.  Every I/O   *)
(* call may fail; MaxFaults bounds how often.                              *)
(***************************************************************************)
EXTENDS NvData

CONSTANTS
    ZeroSumBlank,  \* partitions whose size makes the checksum of 0xFF.. zero
    ZeroSum,       \* the checksum field of an all-zero header
    Garbage,       \* a header that is not one written by ramDisk_Write
    Unread,        \* a partition that initBuf has not read yet
    MaxFaults,     \* bound on the number of I/O errors
    Writes         \* the contents that are ever written, the factory ones included

ASSUME RamDiskAssumption ==
    /\ ZeroSumBlank \subseteq Parts
    /\ ZeroSum \notin Content
    /\ Garbage \notin Content \cup {ZeroSum}
    /\ Unread \notin Content
    /\ MaxFaults \in Nat
    /\ Writes \subseteq Content

VARIABLES
    disk,    \* durable images
    cache,   \* images as read() sees them
    io,      \* the image write in progress (ramDisk_Write or a repair)
    loaded,  \* what ramDisk_Read gave initBuf
    faults,  \* I/O errors so far
    cand,    \* history: contents a restart may find, see BeginWrite
    hurt,    \* history: partitions with an I/O error since their last clean write
    unfixed  \* history: partitions whose torn or unsynced origin image a read left as it was

diskVars == <<disk, cache, io, loaded, faults, cand, hurt, unfixed>>

Files == {"img", "bak"}
Other(f) == IF f = "img" THEN "bak" ELSE "img"

\* calc_checksum: distinct contents have distinct sums (a mixed image that
\* collides with its header is outside the model), except that some sizes of
\* 0xFF bytes sum to zero.
Checksum(p, c) == IF c = Blank /\ p \in ZeroSumBlank THEN ZeroSum ELSE c

Sums == Content \cup {ZeroSum, Garbage}
Image == [sum : Sums, body : Content]

\* _chkNVEcc on an image.
Intact(p, im) == im.sum = Checksum(p, im.body)

\* Nothing of the image waits for an fsync.
Settled(p, f) == cache[p][f] = disk[p][f]

ImageOf(p, c) == [sum |-> Checksum(p, c), body |-> c]

Idle == [pc |-> "idle", job |-> "none"]
Jobs == [pc : {"hdr", "body", "sync", "done"}, job : {"write", "repair"},
         part : Parts, file : Files, sum : Sums, buf : Content,
         ret : BOOLEAN, skew : BOOLEAN, clean : BOOLEAN]

DiskTypeOK ==
    /\ disk \in [Parts -> [Files -> Image]]
    /\ cache \in [Parts -> [Files -> Image]]
    /\ io \in Jobs \cup {Idle}
    /\ loaded \in [Parts -> Content \cup {Unread}]
    /\ faults \in 0 .. MaxFaults
    /\ cand \in [Parts -> SUBSET Content]
    /\ hurt \in SUBSET Parts
    /\ unfixed \in SUBSET Parts

(***************************************************************************)
(* A factory image: the origin is good, the backup is a copy or was never  *)
(* written.                                                                *)
(***************************************************************************)
DiskInit ==
    /\ \E c \in [Parts -> Writes] :
         /\ disk \in [Parts -> [Files -> Image]]
         /\ \A p \in Parts :
              /\ disk[p]["img"] = ImageOf(p, c[p])
              /\ disk[p]["bak"] \in {ImageOf(p, c[p]), [sum |-> Garbage, body |-> Blank]}
         /\ cand = [p \in Parts |-> {c[p]}]
    /\ cache = disk
    /\ io = Idle
    /\ loaded = [p \in Parts |-> Unread]
    /\ faults = 0
    /\ hurt = {}
    /\ unfixed = {}
-----------------------------------------------------------------------------
\* The images with image f of partition p replaced.
Put(images, p, f, im) == [images EXCEPT ![p][f] = im]

NoFault == UNCHANGED <<faults, hurt>>

\* An I/O call on partition p fails.
Fault(p) ==
    /\ faults < MaxFaults
    /\ faults' = faults + 1
    /\ hurt' = hurt \cup {p}

(***************************************************************************)
(* ramDisk_Write(p, c): the checksum is taken first, then the backup image *)
(* is written, then the origin.  From here on a restart may find c.        *)
(***************************************************************************)
BeginWrite(p, c) ==
    /\ io = Idle
    /\ io' = [pc |-> "hdr", job |-> "write", part |-> p, file |-> "bak",
              sum |-> Checksum(p, c), buf |-> c,
              ret |-> TRUE, skew |-> FALSE, clean |-> TRUE]
    /\ cand' = [cand EXCEPT ![p] = @ \cup {c}]
    /\ UNCHANGED <<disk, cache, loaded, faults, hurt, unfixed>>

\* Mutant: the origin image is never written.
NextImageNone(job) == [job EXCEPT !.pc = "done"]

\* What follows the last call on an image: the origin image after the backup
\* image, or the end of the job.
NextImage(job) ==
    IF job.job = "write" /\ job.file = "bak"
      THEN [job EXCEPT !.file = "img", !.pc = "hdr", !.skew = FALSE]
      ELSE [job EXCEPT !.pc = "done"]

(***************************************************************************)
(* open() and the header write.  A failed open skips the image and leaves  *)
(* ret as it was.  After a failed header write the body goes to offset 0,  *)
(* one sector early (skew).                                                *)
(***************************************************************************)
WriteHeader ==
    /\ io.pc = "hdr"
    /\ \/ /\ cache' = Put(cache, io.part, io.file,
                         [sum |-> io.sum, body |-> cache[io.part][io.file].body])
          /\ io' = [io EXCEPT !.pc = "body"]
          /\ NoFault
       \/ /\ Fault(io.part)
          /\ io' = NextImage([io EXCEPT !.clean = FALSE])
          /\ UNCHANGED cache
       \/ /\ Fault(io.part)
          /\ io' = [io EXCEPT !.pc = "body", !.ret = FALSE, !.skew = TRUE, !.clean = FALSE]
          /\ UNCHANGED cache
    /\ UNCHANGED <<disk, loaded, cand, unfixed>>

\* An image after the first k sectors of buf were written to it, after the
\* header or, skewed, over it.
Land(im, buf, k, skew) ==
    IF ~skew
      THEN [sum |-> im.sum, body |-> Prefix(im.body, buf, k)]
      ELSE [sum  |-> IF k > 0 THEN Garbage ELSE im.sum,
            body |-> [s \in Sectors |-> IF s < k THEN buf[s + 1] ELSE im.body[s]]]

\* The body write; a short one leaves a prefix behind.
WriteBody ==
    /\ io.pc = "body"
    /\ \E k \in 0 .. NumSectors :
         /\ cache' = Put(cache, io.part, io.file,
                          Land(cache[io.part][io.file], io.buf, k, io.skew))
         /\ \/ /\ k = NumSectors
               /\ io' = [io EXCEPT !.pc = "sync"]
               /\ NoFault
            \/ /\ k < NumSectors
               /\ io' = [io EXCEPT !.pc = "sync", !.ret = FALSE, !.clean = FALSE]
               /\ Fault(io.part)
    /\ UNCHANGED <<disk, loaded, cand, unfixed>>

\* Sector s of an image, 0 being the header, taken from new.
Flush(old, new, s) ==
    IF s = 0 THEN [sum |-> new.sum, body |-> old.body]
             ELSE [sum |-> old.sum, body |-> [old.body EXCEPT ![s] = new.body[s]]]

\* The kernel writes one cached sector to the device whenever it likes.
Writeback ==
    /\ \E p \in Parts, f \in Files, s \in 0 .. NumSectors :
         disk' = Put(disk, p, f, Flush(disk[p][f], cache[p][f], s))
    /\ UNCHANGED <<cache, io, loaded, faults, cand, hurt, unfixed>>

\* Mutant: close() without fsync().
FsyncSkipped ==
    /\ io.pc = "sync"
    /\ io' = NextImage(io)
    /\ UNCHANGED <<disk, cache, loaded, faults, cand, hurt, unfixed>>

\* fsync() and close(); the result of fsync is not looked at.
Fsync ==
    /\ io.pc = "sync"
    /\ \/ /\ disk' = Put(disk, io.part, io.file, cache[io.part][io.file])
          /\ io' = NextImage(io)
          /\ NoFault
       \/ /\ io' = NextImage([io EXCEPT !.clean = FALSE])
          /\ Fault(io.part)
          /\ UNCHANGED disk
    /\ UNCHANGED <<cache, loaded, cand, unfixed>>

\* The job returns.  A write without an error leaves both images equal to the
\* buffer, so earlier contents are out of reach.
Return ==
    /\ io.pc = "done"
    /\ io' = Idle
    /\ IF io.job = "write" /\ io.clean
         THEN /\ cand' = [cand EXCEPT ![io.part] = {io.buf}]
              /\ hurt' = hurt \ {io.part}
              /\ unfixed' = unfixed \ {io.part}
         ELSE UNCHANGED <<cand, hurt, unfixed>>
    /\ UNCHANGED <<disk, cache, loaded, faults>>

(***************************************************************************)
(* ramDisk_Read(p).  The image to try first is drawn with rand() % 2.      *)
(***************************************************************************)

\* The first image is good: it is what the caller gets.
ReadFirst(p, first) ==
    /\ Intact(p, cache[p][first])
    /\ loaded' = [loaded EXCEPT ![p] = cache[p][first].body]
    /\ unfixed' = IF Intact(p, cache[p]["img"]) /\ Settled(p, "img")
                    THEN unfixed ELSE unfixed \cup {p}
    /\ UNCHANGED <<io, faults, hurt>>

\* How the calls on an image can go: no error, open() fails, the header cannot
\* be read, the body cannot be read.
Calls == {"ok", "open", "head", "body"}

FaultCount(bad1, bad2) == (IF bad1 = "ok" THEN 0 ELSE 1) + (IF bad2 = "ok" THEN 0 ELSE 1)

\* Mutant: the 0xFF filling is what the caller gets.
ReadSecondBlank(p, first, bad1, bad2, junk) ==
    /\ bad1 = "ok" => ~Intact(p, cache[p][first])
    /\ bad2 = "ok"
    /\ loaded' = [loaded EXCEPT ![p] = Blank]
    /\ UNCHANGED <<io, faults, hurt, unfixed>>

\* The first image is not usable: the buffer is set to 0xFF and the header to
\* zero, the second image is read over them, and if that passes its checksum
\* the first image is rewritten from it.  ret2 tells whether the last body read
\* was complete; when the second open fails it is the one of the first image.
\* A failed read leaves anything in the buffer (junk).  Every path returns 1.
ReadSecond(p, first, bad1, bad2, junk) ==
    LET second == cache[p][Other(first)]
        header == IF bad2 = "open" THEN ZeroSum ELSE second.sum
        buf    == CASE bad2 = "ok"   -> second.body
                    [] bad2 = "open" -> Blank
                    [] OTHER         -> junk
        ret2   == bad2 = "ok" \/ (bad2 = "open" /\ bad1 \in {"ok", "head"})
    IN  /\ bad1 = "ok" => ~Intact(p, cache[p][first])
        /\ faults + FaultCount(bad1, bad2) <= MaxFaults
        /\ faults' = faults + FaultCount(bad1, bad2)
        /\ hurt' = IF FaultCount(bad1, bad2) > 0 THEN hurt \cup {p} ELSE hurt
        /\ loaded' = [loaded EXCEPT ![p] = buf]
        /\ io' = IF ret2 /\ header = Checksum(p, buf)
                   THEN [pc |-> "hdr", job |-> "repair", part |-> p, file |-> first,
                         sum |-> header, buf |-> buf,
                         ret |-> TRUE, skew |-> FALSE, clean |-> TRUE]
                   ELSE Idle
        /\ UNCHANGED unfixed

ramDisk_Read(p) ==
    /\ io = Idle
    /\ loaded[p] = Unread
    /\ \E first \in Files :
         \/ ReadFirst(p, first)
         \/ \E bad1, bad2 \in Calls, junk \in Content : ReadSecond(p, first, bad1, bad2, junk)
    /\ UNCHANGED <<disk, cache, cand>>

\* The process is killed: the page cache survives.
DaemonCrash ==
    /\ io' = Idle
    /\ loaded' = [p \in Parts |-> Unread]
    /\ UNCHANGED <<disk, cache, faults, cand, hurt, unfixed>>

\* The power is cut: the page cache is gone.
PowerCut ==
    /\ cache' = disk
    /\ io' = Idle
    /\ loaded' = [p \in Parts |-> Unread]
    /\ UNCHANGED <<disk, faults, cand, hurt, unfixed>>
-----------------------------------------------------------------------------
(***************************************************************************)
(* The store on its own: once every partition has been read, any content   *)
(* may be written to any partition, and the system may stop at any time.   *)
(***************************************************************************)
RamDiskNext ==
    \/ \E p \in Parts : ramDisk_Read(p)
    \/ \E p \in Parts, c \in Writes :
          (\A q \in Parts : loaded[q] # Unread) /\ BeginWrite(p, c)
    \/ WriteHeader
    \/ WriteBody
    \/ Fsync
    \/ Return
    \/ Writeback
    \/ DaemonCrash
    \/ PowerCut

RamDiskSpec == DiskInit /\ [][RamDiskNext]_diskVars
-----------------------------------------------------------------------------
\* The partitions whose redundancy the store has not given away.
Sound == Parts \ (hurt \cup unfixed)

\* An image that a restart can rely on.
Good(p, f) ==
    /\ Settled(p, f)
    /\ Intact(p, disk[p][f])
    /\ disk[p][f].body \in cand[p]

\* A partition that met no I/O error, and whose torn origin image was never
\* left torn by a read that tried the backup first, has an image that is on
\* the device, passes its checksum and holds contents handed to ramDisk_Write
\* (or the factory ones) no earlier than the last write that completed:
\* wherever ramDisk_Write or the repair of ramDisk_Read is cut short, the other
\* image can be read back.
OneImageIntact == \A p \in Sound : \E f \in Files : Good(p, f)

\* No image passes its checksum with contents that are a mixture of two writes
\* or older than the last completed write: a header never vouches for a body
\* that ramDisk_Write did not pair it with.
NoFalseImage ==
    \A p \in Parts \ hurt, f \in Files :
        /\ Intact(p, disk[p][f]) => disk[p][f].body \in cand[p]
        /\ Intact(p, cache[p][f]) => cache[p][f].body \in cand[p]

\* A ramDisk_Read of such a partition during which no I/O call fails hands
\* initBuf contents that were once written as a whole, never a torn image and
\* never 0xFF filling.
ReadsWhatWasWritten ==
    [][\A p \in Sound :
          loaded[p] = Unread /\ loaded'[p] # Unread /\ faults' = faults
            => loaded'[p] \in cand[p]]_diskVars

\* The store as its caller sees it: the write in progress without its steps, and
\* the partitions whose redundancy holds.
Store == INSTANCE NvStore WITH
    found   <- cand,
    wr      <- IF io.job = "write" THEN [on |-> TRUE, part |-> io.part, buf |-> io.buf]
                                      ELSE [on |-> FALSE],
    got     <- loaded,
    trusted <- Sound

\* The two images, the fsyncs, the page cache and the repair together implement
\* NvStore: every sequence of header, body and sync calls of ramDisk_Write, cut
\* anywhere, looks to initBuf like a write that happened or did not.
ImplementsStore == Store!StoreSpec

\* The comment above ramDisk_Read (nvitem_fs.c:130-132): "1 read imagPath first,
\* if succes return , then 2 read imageBakPath, if fail , return, then 3 fix
\* imagePath".  So once a partition without I/O errors has been read and no job
\* is running, its origin image is good: it was read, or it was fixed.
OriginFixed ==
    \A p \in Parts :
        loaded[p] # Unread /\ io = Idle /\ faults = 0 => Intact(p, cache[p]["img"])
=============================================================================
