--------------------------- MODULE RamDiskProofs ---------------------------
(***************************************************************************)
(* What RamDisk guarantees for every number of partitions and sectors and  *)
(* every bound on the I/O errors.                                          *)
(***************************************************************************)
EXTENDS RamDisk, TLAPS

(***************************************************************************)
(* The inductive invariant.  An image can only pass its checksum with      *)
(* known contents because every header on the device was made for known    *)
(* contents (HeadersKnown); a partition can only be written while its      *)
(* origin image is good (OriginGood); and a running job is about to make   *)
(* both images equal to its buffer (JobInv).                               *)
(***************************************************************************)
Known(p) == {Checksum(p, c) : c \in cand[p]} \cup {Garbage}

HeadersKnown ==
    \A p \in Parts \ hurt, f \in Files :
        disk[p][f].sum \in Known(p) /\ cache[p][f].sum \in Known(p)

OriginGood ==
    \A p \in Sound :
        loaded[p] # Unread /\ (io = Idle \/ io.part # p) => Good(p, "img")

\* What the running job has achieved so far.
JobImage == [sum |-> io.sum, body |-> io.buf]

Holds(p, f) == cache[p][f] = JobImage /\ disk[p][f] = JobImage

JobProgress ==
    /\ io.pc = "body" => cache[io.part][io.file].sum = io.sum
    /\ io.pc = "sync" => cache[io.part][io.file] = JobImage
    /\ io.pc = "done" => Holds(io.part, io.file)
    /\ io.job = "write" /\ io.file = "img" => Holds(io.part, "bak")

JobInv ==
    io # Idle =>
        /\ ~io.clean => io.part \in hurt
        /\ io.skew => ~io.clean
        /\ io.job = "write" \/ io.part \notin hurt =>
              io.buf \in cand[io.part] /\ io.sum = Checksum(io.part, io.buf)
        /\ io.clean => JobProgress
        /\ io.job = "write" /\ io.pc = "done" => io.file = "img"
        /\ io.part \in Sound =>
              /\ io.job = "write" /\ io.file = "bak" => Good(io.part, "img")
              /\ io.job = "repair" => Good(io.part, Other(io.file))

DiskInv == DiskTypeOK /\ HeadersKnown /\ OriginGood /\ JobInv /\ OneImageIntact
-----------------------------------------------------------------------------
USE ZenonT(60), NvDataAssumption, RamDiskAssumption

LEMMA BlankType == Blank \in Content
  BY DEF Blank, Content

LEMMA ChecksumType ==
  ASSUME NEW p \in Parts, NEW c \in Content
  PROVE  Checksum(p, c) \in Sums /\ Checksum(p, c) # Garbage
  BY DEF Checksum, Sums

\* Two contents with the same checksum are the same.
LEMMA ChecksumInjective ==
  ASSUME NEW p \in Parts, NEW c \in Content, NEW d \in Content,
         Checksum(p, c) = Checksum(p, d)
  PROVE  c = d
  BY DEF Checksum

LEMMA LandType ==
  ASSUME NEW im \in Image, NEW buf \in Content, NEW k \in 0 .. NumSectors, NEW skew \in BOOLEAN
  PROVE  /\ Land(im, buf, k, skew) \in Image
         /\ ~skew => Land(im, buf, k, skew).sum = im.sum
         /\ ~skew /\ k = NumSectors => Land(im, buf, k, skew) = [sum |-> im.sum, body |-> buf]
  <1>1. Prefix(im.body, buf, k) \in Content
    BY DEF Prefix, Content, Image, Sectors
  <1>2. [s \in Sectors |-> IF s < k THEN buf[s + 1] ELSE im.body[s]] \in Content
    BY SMTT(60) DEF Content, Image, Sectors
  <1>3. k = NumSectors => Prefix(im.body, buf, k) = buf
    BY SMTT(60) DEF Prefix, Content, Image, Sectors
  <1> QED BY <1>1, <1>2, <1>3 DEF Land, Image, Sums

LEMMA FlushType ==
  ASSUME NEW old \in Image, NEW new \in Image, NEW s \in 0 .. NumSectors
  PROVE  /\ Flush(old, new, s) \in Image
         /\ Flush(old, new, s).sum \in {old.sum, new.sum}
         /\ old = new => Flush(old, new, s) = old
  BY DEF Flush, Image, Content, Sectors

LEMMA PutType ==
  ASSUME NEW D \in [Parts -> [Files -> Image]], NEW p \in Parts, NEW f \in Files, NEW im \in Image
  PROVE  /\ Put(D, p, f, im) \in [Parts -> [Files -> Image]]
         /\ Put(D, p, f, im)[p][f] = im
         /\ \A q \in Parts, g \in Files : q # p \/ g # f => Put(D, p, f, im)[q][g] = D[q][g]
  BY DEF Put

LEMMA JobTyped ==
  ASSUME DiskTypeOK, io.pc # "idle"
  PROVE  io \in Jobs
  BY SMTT(60) DEF DiskTypeOK, Idle

LEMMA NextImageType ==
  ASSUME NEW job \in Jobs
  PROVE  NextImage(job) \in Jobs
  BY DEF NextImage, Jobs, Files
-----------------------------------------------------------------------------
\* What ramDisk_Read may leave behind when it goes to the second image.
LEMMA ReadSecondType ==
  ASSUME DiskTypeOK, NEW p \in Parts, NEW first \in Files, NEW bad1 \in Calls, NEW bad2 \in Calls, NEW junk \in Content,
         ReadSecond(p, first, bad1, bad2, junk)
  PROVE  /\ faults' \in 0 .. MaxFaults
         /\ hurt' \in SUBSET Parts
         /\ loaded' \in [Parts -> Content \cup {Unread}]
         /\ io' \in Jobs \cup {Idle}
  <1>1. Other(first) \in Files
    BY DEF Other, Files
  <1>2. cache[p][Other(first)] \in Image
    BY SMTT(60), <1>1 DEF DiskTypeOK
  <1>3. FaultCount(bad1, bad2) \in 0 .. 2
    BY SMTT(60) DEF FaultCount
  <1>4. faults' \in 0 .. MaxFaults /\ hurt' \in SUBSET Parts
    BY SMTT(60), <1>3 DEF ReadSecond, DiskTypeOK
  <1>5. loaded' \in [Parts -> Content \cup {Unread}]
    BY <1>2, BlankType DEF ReadSecond, DiskTypeOK, Image
  <1>6. io' \in Jobs \cup {Idle}
    BY <1>2, BlankType DEF ReadSecond, DiskTypeOK, Image, Jobs, Sums
  <1> QED BY <1>4, <1>5, <1>6

LEMMA TypeStep == DiskTypeOK /\ [RamDiskNext]_diskVars => DiskTypeOK'
  <1> SUFFICES ASSUME DiskTypeOK, [RamDiskNext]_diskVars
               PROVE  DiskTypeOK'
    OBVIOUS
  <1> USE DEF DiskTypeOK
  <1>1. ASSUME NEW p \in Parts, ramDisk_Read(p) PROVE DiskTypeOK'
    <2>1. ASSUME NEW first \in Files, ReadFirst(p, first) PROVE DiskTypeOK'
      BY SMTT(60), <1>1, <2>1 DEF ramDisk_Read, ReadFirst, Image
    <2>2. ASSUME NEW first \in Files, NEW bad1 \in Calls, NEW bad2 \in Calls, NEW junk \in Content,
                 ReadSecond(p, first, bad1, bad2, junk)
          PROVE  DiskTypeOK'
      BY <1>1, <2>2, ReadSecondType, BlankType DEF ramDisk_Read, ReadSecond
    <2> QED BY <1>1, <2>1, <2>2 DEF ramDisk_Read
  <1>2. ASSUME NEW p \in Parts, NEW c \in Writes, BeginWrite(p, c) PROVE DiskTypeOK'
    BY <1>2, ChecksumType DEF BeginWrite, Jobs, Files
  <1>3. CASE WriteHeader
    <2>1. io \in Jobs
      BY <1>3, JobTyped DEF WriteHeader
    <2>2. cache' \in [Parts -> [Files -> Image]]
      <3>1. io.part \in Parts /\ io.file \in Files /\ io.sum \in Sums
        BY <2>1 DEF Jobs
      <3> DEFINE im == [sum |-> io.sum, body |-> cache[io.part][io.file].body]
      <3>2. im \in Image
        BY SMTT(60), <3>1 DEF Image
      <3>3. \/ cache' = Put(cache, io.part, io.file, im)
            \/ cache' = cache
        BY <1>3 DEF WriteHeader
      <3> HIDE DEF im
      <3>4. Put(cache, io.part, io.file, im) \in [Parts -> [Files -> Image]]
        BY <3>1, <3>2 DEF Put
      <3> QED BY <3>3, <3>4
    <2>3. io' \in Jobs
      <3>1. [io EXCEPT !.clean = FALSE] \in Jobs
        BY <2>1 DEF Jobs
      <3>2. [io EXCEPT !.pc = "body"] \in Jobs
        BY <2>1 DEF Jobs
      <3>3. [io EXCEPT !.pc = "body", !.ret = FALSE, !.skew = TRUE, !.clean = FALSE] \in Jobs
        BY <2>1 DEF Jobs
      <3> QED BY <1>3, <3>1, <3>2, <3>3, NextImageType DEF WriteHeader
    <2>4. faults' \in 0 .. MaxFaults /\ hurt' \in SUBSET Parts
      BY SMTT(60), <1>3, <2>1 DEF WriteHeader, NoFault, Fault, Jobs
    <2> QED BY <1>3, <2>2, <2>3, <2>4 DEF WriteHeader
  <1>4. CASE WriteBody
    <2>1. io \in Jobs
      BY <1>4, JobTyped DEF WriteBody
    <2>2. cache' \in [Parts -> [Files -> Image]]
      <3>1. io.part \in Parts /\ io.file \in Files /\ io.buf \in Content /\ io.skew \in BOOLEAN
        BY <2>1 DEF Jobs
      <3>2. cache[io.part][io.file] \in Image
        BY SMTT(60), <3>1
      <3>3. PICK k \in 0 .. NumSectors :
              cache' = Put(cache, io.part, io.file, Land(cache[io.part][io.file], io.buf, k, io.skew))
        BY <1>4 DEF WriteBody
      <3>4. Land(cache[io.part][io.file], io.buf, k, io.skew) \in Image
        BY <3>1, <3>2, LandType
      <3> QED BY <3>1, <3>3, <3>4 DEF Put
    <2>3. io' \in Jobs
      <3>1. \/ io' = [io EXCEPT !.pc = "sync"]
            \/ io' = [io EXCEPT !.pc = "sync", !.ret = FALSE, !.clean = FALSE]
        BY <1>4 DEF WriteBody
      <3>2. [io EXCEPT !.pc = "sync"] \in Jobs
        BY <2>1 DEF Jobs
      <3>3. [io EXCEPT !.pc = "sync", !.ret = FALSE, !.clean = FALSE] \in Jobs
        BY <2>1 DEF Jobs
      <3> QED BY <3>1, <3>2, <3>3
    <2>4. faults' \in 0 .. MaxFaults /\ hurt' \in SUBSET Parts
      BY SMTT(60), <1>4, <2>1 DEF WriteBody, NoFault, Fault, Jobs
    <2> QED BY <1>4, <2>2, <2>3, <2>4 DEF WriteBody
  <1>5. CASE Fsync
    <2>1. io \in Jobs
      BY <1>5, JobTyped DEF Fsync
    <2>2. disk' \in [Parts -> [Files -> Image]]
      <3>1. io.part \in Parts /\ io.file \in Files
        BY <2>1 DEF Jobs
      <3>2. disk' = Put(disk, io.part, io.file, cache[io.part][io.file]) \/ disk' = disk
        BY <1>5 DEF Fsync
      <3>3. cache[io.part][io.file] \in Image
        BY SMTT(60), <3>1
      <3>4. Put(disk, io.part, io.file, cache[io.part][io.file]) \in [Parts -> [Files -> Image]]
        BY <3>1, <3>3 DEF Put
      <3> QED BY <3>2, <3>4
    <2>3. io' \in Jobs
      <3>1. [io EXCEPT !.clean = FALSE] \in Jobs
        BY <2>1 DEF Jobs
      <3> QED BY <1>5, <2>1, <3>1, NextImageType DEF Fsync
    <2>4. faults' \in 0 .. MaxFaults /\ hurt' \in SUBSET Parts
      BY SMTT(60), <1>5, <2>1 DEF Fsync, NoFault, Fault, Jobs
    <2> QED BY <1>5, <2>2, <2>3, <2>4 DEF Fsync
  <1>6. CASE Return
    <2>1. io \in Jobs
      BY <1>6, JobTyped DEF Return
    <2>2. cand' \in [Parts -> SUBSET Content]
      BY SMTT(60), <1>6, <2>1 DEF Return, Jobs
    <2> QED BY <1>6, <2>1, <2>2 DEF Return
  <1>7. CASE Writeback
    <2> PICK p \in Parts, f \in Files, s \in 0 .. NumSectors :
          disk' = Put(disk, p, f, Flush(disk[p][f], cache[p][f], s))
      BY <1>7 DEF Writeback
    <2>1. Flush(disk[p][f], cache[p][f], s) \in Image
      BY SMTT(60), FlushType
    <2>2. disk' \in [Parts -> [Files -> Image]]
      BY <2>1 DEF Put
    <2> QED BY <1>7, <2>2 DEF Writeback
  <1>8. CASE DaemonCrash
    BY <1>8 DEF DaemonCrash
  <1>9. CASE PowerCut
    BY <1>9 DEF PowerCut
  <1>10. CASE UNCHANGED diskVars
    BY <1>10 DEF diskVars
  <1> QED
    BY <1>1, <1>2, <1>3, <1>4, <1>5, <1>6, <1>7, <1>8, <1>9, <1>10 DEF RamDiskNext
-----------------------------------------------------------------------------
\* A good image stays good when neither it nor its contents' standing changes.
LEMMA GoodStable ==
  ASSUME NEW p \in Parts, NEW f \in Files, Good(p, f),
         disk'[p][f] = disk[p][f], cache'[p][f] = cache[p][f], cand[p] \subseteq cand'[p]
  PROVE  Good(p, f)'
  BY DEF Good, Settled, Intact

\* Known headers only vouch for known contents.
LEMMA IntactKnown ==
  ASSUME DiskTypeOK, HeadersKnown, NEW p \in Parts \ hurt, NEW f \in Files
  PROVE  /\ Intact(p, disk[p][f]) => disk[p][f].body \in cand[p]
         /\ Intact(p, cache[p][f]) => cache[p][f].body \in cand[p]
  <1>1. ASSUME NEW im \in Image, im.sum \in Known(p), Intact(p, im)
        PROVE  im.body \in cand[p]
    <2>1. im.body \in Content /\ cand[p] \subseteq Content
      BY <1>1 DEF Image, DiskTypeOK
    <2>2. im.sum = Checksum(p, im.body) /\ im.sum # Garbage
      BY <1>1, <2>1, ChecksumType DEF Intact
    <2>3. PICK c \in cand[p] : im.sum = Checksum(p, c)
      BY <1>1, <2>2 DEF Known
    <2> QED BY <2>1, <2>2, <2>3, ChecksumInjective
  <1>2. disk[p][f] \in Image /\ cache[p][f] \in Image
    BY SMTT(60) DEF DiskTypeOK
  <1> QED BY <1>1, <1>2 DEF HeadersKnown

LEMMA ReadStep ==
  ASSUME DiskInv, NEW p \in Parts, ramDisk_Read(p)
  PROVE  HeadersKnown' /\ OriginGood' /\ JobInv' /\ OneImageIntact'
  <1> USE DEF DiskInv
  <1>a. io = Idle /\ UNCHANGED <<disk, cache, cand>> /\ hurt \subseteq hurt' /\ unfixed \subseteq unfixed'
    BY SMTT(60) DEF ramDisk_Read, ReadFirst, ReadSecond
  <1>b. \A q \in Parts, f \in Files : Good(q, f) => Good(q, f)'
    BY <1>a, GoodStable
  <1>c. Sound' \subseteq Sound
    BY <1>a DEF Sound
  <1>1. HeadersKnown'
    BY <1>a DEF HeadersKnown, Known
  <1>2. OneImageIntact'
    BY <1>b, <1>c DEF OneImageIntact, Sound
  <1>3. ASSUME NEW first \in Files, ReadFirst(p, first)
        PROVE  OriginGood' /\ JobInv'
    <2>1. io' = Idle
      BY <1>3, <1>a DEF ReadFirst
    <2>2. JobInv'
      BY <2>1 DEF JobInv
    <2>3. p \in Sound' => Good(p, "img")
      BY <1>3, IntactKnown DEF ReadFirst, Sound, Good, Settled, Intact, Files
    <2>4. \A q \in Parts : q # p => loaded'[q] = loaded[q]
      BY <1>3 DEF ReadFirst, DiskTypeOK
    <2>5. OriginGood'
      BY <1>a, <1>b, <1>c, <2>3, <2>4 DEF OriginGood, Sound, Files
    <2> QED BY <2>2, <2>5
  <1>4. ASSUME NEW first \in Files, NEW bad1 \in Calls, NEW bad2 \in Calls, NEW junk \in Content,
               ReadSecond(p, first, bad1, bad2, junk)
        PROVE  OriginGood' /\ JobInv'
    <2> DEFINE second == Other(first)
    <2>1. second \in Files /\ second # first /\ Other(second) = first
      BY DEF Other, Files
    <2>2. p \in Sound' => bad1 = "ok" /\ bad2 = "ok"
      BY SMTT(60), <1>4 DEF Sound, ReadSecond, FaultCount, Calls
    <2>3. p \in Sound' => Good(p, second)
      <3>1. bad1 = "ok" => ~Intact(p, cache[p][first])
        BY <1>4 DEF ReadSecond
      <3>2. bad1 = "ok" => ~Good(p, first)
        BY <3>1 DEF Good, Settled
      <3> QED BY <2>1, <2>2, <3>2, <1>c DEF OneImageIntact, Files, Other
    <2>4. p \in Sound' => io' = [pc |-> "hdr", job |-> "repair", part |-> p, file |-> first,
                                sum |-> cache[p][second].sum, buf |-> cache[p][second].body,
                                ret |-> TRUE, skew |-> FALSE, clean |-> TRUE]
      BY <1>4, <2>2, <2>3 DEF ReadSecond, Good, Settled, Intact
    <2>5. io' = Idle \/ io'.part = p
      BY <1>4 DEF ReadSecond
    <2>6. \A q \in Parts : q # p => loaded'[q] = loaded[q]
      BY <1>4 DEF ReadSecond, DiskTypeOK
    <2>7. OriginGood'
      <3> SUFFICES ASSUME NEW q \in Sound', loaded'[q] # Unread, io' = Idle \/ io'.part # q
                   PROVE  Good(q, "img")'
        BY DEF OriginGood
      <3>1. q # p
        BY SMTT(60), <2>4, <2>5 DEF Idle
      <3>2. q \in Parts
        BY DEF Sound
      <3> QED BY <1>a, <1>b, <1>c, <2>6, <3>1, <3>2 DEF OriginGood, Files
    <2>8. JobInv'
      <3> SUFFICES ASSUME io' # Idle PROVE JobInv'
        BY DEF JobInv
      <3> DEFINE header == IF bad2 = "open" THEN ZeroSum ELSE cache[p][second].sum
                 buf    == CASE bad2 = "ok"   -> cache[p][second].body
                             [] bad2 = "open" -> Blank
                             [] OTHER         -> junk
      <3>1. /\ io' = [pc |-> "hdr", job |-> "repair", part |-> p, file |-> first,
                      sum |-> header, buf |-> buf,
                      ret |-> TRUE, skew |-> FALSE, clean |-> TRUE]
            /\ header = Checksum(p, buf)
        BY <1>4 DEF ReadSecond
      <3>2. p \notin hurt' => bad2 = "ok" /\ p \in Parts \ hurt
        BY SMTT(60), <1>4, <1>a DEF ReadSecond, FaultCount, Calls
      <3>3. p \notin hurt' => buf \in cand[p]
        BY <2>1, <3>1, <3>2, IntactKnown DEF Intact
      <3>4. p \in Sound' => Good(p, second)'
        BY <2>1, <2>3, <1>b
      <3> HIDE DEF header, buf
      <3>5. JobProgress'
        BY <3>1 DEF JobProgress
      <3> QED BY <3>1, <3>3, <3>4, <3>5, <1>a DEF JobInv
    <2> QED BY <2>7, <2>8
  <1> QED BY <1>1, <1>2, <1>3, <1>4 DEF ramDisk_Read
LEMMA BeginWriteStep ==
  ASSUME DiskInv, NEW p \in Parts, NEW c \in Writes, BeginWrite(p, c),
         \A q \in Parts : loaded[q] # Unread
  PROVE  HeadersKnown' /\ OriginGood' /\ JobInv' /\ OneImageIntact'
  <1> USE DEF DiskInv
  <1>a. io = Idle /\ UNCHANGED <<disk, cache, loaded, faults, hurt, unfixed>>
    BY DEF BeginWrite
  <1>b. /\ \A q \in Parts : cand[q] \subseteq cand'[q]
        /\ c \in cand'[p]
    BY DEF BeginWrite, DiskTypeOK
  <1>c. \A q \in Parts, f \in Files : Good(q, f) => Good(q, f)'
    BY <1>a, <1>b, GoodStable
  <1>d. Sound' = Sound /\ Sound \subseteq Parts
    BY <1>a DEF Sound
  <1>e. io' = [pc |-> "hdr", job |-> "write", part |-> p, file |-> "bak",
               sum |-> Checksum(p, c), buf |-> c,
               ret |-> TRUE, skew |-> FALSE, clean |-> TRUE]
    BY DEF BeginWrite
  <1>1. HeadersKnown'
    BY SMTT(60), <1>a, <1>b DEF HeadersKnown, Known
  <1>2. OneImageIntact'
    BY <1>c, <1>d DEF OneImageIntact
  <1>3. \A q \in Sound : Good(q, "img")'
    BY <1>a, <1>c, <1>d DEF OriginGood, Files
  <1>4. OriginGood'
    BY <1>3, <1>d DEF OriginGood
  <1>5. JobProgress'
    BY <1>e DEF JobProgress
  <1>6. JobInv'
    BY <1>b, <1>d, <1>e, <1>3, <1>5 DEF JobInv
  <1> QED BY <1>1, <1>2, <1>4, <1>6

\* The parts of the state that no step of a running job touches: everything of
\* the other partitions, and the other image of its own.
LEMMA JobFrame ==
  ASSUME DiskInv, io \in Jobs,
         NEW STATE im, im \in Image,
         \/ disk' = disk /\ (cache' = cache \/ cache' = Put(cache, io.part, io.file, im))
         \/ cache' = cache /\ (disk' = disk \/ disk' = Put(disk, io.part, io.file, im))
  PROVE  \A q \in Parts, f \in Files :
            q # io.part \/ f # io.file => disk'[q][f] = disk[q][f] /\ cache'[q][f] = cache[q][f]
  <1>1. io.part \in Parts /\ io.file \in Files
    BY DEF Jobs
  <1>2. disk \in [Parts -> [Files -> Image]] /\ cache \in [Parts -> [Files -> Image]]
    BY DEF DiskInv, DiskTypeOK
  <1>3. \A q \in Parts, f \in Files : q # io.part \/ f # io.file =>
           Put(cache, io.part, io.file, im)[q][f] = cache[q][f]
    BY <1>1, <1>2 DEF Put
  <1>4. \A q \in Parts, f \in Files : q # io.part \/ f # io.file =>
           Put(disk, io.part, io.file, im)[q][f] = disk[q][f]
    BY <1>1, <1>2 DEF Put
  <1> QED BY SMTT(60), <1>3, <1>4
\* What a step of a running job keeps: as long as it leaves the other images and
\* the histories alone and its partition either met no error or is given up,
\* the facts about the good image carry over.
LEMMA JobStepKeeps ==
  ASSUME DiskInv, io \in Jobs, io' \in Jobs,
         io'.part = io.part, io'.job = io.job, io'.buf = io.buf, io'.sum = io.sum,
         UNCHANGED <<loaded, cand, unfixed>>,
         hurt' = hurt \/ hurt' = hurt \cup {io.part},
         \A q \in Parts, f \in Files :
            q # io.part \/ f # io.file => disk'[q][f] = disk[q][f] /\ cache'[q][f] = cache[q][f],
         io.part \notin hurt' => io.clean
  PROVE  /\ OriginGood'
         /\ \A q \in Sound' : q # io.part => \E f \in Files : Good(q, f)'
         /\ \A q \in Sound', f \in Files : q = io.part /\ f # io.file => Good(q, f)'
  <1> USE DEF DiskInv
  <1>1. io.part \in Parts /\ io.file \in Files /\ Other(io.file) \in Files /\ Other(io.file) # io.file
    BY DEF Jobs, Other, Files
  <1>2. Sound' \subseteq Sound /\ Sound \subseteq Parts
    BY DEF Sound
  <1>3. \A q \in Parts, f \in Files : q # io.part \/ f # io.file => (Good(q, f) => Good(q, f)')
    BY GoodStable
  <1>4. io # Idle /\ io' # Idle
    BY SMTT(60) DEF Jobs, Idle
  <1>5. OriginGood'
    BY <1>2, <1>3, <1>4 DEF OriginGood, Files
  <1>6. \A q \in Sound' : q # io.part => \E f \in Files : Good(q, f)'
    BY <1>2, <1>3 DEF OneImageIntact
  <1>7. io.part \in Sound' => Good(io.part, Other(io.file))
    <2> SUFFICES ASSUME io.part \in Sound' PROVE Good(io.part, Other(io.file))
      OBVIOUS
    <2>1. io.part \in Sound /\ io.clean
      BY <1>2 DEF Sound
    <2>2. io.part \notin hurt
      BY <2>1 DEF Sound
    <2>3. CASE io.job = "repair"
      BY <2>1, <2>3, <1>4 DEF JobInv
    <2>4. CASE io.job = "write" /\ io.file = "bak"
      BY <2>1, <2>4, <1>4 DEF JobInv, Other
    <2>5. CASE io.job = "write" /\ io.file = "img"
      <3>1. Holds(io.part, "bak") /\ io.buf \in cand[io.part] /\ io.sum = Checksum(io.part, io.buf)
        BY <2>1, <2>2, <2>5, <1>4 DEF JobInv, JobProgress
      <3> QED BY SMTT(60), <3>1, <2>5 DEF Holds, JobImage, Good, Settled, Intact, Other
    <2> QED BY <2>3, <2>4, <2>5 DEF Jobs, Files
  <1>8. \A q \in Sound', f \in Files : q = io.part /\ f # io.file => Good(q, f)'
    <2> TAKE q \in Sound', f \in Files
    <2> HAVE q = io.part /\ f # io.file
    <2>1. f = Other(io.file) /\ q \in Parts
      BY SMTT(60), <1>1, <1>2 DEF Files, Other
    <2>2. Good(q, f)
      BY <1>7, <2>1
    <2> QED BY <1>3, <2>1, <2>2
  <1> QED BY <1>5, <1>6, <1>8
\* After an I/O error the partition is given up until the next clean write, and
\* what remains to be shown of its job does not depend on its images.
LEMMA FaultyStep ==
  ASSUME DiskInv, io \in Jobs, io' \in Jobs,
         io'.part = io.part, io'.job = io.job, io'.buf = io.buf, io'.sum = io.sum, ~io'.clean,
         io'.job = "write" /\ io'.pc = "done" => io'.file = "img",
         UNCHANGED <<loaded, cand, unfixed>>,
         hurt' = hurt \cup {io.part},
         \A q \in Parts, f \in Files :
            q # io.part \/ f # io.file => disk'[q][f] = disk[q][f] /\ cache'[q][f] = cache[q][f]
  PROVE  HeadersKnown' /\ OriginGood' /\ JobInv' /\ OneImageIntact'
  <1> USE DEF DiskInv
  <1>0. io # Idle /\ io' # Idle /\ io.part \in Parts
    BY SMTT(60) DEF Jobs, Idle
  <1>1. OriginGood' /\ \A q \in Sound' : q # io.part => \E f \in Files : Good(q, f)'
    BY JobStepKeeps
  <1>2. OneImageIntact'
    BY <1>1 DEF OneImageIntact, Sound
  <1>3. HeadersKnown'
    BY SMTT(60) DEF HeadersKnown, Known
  <1>4. JobInv'
    BY <1>0 DEF JobInv, Sound
  <1> QED BY <1>1, <1>2, <1>3, <1>4

LEMMA NextImageFields ==
  ASSUME NEW job \in Jobs
  PROVE  LET next == NextImage(job)
         IN  /\ next \in Jobs
             /\ next.part = job.part /\ next.job = job.job /\ next.buf = job.buf
             /\ next.sum = job.sum /\ next.clean = job.clean
             /\ next.skew => job.skew
             /\ job.job = "write" /\ job.file = "bak" => next.file = "img" /\ next.pc = "hdr"
             /\ ~(job.job = "write" /\ job.file = "bak") => next.file = job.file /\ next.pc = "done"
  BY DEF NextImage, Jobs, Files

LEMMA WriteHeaderStep ==
  ASSUME DiskInv, WriteHeader
  PROVE  HeadersKnown' /\ OriginGood' /\ JobInv' /\ OneImageIntact'
  <1> USE DEF DiskInv
  <1> DEFINE p == io.part
             f == io.file
             im == [sum |-> io.sum, body |-> cache[p][f].body]
  <1>1. io \in Jobs /\ p \in Parts /\ f \in Files /\ io # Idle /\ io.sum \in Sums
    BY SMTT(60), JobTyped DEF WriteHeader, Jobs, Idle
  <1>2. im \in Image
    BY SMTT(60), <1>1 DEF Image, DiskTypeOK
  <1>3. CASE cache' = Put(cache, p, f, im) /\ io' = [io EXCEPT !.pc = "body"] /\ NoFault
    <2>1. io' \in Jobs /\ io'.part = p /\ io'.job = io.job /\ io'.buf = io.buf /\ io'.sum = io.sum
          /\ io'.clean = io.clean /\ io'.skew = io.skew /\ io'.file = f /\ io'.pc = "body"
      BY <1>1, <1>3 DEF Jobs
    <2>2. UNCHANGED <<disk, loaded, cand, unfixed, hurt>>
      BY <1>3 DEF WriteHeader, NoFault
    <2>3. \A q \in Parts, g \in Files :
             q # p \/ g # f => disk'[q][g] = disk[q][g] /\ cache'[q][g] = cache[q][g]
      BY <1>1, <1>2, <1>3, <2>2, JobFrame
    <2>4. cache'[p][f] = im
      <3>1. cache \in [Parts -> [Files -> Image]]
        BY DEF DiskTypeOK
      <3>2. Put(cache, p, f, im)[p][f] = im
        BY <1>1, <1>2, <3>1 DEF Put
      <3> QED BY <1>3, <3>2
    <2>5. p \notin hurt => io.clean /\ io.sum = Checksum(p, io.buf) /\ io.buf \in cand[p]
      BY <1>1 DEF JobInv
    <2>6. /\ OriginGood'
          /\ \A q \in Sound' : q # p => \E g \in Files : Good(q, g)'
          /\ \A q \in Sound', g \in Files : q = p /\ g # f => Good(q, g)'
      BY <1>1, <2>1, <2>2, <2>3, <2>5, JobStepKeeps
    <2>7. OneImageIntact'
      BY <2>6 DEF OneImageIntact, Files
    <2>8. HeadersKnown'
      <3> SUFFICES ASSUME NEW q \in Parts \ hurt, NEW g \in Files
                   PROVE  disk'[q][g].sum \in Known(q)' /\ cache'[q][g].sum \in Known(q)'
        BY <2>2 DEF HeadersKnown
      <3>1. Known(q)' = Known(q)
        BY <2>2 DEF Known
      <3>2. disk'[q][g].sum \in Known(q)
        BY <2>2 DEF HeadersKnown
      <3>3. q = p /\ g = f => cache'[q][g].sum \in Known(q)
        BY SMTT(60), <2>4, <2>5 DEF Known
      <3>4. q # p \/ g # f => cache'[q][g].sum \in Known(q)
        BY <2>3 DEF HeadersKnown
      <3> QED BY <3>1, <3>2, <3>3, <3>4
    <2>9. io.clean => JobProgress'
      BY SMTT(60), <1>1, <2>1, <2>2, <2>3, <2>4 DEF JobInv, JobProgress, Holds, JobImage, Files
    <2>10. JobInv'
      BY <1>1, <2>1, <2>2, <2>6, <2>9 DEF JobInv, Sound, Files, Other
    <2> QED BY <2>6, <2>7, <2>8, <2>10
  <1>4. CASE Fault(p) /\ io' = NextImage([io EXCEPT !.clean = FALSE]) /\ UNCHANGED cache
    <2>1. [io EXCEPT !.clean = FALSE] \in Jobs
      BY <1>1 DEF Jobs
    <2>2. io' \in Jobs /\ io'.part = p /\ io'.job = io.job /\ io'.buf = io.buf /\ io'.sum = io.sum
          /\ ~io'.clean /\ (io'.job = "write" /\ io'.pc = "done" => io'.file = "img")
      BY SMTT(60), <1>1, <1>4, <2>1, NextImageFields DEF Jobs, Files
    <2> QED BY <1>1, <1>4, <2>2, FaultyStep DEF WriteHeader, Fault
  <1>5. CASE /\ Fault(p)
             /\ io' = [io EXCEPT !.pc = "body", !.ret = FALSE, !.skew = TRUE, !.clean = FALSE]
             /\ UNCHANGED cache
    <2>1. io' \in Jobs /\ io'.part = p /\ io'.job = io.job /\ io'.buf = io.buf /\ io'.sum = io.sum
          /\ ~io'.clean /\ io'.pc = "body"
      BY <1>1, <1>5 DEF Jobs
    <2> QED BY <1>1, <1>5, <2>1, FaultyStep DEF WriteHeader, Fault
  <1> QED BY <1>3, <1>4, <1>5 DEF WriteHeader
LEMMA WriteBodyStep ==
  ASSUME DiskInv, WriteBody
  PROVE  HeadersKnown' /\ OriginGood' /\ JobInv' /\ OneImageIntact'
  <1> USE DEF DiskInv
  <1> DEFINE p == io.part
             f == io.file
  <1>1. io \in Jobs /\ p \in Parts /\ f \in Files /\ io # Idle /\ io.buf \in Content
        /\ io.skew \in BOOLEAN
    BY SMTT(60), JobTyped DEF WriteBody, Jobs, Idle
  <1>2. cache \in [Parts -> [Files -> Image]] /\ cache[p][f] \in Image
    BY SMTT(60), <1>1 DEF DiskTypeOK
  <1>3. PICK k \in 0 .. NumSectors :
           /\ cache' = Put(cache, p, f, Land(cache[p][f], io.buf, k, io.skew))
           /\ \/ /\ k = NumSectors
                 /\ io' = [io EXCEPT !.pc = "sync"]
                 /\ NoFault
              \/ /\ k < NumSectors
                 /\ io' = [io EXCEPT !.pc = "sync", !.ret = FALSE, !.clean = FALSE]
                 /\ Fault(p)
    BY DEF WriteBody
  <1> DEFINE im == Land(cache[p][f], io.buf, k, io.skew)
  <1>4. im \in Image
    BY <1>1, <1>2, LandType
  <1>5. UNCHANGED <<disk, loaded, cand, unfixed>>
    BY DEF WriteBody
  <1>6. \A q \in Parts, g \in Files :
           q # p \/ g # f => disk'[q][g] = disk[q][g] /\ cache'[q][g] = cache[q][g]
    <2>1. \A q \in Parts, g \in Files : q # p \/ g # f => Put(cache, p, f, im)[q][g] = cache[q][g]
      BY <1>1, <1>2, <1>4 DEF Put
    <2> QED BY <1>3, <1>5, <2>1
  <1>7. CASE k = NumSectors /\ io' = [io EXCEPT !.pc = "sync"] /\ NoFault
    <2>1. io' \in Jobs /\ io'.part = p /\ io'.job = io.job /\ io'.buf = io.buf /\ io'.sum = io.sum
          /\ io'.clean = io.clean /\ io'.skew = io.skew /\ io'.file = f /\ io'.pc = "sync"
      BY <1>1, <1>7 DEF Jobs
    <2>2. hurt' = hurt
      BY <1>7 DEF NoFault
    <2>3. cache'[p][f] = im
      <3>1. Put(cache, p, f, im)[p][f] = im
        BY SMTT(60), <1>1, <1>2, <1>4, PutType
      <3> QED BY <1>3, <3>1
    <2>4. io.clean => im = [sum |-> io.sum, body |-> io.buf]
      <3>1. io.clean => ~io.skew /\ cache[p][f].sum = io.sum
        BY <1>1 DEF JobInv, JobProgress, WriteBody
      <3>2. k = NumSectors
        BY <1>7
      <3> QED BY SMTT(60), <1>1, <1>2, <3>1, <3>2, LandType
    <2>5. p \notin hurt => io.clean /\ io.sum = Checksum(p, io.buf) /\ io.buf \in cand[p]
      BY <1>1 DEF JobInv
    <2>6. /\ OriginGood'
          /\ \A q \in Sound' : q # p => \E g \in Files : Good(q, g)'
          /\ \A q \in Sound', g \in Files : q = p /\ g # f => Good(q, g)'
      BY <1>1, <1>5, <1>6, <2>1, <2>2, <2>5, JobStepKeeps
    <2>7. OneImageIntact'
      BY <2>6 DEF OneImageIntact, Files
    <2>8. HeadersKnown'
      <3> SUFFICES ASSUME NEW q \in Parts \ hurt, NEW g \in Files
                   PROVE  disk'[q][g].sum \in Known(q)' /\ cache'[q][g].sum \in Known(q)'
        BY <2>2 DEF HeadersKnown
      <3>1. Known(q)' = Known(q)
        BY <1>5 DEF Known
      <3>2. disk'[q][g].sum \in Known(q)
        BY <1>5 DEF HeadersKnown
      <3>3. q = p /\ g = f => cache'[q][g].sum \in Known(q)
        BY SMTT(60), <2>3, <2>4, <2>5 DEF Known
      <3>4. q # p \/ g # f => cache'[q][g].sum \in Known(q)
        BY <1>6 DEF HeadersKnown
      <3> QED BY <3>1, <3>2, <3>3, <3>4
    <2>9. io.clean => JobProgress'
      <3>1. io.clean => cache'[p][f] = JobImage'
        BY <2>1, <2>3, <2>4 DEF JobImage
      <3>2. io.clean /\ io.job = "write" /\ f = "img" =>
              cache[p]["bak"] = JobImage /\ disk[p]["bak"] = JobImage
        BY <1>1 DEF JobInv, JobProgress, Holds
      <3>3. io.clean /\ io.job = "write" /\ f = "img" =>
              cache'[p]["bak"] = JobImage' /\ disk'[p]["bak"] = JobImage'
        BY <1>1, <1>6, <2>1, <3>2 DEF JobImage, Files
      <3> QED BY <2>1, <3>1, <3>3 DEF JobProgress, Holds
    <2>10. JobInv'
      BY <1>1, <1>5, <2>1, <2>2, <2>6, <2>9 DEF JobInv, Sound, Files, Other
    <2> QED BY <2>6, <2>7, <2>8, <2>10
  <1>8. CASE io' = [io EXCEPT !.pc = "sync", !.ret = FALSE, !.clean = FALSE] /\ Fault(p)
    <2>1. io' \in Jobs /\ io'.part = p /\ io'.job = io.job /\ io'.buf = io.buf /\ io'.sum = io.sum
          /\ ~io'.clean /\ io'.pc = "sync"
      BY <1>1, <1>8 DEF Jobs
    <2>2. hurt' = hurt \cup {p}
      BY <1>8 DEF Fault
    <2> QED BY <1>1, <1>5, <1>6, <2>1, <2>2, FaultyStep
  <1> QED BY <1>3, <1>7, <1>8

LEMMA FsyncStep ==
  ASSUME DiskInv, Fsync
  PROVE  HeadersKnown' /\ OriginGood' /\ JobInv' /\ OneImageIntact'
  <1> USE DEF DiskInv
  <1> DEFINE p == io.part
             f == io.file
             im == cache[p][f]
  <1>1. io \in Jobs /\ p \in Parts /\ f \in Files /\ io # Idle
    BY SMTT(60), JobTyped DEF Fsync, Jobs, Idle
  <1>2. disk \in [Parts -> [Files -> Image]] /\ im \in Image
    BY SMTT(60), <1>1 DEF DiskTypeOK
  <1>3. UNCHANGED <<cache, loaded, cand, unfixed>>
    BY DEF Fsync
  <1>4. CASE disk' = Put(disk, p, f, im) /\ io' = NextImage(io) /\ NoFault
    <2>1. /\ io' \in Jobs /\ io'.part = p /\ io'.job = io.job /\ io'.buf = io.buf /\ io'.sum = io.sum
          /\ io'.clean = io.clean /\ (io'.skew => io.skew)
          /\ io.job = "write" /\ f = "bak" => io'.file = "img" /\ io'.pc = "hdr"
          /\ ~(io.job = "write" /\ f = "bak") => io'.file = f /\ io'.pc = "done"
      BY <1>1, <1>4, NextImageFields
    <2>2. hurt' = hurt
      BY <1>4 DEF NoFault
    <2>3. disk'[p][f] = im
      <3>1. Put(disk, p, f, im)[p][f] = im
        BY <1>1, <1>2 DEF Put
      <3> QED BY <1>4, <3>1
    <2>4. \A q \in Parts, g \in Files :
             q # p \/ g # f => disk'[q][g] = disk[q][g] /\ cache'[q][g] = cache[q][g]
      <3>1. \A q \in Parts, g \in Files : q # p \/ g # f => Put(disk, p, f, im)[q][g] = disk[q][g]
        BY <1>1, <1>2 DEF Put
      <3> QED BY <1>3, <1>4, <3>1
    <2>5. p \notin hurt => io.clean /\ io.sum = Checksum(p, io.buf) /\ io.buf \in cand[p]
      BY <1>1 DEF JobInv
    <2>6. /\ OriginGood'
          /\ \A q \in Sound' : q # p => \E g \in Files : Good(q, g)'
          /\ \A q \in Sound', g \in Files : q = p /\ g # f => Good(q, g)'
      BY <1>1, <1>3, <2>1, <2>2, <2>4, <2>5, JobStepKeeps
    <2>7. OneImageIntact'
      BY <2>6 DEF OneImageIntact, Files
    <2>8. HeadersKnown'
      <3> SUFFICES ASSUME NEW q \in Parts \ hurt, NEW g \in Files
                   PROVE  disk'[q][g].sum \in Known(q)' /\ cache'[q][g].sum \in Known(q)'
        BY <2>2 DEF HeadersKnown
      <3>1. Known(q)' = Known(q)
        BY <1>3 DEF Known
      <3>2. cache'[q][g].sum \in Known(q)
        BY <1>3 DEF HeadersKnown
      <3>3. q = p /\ g = f => disk'[q][g].sum \in Known(q)
        BY <2>3 DEF HeadersKnown
      <3>4. q # p \/ g # f => disk'[q][g].sum \in Known(q)
        BY <2>4 DEF HeadersKnown
      <3> QED BY <3>1, <3>2, <3>3, <3>4
    <2>9. io.clean => JobProgress'
      <3>1. io.clean => im = JobImage
        BY <1>1 DEF JobInv, JobProgress, Fsync
      <3>2. io.clean => cache'[p][f] = JobImage' /\ disk'[p][f] = JobImage'
        BY <1>3, <2>1, <2>3, <3>1 DEF JobImage
      <3>3. io.clean /\ io.job = "write" /\ f = "img" =>
              cache'[p]["bak"] = JobImage' /\ disk'[p]["bak"] = JobImage'
        BY <1>1, <2>1, <2>4 DEF JobInv, JobProgress, Holds, JobImage, Files
      <3> QED BY <1>1, <2>1, <3>2, <3>3 DEF JobProgress, Holds, Files
    <2>10. JobInv'
      BY <1>1, <1>3, <2>1, <2>2, <2>6, <2>9 DEF JobInv, Sound, Files, Other
    <2> QED BY <2>6, <2>7, <2>8, <2>10
  <1>5. CASE io' = NextImage([io EXCEPT !.clean = FALSE]) /\ Fault(p) /\ UNCHANGED disk
    <2>1. [io EXCEPT !.clean = FALSE] \in Jobs
      BY <1>1 DEF Jobs
    <2>2. io' \in Jobs /\ io'.part = p /\ io'.job = io.job /\ io'.buf = io.buf /\ io'.sum = io.sum
          /\ ~io'.clean /\ (io'.job = "write" /\ io'.pc = "done" => io'.file = "img")
      BY <1>1, <1>5, <2>1, NextImageFields DEF Jobs, Files
    <2>3. hurt' = hurt \cup {p}
      BY <1>5 DEF Fault
    <2> QED BY <1>1, <1>3, <1>5, <2>2, <2>3, FaultyStep
  <1> QED BY <1>4, <1>5 DEF Fsync
LEMMA ReturnStep ==
  ASSUME DiskInv, Return
  PROVE  HeadersKnown' /\ OriginGood' /\ JobInv' /\ OneImageIntact'
  <1> USE DEF DiskInv
  <1> DEFINE p == io.part
             f == io.file
  <1>1. io \in Jobs /\ p \in Parts /\ f \in Files /\ io # Idle /\ io.pc = "done"
    BY SMTT(60), JobTyped DEF Return, Jobs, Idle
  <1>2. io' = Idle /\ UNCHANGED <<disk, cache, loaded, faults>>
    BY DEF Return
  <1>3. JobInv'
    BY <1>2 DEF JobInv
  <1>4. CASE io.job = "write" /\ io.clean
    <2>1. /\ cand' = [cand EXCEPT ![p] = {io.buf}]
          /\ hurt' = hurt \ {p}
          /\ unfixed' = unfixed \ {p}
      BY <1>4 DEF Return
    <2>2. cand'[p] = {io.buf} /\ \A q \in Parts : q # p => cand'[q] = cand[q]
      BY <1>1, <2>1 DEF DiskTypeOK
    <2>3. f = "img" /\ Holds(p, "img") /\ Holds(p, "bak") /\ io.sum = Checksum(p, io.buf)
      BY <1>1, <1>4 DEF JobInv, JobProgress
    <2>4. \A q \in Sound' : q # p => q \in Sound
      BY <2>1 DEF Sound
    <2>5. \A q \in Sound', g \in Files : q = p => Good(q, g)'
      BY SMTT(60), <1>2, <2>2, <2>3 DEF Good, Settled, Intact, Holds, JobImage, Files
    <2>6. \A q \in Parts, g \in Files : q # p /\ Good(q, g) => Good(q, g)'
      BY <1>2, <2>2, GoodStable
    <2>7. OneImageIntact'
      <3> SUFFICES ASSUME NEW q \in Sound' PROVE \E g \in Files : Good(q, g)'
        BY DEF OneImageIntact
      <3>1. CASE q = p
        BY <2>5, <3>1, <1>1
      <3>2. CASE q # p
        BY <2>4, <2>6, <3>2 DEF OneImageIntact, Sound
      <3> QED BY <3>1, <3>2
    <2>8. OriginGood'
      <3> SUFFICES ASSUME NEW q \in Sound', loaded'[q] # Unread PROVE Good(q, "img")'
        BY DEF OriginGood
      <3>1. CASE q = p
        BY <2>5, <3>1 DEF Files
      <3>2. CASE q # p
        BY <1>2, <2>4, <2>6, <3>2 DEF OriginGood, Sound, Files
      <3> QED BY <3>1, <3>2
    <2>9. HeadersKnown'
      <3> SUFFICES ASSUME NEW q \in Parts \ hurt', NEW g \in Files
                   PROVE  disk'[q][g].sum \in Known(q)' /\ cache'[q][g].sum \in Known(q)'
        BY DEF HeadersKnown
      <3>1. CASE q = p
        BY SMTT(60), <1>2, <2>2, <2>3, <3>1 DEF Known, Holds, JobImage, Files
      <3>2. CASE q # p
        BY <1>2, <2>1, <2>2, <3>2 DEF HeadersKnown, Known
      <3> QED BY <3>1, <3>2
    <2> QED BY <1>3, <2>7, <2>8, <2>9
  <1>5. CASE ~(io.job = "write" /\ io.clean)
    <2>1. UNCHANGED <<cand, hurt, unfixed>>
      BY <1>5 DEF Return
    <2>2. Sound' = Sound /\ Sound \subseteq Parts
      BY <2>1 DEF Sound
    <2>3. \A q \in Parts, g \in Files : Good(q, g) => Good(q, g)'
      BY <1>2, <2>1, GoodStable
    <2>4. OneImageIntact' /\ HeadersKnown'
      BY <1>2, <2>1, <2>2, <2>3 DEF OneImageIntact, HeadersKnown, Known
    <2>5. p \in Sound => Good(p, "img")
      <3> SUFFICES ASSUME p \in Sound PROVE Good(p, "img")
        OBVIOUS
      <3>1. p \notin hurt /\ io.clean /\ io.job = "repair"
        BY <1>1, <1>5 DEF JobInv, Sound, Jobs
      <3>2. CASE f = "bak"
        BY <1>1, <3>1, <3>2 DEF JobInv, Other
      <3>3. CASE f = "img"
        <4>1. Holds(p, "img") /\ io.buf \in cand[p] /\ io.sum = Checksum(p, io.buf)
          BY <1>1, <3>1, <3>3 DEF JobInv, JobProgress
        <4> QED BY SMTT(60), <4>1 DEF Good, Holds, JobImage, Settled, Intact
      <3> QED BY <1>1, <3>2, <3>3 DEF Files
    <2>6. \A q \in Sound : loaded[q] # Unread => Good(q, "img")
      BY <2>5 DEF OriginGood
    <2>7. OriginGood'
      BY <1>2, <2>2, <2>3, <2>6 DEF OriginGood, Files
    <2> QED BY <1>3, <2>4, <2>7
  <1> QED BY <1>4, <1>5

LEMMA WritebackStep ==
  ASSUME DiskInv, Writeback
  PROVE  HeadersKnown' /\ OriginGood' /\ JobInv' /\ OneImageIntact'
  <1> USE DEF DiskInv
  <1>1. UNCHANGED <<cache, io, loaded, faults, cand, hurt, unfixed>>
    BY DEF Writeback
  <1>2. PICK p \in Parts, f \in Files, s \in 0 .. NumSectors :
           disk' = Put(disk, p, f, Flush(disk[p][f], cache[p][f], s))
    BY DEF Writeback
  <1>3. disk \in [Parts -> [Files -> Image]] /\ cache \in [Parts -> [Files -> Image]]
    BY DEF DiskTypeOK
  <1>4. disk'[p][f] = Flush(disk[p][f], cache[p][f], s)
    BY <1>2, <1>3 DEF Put
  <1>5. \A q \in Parts, g \in Files : q # p \/ g # f => disk'[q][g] = disk[q][g]
    BY <1>2, <1>3 DEF Put
  <1>6. \A q \in Parts, g \in Files : Settled(q, g) => disk'[q][g] = disk[q][g]
    <2>1. Settled(p, f) => disk'[p][f] = disk[p][f]
      BY SMTT(60), <1>3, <1>4 DEF Settled, Flush, Image, Content
    <2> QED BY <1>5, <2>1
  <1>7. \A q \in Parts, g \in Files : Good(q, g) => Good(q, g)'
    BY <1>1, <1>6 DEF Good, Settled, Intact
  <1>8. Sound' = Sound /\ Sound \subseteq Parts
    BY <1>1 DEF Sound
  <1>9. OneImageIntact' /\ OriginGood'
    BY <1>1, <1>7, <1>8 DEF OneImageIntact, OriginGood, Files
  <1>10. HeadersKnown'
    <2>1. disk'[p][f].sum \in {disk[p][f].sum, cache[p][f].sum}
      BY SMTT(60), <1>4 DEF Flush
    <2>2. \A q \in Parts : Known(q)' = Known(q)
      BY <1>1 DEF Known
    <2>3. \A q \in Parts \ hurt, g \in Files : disk'[q][g].sum \in Known(q)
      BY SMTT(60), <1>5, <2>1 DEF HeadersKnown
    <2> QED BY SMTT(60), <1>1, <2>2, <2>3 DEF HeadersKnown
  <1>11. JobInv'
    <2> SUFFICES ASSUME io # Idle PROVE JobInv'
      BY <1>1 DEF JobInv
    <2>1. io \in Jobs /\ io.part \in Parts /\ io.file \in Files /\ Other(io.file) \in Files
      BY DEF DiskTypeOK, Jobs, Other, Files
    <2>2. \A q \in Parts, g \in Files : Holds(q, g) => Holds(q, g)'
      BY SMTT(60), <1>1, <1>6 DEF Holds, JobImage, Settled
    <2>3. JobProgress => JobProgress'
      <3>1. "bak" \in Files
        BY DEF Files
      <3>2. Holds(io.part, io.file) => disk'[io.part][io.file] = disk[io.part][io.file]
        BY SMTT(60), <1>6, <2>1 DEF Holds, Settled
      <3>3. Holds(io.part, "bak") => disk'[io.part]["bak"] = disk[io.part]["bak"]
        BY SMTT(60), <1>6, <2>1, <3>1 DEF Holds, Settled
      <3> QED BY <1>1, <3>2, <3>3 DEF JobProgress, Holds, JobImage
    <2>4. /\ Good(io.part, "img") => disk'[io.part]["img"] = disk[io.part]["img"]
          /\ Good(io.part, Other(io.file)) =>
                disk'[io.part][Other(io.file)] = disk[io.part][Other(io.file)]
      BY <1>6, <2>1 DEF Good, Files
    <2>5. /\ Good(io.part, "img") => Good(io.part, "img")'
          /\ Good(io.part, Other(io.file)) => Good(io.part, Other(io.file))'
      BY <1>1, <2>4 DEF Good, Settled, Intact
    <2> QED BY <1>1, <1>8, <2>3, <2>5 DEF JobInv
  <1> QED BY <1>9, <1>10, <1>11

\* A restart, of the process or of the whole system, keeps what is good.
LEMMA RestartStep ==
  ASSUME DiskInv, DaemonCrash \/ PowerCut
  PROVE  HeadersKnown' /\ OriginGood' /\ JobInv' /\ OneImageIntact'
  <1> USE DEF DiskInv
  <1>1. /\ io' = Idle
        /\ \A q \in Parts : loaded'[q] = Unread
        /\ UNCHANGED <<disk, cand, hurt, unfixed>>
        /\ cache' = cache \/ cache' = disk
    BY DEF DaemonCrash, PowerCut
  <1>2. Sound' = Sound /\ Sound \subseteq Parts
    BY <1>1 DEF Sound
  <1>3. \A q \in Parts, g \in Files : Good(q, g) => Good(q, g)'
    BY <1>1 DEF Good, Settled, Intact
  <1>4. OneImageIntact' /\ OriginGood'
    BY <1>1, <1>2, <1>3 DEF OneImageIntact, OriginGood
  <1>5. HeadersKnown'
    BY <1>1 DEF HeadersKnown, Known
  <1>6. JobInv'
    BY <1>1 DEF JobInv
  <1> QED BY <1>4, <1>5, <1>6
-----------------------------------------------------------------------------
LEMMA ImageFields ==
  ASSUME NEW p, NEW c
  PROVE  ImageOf(p, c).sum = Checksum(p, c) /\ ImageOf(p, c).body = c
  BY DEF ImageOf

LEMMA DiskInvInit == DiskInit => DiskInv
  <1> SUFFICES ASSUME DiskInit PROVE DiskInv
    OBVIOUS
  <1>1. PICK c \in [Parts -> Writes] :
           /\ disk \in [Parts -> [Files -> Image]]
           /\ \A p \in Parts :
                /\ disk[p]["img"] = ImageOf(p, c[p])
                /\ disk[p]["bak"] \in {ImageOf(p, c[p]), [sum |-> Garbage, body |-> Blank]}
           /\ cand = [p \in Parts |-> {c[p]}]
    BY DEF DiskInit
  <1>2. /\ cache = disk /\ io = Idle /\ faults = 0 /\ hurt = {} /\ unfixed = {}
        /\ loaded = [p \in Parts |-> Unread]
    BY DEF DiskInit
  <1>3. \A p \in Parts : cand[p] = {c[p]} /\ c[p] \in Content
    BY <1>1
  <1>4. DiskTypeOK
    <2>1. cand \in [Parts -> SUBSET Content]
      BY <1>1
    <2>2. loaded \in [Parts -> Content \cup {Unread}]
      BY <1>2
    <2> QED BY SMTT(60), <1>1, <1>2, <2>1, <2>2 DEF DiskTypeOK
  <1>5. \A p \in Parts : Good(p, "img")
    <2> TAKE p \in Parts
    <2>1. disk[p]["img"] = ImageOf(p, c[p]) /\ cache[p]["img"] = disk[p]["img"]
      BY <1>1, <1>2
    <2>2. disk[p]["img"].sum = Checksum(p, c[p]) /\ disk[p]["img"].body = c[p]
      BY SMTT(60), <2>1, ImageFields
    <2> QED BY <1>3, <2>1, <2>2 DEF Good, Settled, Intact
  <1>6. OneImageIntact /\ OriginGood
    BY <1>5 DEF OneImageIntact, OriginGood, Sound, Files
  <1>7. HeadersKnown
    <2> SUFFICES ASSUME NEW p \in Parts, NEW f \in Files PROVE disk[p][f].sum \in Known(p)
      BY <1>2 DEF HeadersKnown
    <2>1. disk[p][f] \in {[sum |-> Checksum(p, c[p]), body |-> c[p]], [sum |-> Garbage, body |-> Blank]}
      BY <1>1 DEF ImageOf, Files
    <2>2. disk[p][f].sum \in {Checksum(p, c[p]), Garbage}
      BY SMTT(60), <2>1
    <2> QED BY <1>3, <2>2 DEF Known
  <1>8. JobInv
    BY <1>2 DEF JobInv
  <1> QED BY <1>4, <1>6, <1>7, <1>8 DEF DiskInv

LEMMA DiskInvStep == DiskInv /\ [RamDiskNext]_diskVars => DiskInv'
  <1> SUFFICES ASSUME DiskInv, [RamDiskNext]_diskVars PROVE DiskInv'
    OBVIOUS
  <1>1. DiskTypeOK'
    BY TypeStep DEF DiskInv
  <1>2. CASE UNCHANGED diskVars
    BY <1>1, <1>2 DEF diskVars, DiskInv, HeadersKnown, Known, OriginGood, JobInv, JobProgress,
         Holds, JobImage, OneImageIntact, Sound, Good, Settled, Intact
  <1>3. CASE \E p \in Parts : ramDisk_Read(p)
    BY <1>1, <1>3, ReadStep DEF DiskInv
  <1>4. CASE \E p \in Parts, c \in Writes :
                (\A q \in Parts : loaded[q] # Unread) /\ BeginWrite(p, c)
    BY <1>1, <1>4, BeginWriteStep DEF DiskInv
  <1>5. CASE WriteHeader
    BY <1>1, <1>5, WriteHeaderStep DEF DiskInv
  <1>6. CASE WriteBody
    BY <1>1, <1>6, WriteBodyStep DEF DiskInv
  <1>7. CASE Fsync
    BY <1>1, <1>7, FsyncStep DEF DiskInv
  <1>8. CASE Return
    BY <1>1, <1>8, ReturnStep DEF DiskInv
  <1>9. CASE Writeback
    BY <1>1, <1>9, WritebackStep DEF DiskInv
  <1>10. CASE DaemonCrash \/ PowerCut
    BY <1>1, <1>10, RestartStep DEF DiskInv
  <1> QED BY <1>2, <1>3, <1>4, <1>5, <1>6, <1>7, <1>8, <1>9, <1>10 DEF RamDiskNext

LEMMA DiskInvAlways == RamDiskSpec => []DiskInv
  BY DiskInvInit, DiskInvStep, PTL DEF RamDiskSpec

\* Every variable of the store keeps its type, whichever calls fail and
\* wherever the system stops.
THEOREM DiskTypeSafe == RamDiskSpec => []DiskTypeOK
  <1>1. DiskInv => DiskTypeOK
    BY DEF DiskInv
  <1> QED BY <1>1, DiskInvAlways, PTL

\* ramDisk_Write and the repair of ramDisk_Read never have both images of a
\* partition torn at once, for any number of sectors, partitions and power cuts.
THEOREM DiskOneImageIntact == RamDiskSpec => []OneImageIntact
  <1>1. DiskInv => OneImageIntact
    BY DEF DiskInv
  <1> QED BY <1>1, DiskInvAlways, PTL

\* An image that _chkNVEcc accepts holds contents that were written as a whole.
THEOREM DiskNoFalseImage == RamDiskSpec => []NoFalseImage
  <1>1. DiskInv => NoFalseImage
    BY IntactKnown DEF DiskInv, NoFalseImage
  <1> QED BY <1>1, DiskInvAlways, PTL
LEMMA ReadsKnown ==
  ASSUME DiskInv, [RamDiskNext]_diskVars,
         NEW p \in Sound, loaded[p] = Unread, loaded'[p] # Unread, faults' = faults
  PROVE  loaded'[p] \in cand[p]
  <1> USE DEF DiskInv
  <1>0. p \in Parts /\ p \in Parts \ hurt
    BY DEF Sound
  <1>1. ramDisk_Read(p)
    <2>1. \E q \in Parts : ramDisk_Read(q)
      BY <1>0 DEF RamDiskNext, diskVars, BeginWrite, WriteHeader, WriteBody, Fsync, Return,
           Writeback, DaemonCrash, PowerCut
    <2>2. PICK q \in Parts : ramDisk_Read(q)
      BY <2>1
    <2>3. q # p => loaded'[p] = loaded[p]
      BY SMTT(60), <1>0, <2>2 DEF ramDisk_Read, ReadFirst, ReadSecond, DiskTypeOK
    <2> QED BY <2>2, <2>3
  <1>2. loaded \in [Parts -> Content \cup {Unread}]
    BY DEF DiskTypeOK
  <1>3. ASSUME NEW first \in Files, ReadFirst(p, first)
        PROVE  loaded'[p] \in cand[p]
    BY <1>0, <1>2, <1>3, IntactKnown DEF ReadFirst
  <1>4. ASSUME NEW first \in Files, NEW bad1 \in Calls, NEW bad2 \in Calls, NEW junk \in Content,
               ReadSecond(p, first, bad1, bad2, junk)
        PROVE  loaded'[p] \in cand[p]
    <2> DEFINE second == Other(first)
    <2>1. second \in Files /\ second # first
      BY DEF Other, Files
    <2>2. bad1 = "ok" /\ bad2 = "ok"
      BY SMTT(60), <1>4 DEF ReadSecond, FaultCount, Calls, DiskTypeOK
    <2>3. ~Good(p, first)
      BY <1>4, <2>2 DEF ReadSecond, Good, Settled
    <2>4. Good(p, second)
      BY SMTT(60), <2>1, <2>3 DEF OneImageIntact, Files
    <2>5. loaded'[p] = cache[p][second].body
      BY <1>0, <1>2, <1>4, <2>2 DEF ReadSecond
    <2> QED BY <2>4, <2>5 DEF Good, Settled
  <1> QED BY <1>1, <1>3, <1>4 DEF ramDisk_Read

\* What ramDisk_Read returns without an I/O error is never torn and never 0xFF
\* filling.
THEOREM DiskReadsWhatWasWritten == RamDiskSpec => ReadsWhatWasWritten
  <1> DEFINE Kept == \A p \in Sound :
                       loaded[p] = Unread /\ loaded'[p] # Unread /\ faults' = faults
                         => loaded'[p] \in cand[p]
  <1>1. DiskInv /\ [RamDiskNext]_diskVars => [Kept]_diskVars
    BY ReadsKnown
  <1> QED BY <1>1, DiskInvAlways, PTL DEF RamDiskSpec, ReadsWhatWasWritten-----------------------------------------------------------------------------
(***************************************************************************)
(* The refinement.  The steps of an image write are stutters of NvStore    *)
(* unless a call fails; what makes the reads match is OneImageIntact.      *)
(***************************************************************************)
StoreWr == IF io.job = "write" THEN [on |-> TRUE, part |-> io.part, buf |-> io.buf]
                               ELSE [on |-> FALSE]

LEMMA StoreInitMaps == DiskInit => Store!StoreInit
  BY SMTT(60) DEF DiskInit, Store!StoreInit, Store!NoWrite, Idle, Sound

\* A step of a running job is a stutter or an error of its partition.
LEMMA JobStepMaps ==
  ASSUME io'.part = io.part, io'.job = io.job, io'.buf = io.buf, io.part \in Parts,
         UNCHANGED <<loaded, cand, unfixed>>,
         hurt' = hurt \/ hurt' = hurt \cup {io.part}
  PROVE  [Store!StoreNext]_(Store!storeVars)
  <1>1. StoreWr' = StoreWr
    BY DEF StoreWr
  <1>2. CASE hurt' = hurt
    BY <1>1, <1>2 DEF Store!storeVars, StoreWr, Sound
  <1>3. CASE hurt' = hurt \cup {io.part}
    <2>1. Sound' = Sound \ {io.part}
      BY <1>3 DEF Sound
    <2> QED BY <1>1, <2>1 DEF Store!StoreNext, Store!StoreError, StoreWr
  <1> QED BY <1>2, <1>3

LEMMA ReadMaps ==
  ASSUME DiskInv, NEW p \in Parts, ramDisk_Read(p), [RamDiskNext]_diskVars
  PROVE  Store!StoreRead(p)
  <1>1. io = Idle /\ loaded[p] = Unread /\ UNCHANGED <<disk, cache, cand>>
    BY DEF ramDisk_Read
  <1>2. ~StoreWr.on /\ StoreWr' = StoreWr
    <2>1. io'.job \in {"none", "repair"}
      BY SMTT(60), <1>1 DEF ramDisk_Read, ReadFirst, ReadSecond, Idle
    <2> QED BY <1>1, <2>1 DEF StoreWr, Idle
  <1>3. Sound' \in {Sound, Sound \ {p}}
    <2>1. hurt' \in {hurt, hurt \cup {p}} /\ unfixed' \in {unfixed, unfixed \cup {p}}
      BY SMTT(60) DEF ramDisk_Read, ReadFirst, ReadSecond
    <2> QED BY <2>1 DEF Sound
  <1>4. loaded \in [Parts -> Content \cup {Unread}] /\ cache \in [Parts -> [Files -> Image]]
    BY DEF DiskInv, DiskTypeOK
  <1>5. PICK c \in Content : loaded' = [loaded EXCEPT ![p] = c]
    <2>1. ASSUME NEW first \in Files, ReadFirst(p, first)
          PROVE  \E c \in Content : loaded' = [loaded EXCEPT ![p] = c]
      BY <1>4, <2>1 DEF ReadFirst, Image
    <2>2. ASSUME NEW first \in Files, NEW bad1 \in Calls, NEW bad2 \in Calls, NEW junk \in Content,
                 ReadSecond(p, first, bad1, bad2, junk)
          PROVE  \E c \in Content : loaded' = [loaded EXCEPT ![p] = c]
      <3>1. cache[p][Other(first)].body \in Content
        BY SMTT(60), <1>4 DEF Other, Files, Image
      <3> QED BY <2>2, <3>1, BlankType DEF ReadSecond
    <2> QED BY <2>1, <2>2 DEF ramDisk_Read
  <1>6. loaded'[p] = c /\ c # Unread
    BY <1>4, <1>5
  <1>7. p \in Sound' => p \in Sound /\ faults' = faults
    <2>1. p \in Sound' => p \in Sound /\ p \notin hurt'
      BY <1>3 DEF Sound
    <2>2. ASSUME NEW first \in Files, NEW bad1 \in Calls, NEW bad2 \in Calls, NEW junk \in Content,
                 ReadSecond(p, first, bad1, bad2, junk)
          PROVE  p \notin hurt' => faults' = faults
      <3>1. faults \in Nat /\ FaultCount(bad1, bad2) \in Nat
        BY SMTT(60) DEF DiskInv, DiskTypeOK, FaultCount
      <3> QED BY SMTT(60), <2>2, <3>1 DEF ReadSecond
    <2>3. ASSUME NEW first \in Files, ReadFirst(p, first) PROVE faults' = faults
      BY <2>3 DEF ReadFirst
    <2> QED BY <2>1, <2>2, <2>3 DEF ramDisk_Read
  <1>8. p \in Sound' => c \in cand[p]
    BY <1>1, <1>6, <1>7, ReadsKnown
  <1>9. \E d \in Content : loaded' = [loaded EXCEPT ![p] = d] /\ (p \in Sound' => d \in cand[p])
    BY <1>5, <1>8
  <1>10. UNCHANGED cand
    BY <1>1
  <1>11. Store!Content = Content
    BY DEF Store!Content, Store!Sectors, Content, Sectors
  <1> QED BY <1>1, <1>2, <1>3, <1>9, <1>10, <1>11 DEF Store!StoreRead, StoreWr

LEMMA BeginWriteMaps ==
  ASSUME NEW p \in Parts, NEW c \in Writes, BeginWrite(p, c)
  PROVE  Store!StoreBegin(p, c)
  <1>1. StoreWr = [on |-> FALSE] /\ StoreWr' = [on |-> TRUE, part |-> p, buf |-> c]
    BY DEF BeginWrite, StoreWr, Idle
  <1>2. Sound' = Sound
    BY DEF BeginWrite, Sound
  <1> QED BY <1>1, <1>2 DEF BeginWrite, Store!StoreBegin, Store!Writing, StoreWr

LEMMA ReturnMaps ==
  ASSUME DiskInv, Return
  PROVE  [Store!StoreNext]_(Store!storeVars)
  <1>1. io \in Jobs /\ io.part \in Parts /\ io' = Idle /\ UNCHANGED loaded
    <2>1. io.pc # "idle" /\ io' = Idle /\ UNCHANGED loaded
      BY DEF Return
    <2>2. io \in Jobs
      BY <2>1, JobTyped DEF DiskInv
    <2> QED BY <2>1, <2>2 DEF Jobs
  <1>2. StoreWr' = [on |-> FALSE]
    BY <1>1 DEF StoreWr, Idle
  <1>3. CASE io.job = "write"
    <2>1. StoreWr = [on |-> TRUE, part |-> io.part, buf |-> io.buf]
      BY <1>3 DEF StoreWr
    <2>2. StoreWr.on /\ StoreWr.part = io.part /\ StoreWr.buf = io.buf
      BY <2>1
    <2>3. CASE io.clean
      <3>1. cand' = [cand EXCEPT ![io.part] = {io.buf}] /\ Sound' = Sound \cup {io.part}
        BY <1>1, <1>3, <2>3 DEF Return, Sound
      <3>2. Store!StoreDone
        BY <1>1, <1>2, <2>2, <3>1 DEF Store!StoreDone, Store!NoWrite, StoreWr
      <3> QED BY <3>2 DEF Store!StoreNext
    <2>4. CASE ~io.clean
      <3>1. UNCHANGED <<cand, hurt, unfixed>> /\ io.part \notin Sound
        <4>1. UNCHANGED <<cand, hurt, unfixed>>
          BY <2>4 DEF Return
        <4>2. io # Idle
          BY SMTT(60) DEF Return, Idle
        <4>3. io.part \in hurt
          BY <2>4, <4>2 DEF DiskInv, JobInv
        <4> QED BY <4>1, <4>3 DEF Sound
      <3>2. Sound' = Sound
        BY <3>1 DEF Sound
      <3>3. Store!StoreGiveUp
        BY <1>1, <1>2, <2>2, <3>1, <3>2 DEF Store!StoreGiveUp, Store!NoWrite, StoreWr
      <3> QED BY <3>3 DEF Store!StoreNext
    <2> QED BY <2>3, <2>4
  <1>4. CASE io.job # "write"
    <2>1. UNCHANGED <<cand, hurt, unfixed>> /\ StoreWr = [on |-> FALSE]
      BY <1>4 DEF Return, StoreWr
    <2>2. Sound' = Sound
      BY <2>1 DEF Sound
    <2> QED BY <1>1, <1>2, <2>1, <2>2 DEF Store!storeVars, StoreWr
  <1> QED BY <1>3, <1>4

LEMMA RestartMaps ==
  ASSUME DaemonCrash \/ PowerCut
  PROVE  Store!StoreRestart
  <1>1. /\ io' = Idle /\ loaded' = [p \in Parts |-> Unread] /\ UNCHANGED cand
        /\ Sound' = Sound
    BY DEF DaemonCrash, PowerCut, Sound
  <1>2. StoreWr' = [on |-> FALSE]
    BY <1>1 DEF StoreWr, Idle
  <1> QED BY <1>1, <1>2 DEF Store!StoreRestart, Store!NoWrite, StoreWr

\* A step of the store is a step of NvStore or changes nothing a caller sees.
LEMMA StoreStepMaps ==
  ASSUME DiskInv, [RamDiskNext]_diskVars
  PROVE  [Store!StoreNext]_(Store!storeVars)
  <1>1. CASE UNCHANGED diskVars
    BY <1>1 DEF diskVars, Store!storeVars, Sound
  <1>2. CASE \E p \in Parts : ramDisk_Read(p)
    BY <1>2, ReadMaps DEF Store!StoreNext
  <1>3. CASE \E p \in Parts, c \in Writes :
                (\A q \in Parts : loaded[q] # Unread) /\ BeginWrite(p, c)
    BY <1>3, BeginWriteMaps DEF Store!StoreNext
  <1>4. CASE WriteHeader
    <2>1. io \in Jobs /\ io.part \in Parts /\ [io EXCEPT !.clean = FALSE] \in Jobs
      BY <1>4, JobTyped DEF DiskInv, WriteHeader, Jobs
    <2>2. io'.part = io.part /\ io'.job = io.job /\ io'.buf = io.buf
      BY <1>4, <2>1, NextImageFields DEF WriteHeader, Jobs
    <2> QED BY <1>4, <2>1, <2>2, JobStepMaps DEF WriteHeader, NoFault, Fault
  <1>5. CASE WriteBody
    <2>1. io \in Jobs /\ io.part \in Parts
      BY <1>5, JobTyped DEF DiskInv, WriteBody, Jobs
    <2>2. io'.part = io.part /\ io'.job = io.job /\ io'.buf = io.buf
      BY <1>5, <2>1 DEF WriteBody, Jobs
    <2> QED BY <1>5, <2>1, <2>2, JobStepMaps DEF WriteBody, NoFault, Fault
  <1>6. CASE Fsync
    <2>1. io \in Jobs /\ io.part \in Parts /\ [io EXCEPT !.clean = FALSE] \in Jobs
      BY <1>6, JobTyped DEF DiskInv, Fsync, Jobs
    <2>2. io'.part = io.part /\ io'.job = io.job /\ io'.buf = io.buf
      BY SMTT(60), <1>6, <2>1, NextImageFields DEF Fsync, Jobs
    <2> QED BY <1>6, <2>1, <2>2, JobStepMaps DEF Fsync, NoFault, Fault
  <1>7. CASE Return
    BY <1>7, ReturnMaps
  <1>8. CASE Writeback
    BY <1>8 DEF Writeback, Store!storeVars, Sound
  <1>9. CASE DaemonCrash \/ PowerCut
    BY <1>9, RestartMaps DEF Store!StoreNext
  <1> QED BY <1>1, <1>2, <1>3, <1>4, <1>5, <1>6, <1>7, <1>8, <1>9 DEF RamDiskNext

\* nvitem_fs.c keeps the promise that nvitem_buf.c builds on.
THEOREM DiskImplementsStore == RamDiskSpec => ImplementsStore
  <1>1. DiskInv /\ [RamDiskNext]_diskVars => [Store!StoreNext]_(Store!storeVars)
    BY StoreStepMaps
  <1> QED BY <1>1, StoreInitMaps, DiskInvAlways, PTL DEF RamDiskSpec, ImplementsStore, Store!StoreSpec
=============================================================================
