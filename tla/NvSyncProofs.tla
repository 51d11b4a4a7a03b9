---------------------------- MODULE NvSyncProofs ----------------------------
(***************************************************************************)
(* The properties of the packet layer and of the request parser, for any   *)
(* requests, partitions, contents and number of sectors.                   *)
(*                                                                         *)
(* What the invariant adds to the properties:                              *)
(*   TypeInv     the packet last read and the request have their types;    *)
(*   ParserInv   a parser that is not busy is in its initial state, and so *)
(*               is one whose channel was closed;                          *)
(*   CopyInv     the incoming copy differs from the committed one only in  *)
(*               the partition of the request, and only announced sectors  *)
(*               are going to be written.                                  *)
(* These give RollbackClean and ImplementsIntake for whatever the modem    *)
(* sends.  What is committed and answered depends on the requests, which   *)
(* are given with their walk W (NvWalk):                                   *)
(*   PlaceInv     a parser that is busy is at a position of the walk of    *)
(*                its group's request, and the incoming copy is what the   *)
(*                writes so far make of the committed one;                 *)
(*   GivenUpInv   a group whose parser is idle again was given up, so its  *)
(*                request is never committed, or it was at its last packet;*)
(*   DoneInv      a group that was committed is of a request that commits; *)
(*   AnswerInv    one that was answered with 0 is not.                     *)
(* They hold until a packet left over from a cut read is analyzed (torn).  *)
(***************************************************************************)
EXTENDS NvWalk, TLAPS

USE ZenonT(60)

RealPacket ==
    [grp : Nat, sub : Nat, items : Seq(Items), req : Requests, whole : BOOLEAN]
PacketType == RealPacket \cup {NoPacket}

TypeInv ==
    /\ SyncTypeOK
    /\ pkt \in PacketType
    /\ pc \in {"parse", "event"} => pkt \in RealPacket
    /\ req \in Requests \cup {NoRequest}

ParserInv ==
    /\ sync.state = 0 => sync.id = NoGroup
    /\ ~sync.busy \/ pc = "closed" => sync = SyncIdle
    /\ pc \in {"read", "closed"} => rest = <<>>
    /\ pc \in {"parse", "event"} => sync.busy
    /\ pc = "event" => sync.state = 1

\* The sectors that the body announced and that have not come yet.
Announced == {s \in Sectors : sync.start <= s /\ s < sync.start + sync.len}

CopyInv ==
    /\ \A p \in Parts :
          sync.state = 0 \/ p # sync.id \/ pc = "event" =>
              buf[p].fromChannel.data = buf[p].backup.data
    /\ sync.state = 2 => Announced \subseteq buf[sync.id].fromChannel.dirty

SyncInv == TypeInv /\ ParserInv /\ CopyInv
-----------------------------------------------------------------------------
\* A step inside a request that touches only its own partition.
LEMMA CopyKept ==
  ASSUME CopyInv, sync.state # 0, sync'.state # 0, sync'.id = sync.id, pc' # "event",
         \A q \in Parts \ {sync.id} : buf'[q] = buf[q],
         sync'.state = 2 => Announced' \subseteq buf'[sync.id].fromChannel.dirty
  PROVE  CopyInv'
  <1>1. ASSUME NEW p \in Parts, sync'.state = 0 \/ p # sync'.id \/ pc' = "event"
        PROVE  buf'[p].fromChannel.data = buf'[p].backup.data
    <2>1. p # sync.id /\ buf'[p] = buf[p]
      BY <1>1
    <2> QED BY <2>1 DEF CopyInv
  <1> QED BY <1>1 DEF CopyInv

LEMMA Facts ==
  /\ NumSectors \in Nat /\ Erased \in Vals /\ NoGroup \notin Nat /\ MaxGroups \in Nat
  /\ Parts \subseteq PartIds
  BY NvDataAssumption, NvSyncAssumption

LEMMA RequestTypes ==
  ASSUME NEW r \in Requests
  PROVE  r.packets \in Seq(Seq(Items)) /\ r.packets # <<>>
  BY NvSyncAssumption

\* The fields of an item are those of its kind.
LEMMA ItemFields ==
  ASSUME NEW i \in Items
  PROVE  /\ i.t = "head" => i.idx \in Nat /\ i.part \in PartIds
         /\ i.t = "body" => i.idx \in Nat /\ i.start \in Sectors /\ i.num \in Nat \ {0}
         /\ i.t = "tail" => i.idx \in Nat
         /\ i.t = "data" => i.val \in Vals
         /\ Val(i) \in Vals
  <1>1. CASE i \in [t : {"head"}, idx : Nat, part : PartIds]
    BY <1>1, Facts DEF Val
  <1>2. CASE i \in [t : {"body"}, idx : Nat, start : Sectors, num : Nat \ {0}]
    BY <1>2, Facts DEF Val
  <1>3. CASE i \in [t : {"tail"}, idx : Nat]
    BY <1>3, Facts DEF Val
  <1>4. CASE i \in [t : {"data"}, val : Vals]
    BY <1>4, Facts DEF Val
  <1>5. CASE i \in {ShortItem, JunkItem}
    BY SMTT(60), <1>5, Facts DEF Val, ShortItem, JunkItem
  <1> QED BY <1>1, <1>2, <1>3, <1>4, <1>5 DEF Items

\* The packets of a request are sequences of items.
LEMMA PacketTyped ==
  ASSUME NEW r \in Requests \cup {NoRequest}, NEW g \in Nat, NEW k \in 0 .. Len(r.packets) - 1
  PROVE  /\ r \in Requests
         /\ Packet(r, g, k) \in RealPacket
         /\ k \in Nat /\ k < Len(r.packets)
  <1>1. r # NoRequest
    BY SMTT(60) DEF NoRequest
  <1>2. r \in Requests
    BY <1>1
  <1>3. r.packets \in Seq(Seq(Items))
    BY <1>2, RequestTypes
  <1>4. k + 1 \in 1 .. Len(r.packets)
    BY SMTT(60), <1>3
  <1>5. r.packets[k + 1] \in Seq(Items)
    BY SMTT(60), <1>3, <1>4
  <1> QED BY SMTT(60), <1>2, <1>3, <1>4, <1>5 DEF Packet, RealPacket

LEMMA PacketItems ==
  ASSUME NEW k \in PacketType
  PROVE  k.items \in Seq(Items) /\ k.grp \in Nat /\ k.sub \in Nat
  <1>1. CASE k \in RealPacket
    BY <1>1 DEF RealPacket
  <1>2. CASE k = NoPacket
    <2>1. k.items = <<>> /\ k.grp = 0 /\ k.sub = 0
      BY <1>2 DEF NoPacket
    <2> QED BY SMTT(60), <2>1
  <1> QED BY <1>1, <1>2 DEF PacketType

LEMMA CutTyped ==
  ASSUME NEW k \in RealPacket, NEW n \in Nat, pkt \in PacketType
  PROVE  /\ Cut(k, n) \in RealPacket
         /\ Cut(k, n).grp = k.grp /\ Cut(k, n).sub = k.sub /\ Cut(k, n).req = k.req
         /\ ~Cut(k, n).whole
  <1> DEFINE new == [i \in 1 .. Len(k.items) |->
                       IF i <= n THEN k.items[i]
                       ELSE IF i <= Len(pkt.items) THEN pkt.items[i] ELSE JunkItem]
  <1>1. k.items \in Seq(Items) /\ pkt.items \in Seq(Items)
    BY PacketItems DEF PacketType
  <1>2. JunkItem \in Items
    BY DEF Items
  <1>3. \A i \in 1 .. Len(k.items) : new[i] \in Items
    BY SMTT(60), <1>1, <1>2
  <1>4. new \in Seq(Items)
    <2>1. Len(k.items) \in Nat
      BY SMTT(60), <1>1
    <2>2. DOMAIN new = 1 .. Len(k.items)
      OBVIOUS
    <2>3. new = [i \in DOMAIN new |-> new[i]]
      OBVIOUS
    <2> HIDE DEF new
    <2>4. new \in [1 .. Len(k.items) -> Items]
      BY <1>3, <2>2, <2>3
    <2> QED BY SMTT(60), <2>1, <2>4
  <1>5. Cut(k, n) = [k EXCEPT !.whole = FALSE, !.items = new]
    BY DEF Cut
  <1> HIDE DEF new
  <1> QED BY <1>4, <1>5 DEF RealPacket

\* The operations of nvitem_buf.c keep the type of the copies, and say what they
\* do to the data.
LEMMA BufOps ==
  ASSUME NEW b \in PartCtl
  PROVE  /\ backupData(b) \in PartCtl
         /\ restoreData(b) \in PartCtl
         /\ \A i, n \in Nat : markDirtyInfo(b, i, n) \in PartCtl
         /\ \A i, n \in Nat : \A v \in Content : writeData(b, i, n, v) \in PartCtl
  <1>1. b.fromChannel \in Buf /\ b.backup \in Buf /\ b.toDisk \in Buf
    BY DEF PartCtl
  <1>2. backupData(b) \in PartCtl /\ restoreData(b) \in PartCtl
    BY <1>1 DEF PartCtl, Buf, Copy, backupData, restoreData
  <1>3. ASSUME NEW i \in Nat, NEW n \in Nat
        PROVE  markDirtyInfo(b, i, n) \in PartCtl
    BY <1>1 DEF PartCtl, Buf, Copy, markDirtyInfo
  <1>4. ASSUME NEW i \in Nat, NEW n \in Nat, NEW v \in Content
        PROVE  writeData(b, i, n, v) \in PartCtl
    BY <1>1 DEF PartCtl, Buf, Content, Copy, writeData
  <1> QED BY <1>2, <1>3, <1>4

\* _syncReset(SYNC_FAIL_RESET) leaves every incoming copy equal to the committed
\* one and touches no other copy.
LEMMA ResetClean ==
  ASSUME SyncInv
  PROVE  /\ Restored \in [Parts -> PartCtl]
         /\ \A p \in Parts : /\ Restored[p].backup = buf[p].backup
                             /\ Restored[p].fromChannel.data = buf[p].backup.data
  <1>1. CASE sync.state = 0
    BY <1>1 DEF SyncInv, TypeInv, SyncTypeOK, CopyInv, Restored
  <1>2. CASE sync.state # 0
    <2>1. sync.id \in Parts /\ buf \in [Parts -> PartCtl]
      BY <1>2 DEF SyncInv, TypeInv, SyncTypeOK
    <2>2. Restored = [buf EXCEPT ![sync.id] = restoreData(buf[sync.id])]
      BY <1>2 DEF Restored
    <2>3. restoreData(buf[sync.id]) \in PartCtl
      BY <2>1, BufOps
    <2>4. /\ restoreData(buf[sync.id]).backup = buf[sync.id].backup
          /\ restoreData(buf[sync.id]).fromChannel = buf[sync.id].backup
      BY DEF restoreData
    <2>5. \A p \in Parts \ {sync.id} : buf[p].fromChannel.data = buf[p].backup.data
      BY DEF SyncInv, CopyInv
    <2> QED BY <2>1, <2>2, <2>3, <2>4, <2>5
  <1> QED BY <1>1, <1>2

Begun == [SyncIdle EXCEPT !.busy = TRUE]

SyncType ==
    [state : 0 .. 2, busy : BOOLEAN, frame : Nat, id : Parts \cup {NoGroup}, start : Nat, len : Nat]

LEMMA IdleTypes ==
  /\ SyncIdle \in SyncType /\ SyncIdle.state = 0 /\ SyncIdle.id = NoGroup /\ ~SyncIdle.busy
  /\ Begun \in SyncType /\ Begun.state = 0 /\ Begun.id = NoGroup /\ Begun.busy
  <1>1. SyncIdle \in SyncType /\ SyncIdle.state = 0 /\ SyncIdle.id = NoGroup
    BY SMTT(60) DEF SyncIdle, SyncType
  <1>2. SyncIdle.busy = FALSE
    BY DEF SyncIdle
  <1>3. Begun.state = 0 /\ Begun.id = NoGroup
    BY DEF SyncIdle, Begun
  <1>4. Begun.busy = TRUE
    BY DEF SyncIdle, Begun
  <1>5. Begun \in SyncType
    BY <1>1 DEF Begun, SyncType
  <1> QED BY <1>1, <1>2, <1>3, <1>4, <1>5

\* A parser in its initial state, with every incoming copy clean, keeps the
\* invariant.
LEMMA IdleInv ==
  ASSUME TypeInv',
         sync' \in {SyncIdle, Begun},
         \A p \in Parts : buf'[p].fromChannel.data = buf'[p].backup.data,
         pc' \in {"read", "closed"} => sync' = SyncIdle /\ rest' = <<>>,
         pc' = "parse" => sync' = Begun,
         pc' # "event"
  PROVE  SyncInv'
  <1>1. ParserInv'
    BY IdleTypes DEF ParserInv, TypeInv, SyncTypeOK
  <1>2. CopyInv'
    BY SMTT(60), IdleTypes DEF CopyInv
  <1> QED BY <1>1, <1>2 DEF SyncInv
-----------------------------------------------------------------------------
LEMMA InitInv == SyncInit => SyncInv
  <1> SUFFICES ASSUME SyncInit PROVE SyncInv
    OBVIOUS
  <1>1. PICK c \in [Parts -> {Blank}] : buf = [p \in Parts |-> initBuf(c[p])] /\ applied = c
    BY DEF SyncInit
  <1>2. Blank \in Content
    BY Facts DEF Blank, Content
  <1>3. \A p \in Parts : c[p] \in Content
    BY <1>1, <1>2
  <1>4. \A p \in Parts : initBuf(c[p]) \in PartCtl
    BY <1>3 DEF initBuf, Copy, PartCtl, Buf
  <1>5. applied \in [Parts -> Content] /\ buf \in [Parts -> PartCtl]
    BY <1>1, <1>3, <1>4
  <1>6. TypeInv
    <2>1. SyncTypeOK
      BY SMTT(60), <1>5, Facts, IdleTypes DEF SyncInit, SyncTypeOK, SyncType
    <2>2. pkt \in PacketType
      BY DEF SyncInit, PacketType
    <2> QED BY <2>1, <2>2 DEF TypeInv, SyncInit
  <1>7. ParserInv
    BY IdleTypes DEF SyncInit, ParserInv
  <1>8. CopyInv
    BY SMTT(60), <1>1, IdleTypes DEF SyncInit, CopyInv, initBuf, Copy
  <1> QED BY <1>6, <1>7, <1>8 DEF SyncInv

\* _getPacket and the start of syncAnalyzer.
LEMMA AnalyzeInv ==
  ASSUME SyncInv, pc = "read", NEW k \in PacketType, Analyze(k), pkt' = k,
         UNCHANGED <<req, grp, done, applied>>
  PROVE  SyncInv'
  <1>1. k.items \in Seq(Items) /\ k.grp \in Nat /\ k.sub \in Nat
    BY PacketItems
  <1>2. rest = <<>>
    BY DEF SyncInv, ParserInv
  <1>3. CASE /\ Starts(k)
             /\ idxGrp' = k.grp /\ idxSub' = 0
             /\ buf' = IF sync.busy THEN Restored ELSE buf
             /\ sync' = [IF sync.busy THEN SyncIdle ELSE sync EXCEPT !.busy = TRUE]
             /\ rest' = k.items
             /\ pc' = "parse"
    <2>1. sync' = Begun
      BY <1>3 DEF Begun, SyncInv, ParserInv
    <2>2. /\ buf' \in [Parts -> PartCtl]
          /\ \A p \in Parts : buf'[p].fromChannel.data = buf'[p].backup.data
      <3>1. CASE sync.busy
        BY <1>3, <3>1, ResetClean
      <3>2. CASE ~sync.busy
        BY <1>3, <3>2, IdleTypes DEF SyncInv, ParserInv, CopyInv, TypeInv, SyncTypeOK
      <3> QED BY <3>1, <3>2
    <2>3. k \in RealPacket
      BY <1>3 DEF Starts, PacketType
    <2>4. TypeInv'
      BY <1>1, <1>3, <2>1, <2>2, <2>3, IdleTypes DEF SyncInv, TypeInv, SyncTypeOK, SyncType
    <2> QED BY <1>3, <2>1, <2>2, <2>4, IdleInv
  <1>4. CASE /\ Continues(k)
             /\ idxSub' = idxSub + 1
             /\ sync.busy
             /\ rest' = k.items
             /\ pc' = "parse"
             /\ UNCHANGED <<idxGrp, buf, sync>>
    <2>0. k \in RealPacket
      BY SMTT(60), <1>4 DEF Continues, PacketType, NoPacket, SyncInv, TypeInv, SyncTypeOK
    <2>1. TypeInv'
      BY SMTT(60), <1>1, <1>4, <2>0 DEF SyncInv, TypeInv, SyncTypeOK
    <2>2. ParserInv'
      BY <1>4 DEF SyncInv, ParserInv
    <2>3. CopyInv'
      BY <1>4 DEF SyncInv, CopyInv, Announced
    <2> QED BY <2>1, <2>2, <2>3 DEF SyncInv
  <1>5. CASE /\ idxSub' \in {idxSub, idxSub + 1}
             /\ UNCHANGED <<idxGrp, buf, sync, rest, pc>>
    <2>1. TypeInv'
      BY SMTT(60), <1>1, <1>5 DEF SyncInv, TypeInv, SyncTypeOK
    <2>2. ParserInv'
      BY <1>5 DEF SyncInv, ParserInv
    <2>3. CopyInv'
      BY <1>5 DEF SyncInv, CopyInv, Announced
    <2> QED BY <2>1, <2>2, <2>3 DEF SyncInv
  <1> QED BY <1>3, <1>4, <1>5 DEF Analyze

LEMMA ReadPacketInv == SyncInv /\ ReadPacket => SyncInv'
  <1> SUFFICES ASSUME SyncInv, ReadPacket PROVE SyncInv'
    OBVIOUS
  <1>1. PICK k \in 0 .. Len(req.packets) - 1 : pkt' = Packet(req, grp, k) /\ Analyze(pkt')
    BY DEF ReadPacket
  <1>2. Packet(req, grp, k) \in PacketType
    BY SMTT(60), PacketTyped DEF SyncInv, TypeInv, SyncTypeOK, PacketType
  <1> QED BY <1>1, <1>2, AnalyzeInv DEF ReadPacket

LEMMA ReadErrorInv == SyncInv /\ ReadError => SyncInv'
  BY AnalyzeInv DEF ReadError, SyncInv, TypeInv

LEMMA ReadShortInv == SyncInv /\ ReadShort => SyncInv'
  <1> SUFFICES ASSUME SyncInv, ReadShort PROVE SyncInv'
    OBVIOUS
  <1>1. pkt' \in PacketType
    <2>1. CASE UNCHANGED pkt
      BY <2>1 DEF SyncInv, TypeInv
    <2>2. CASE \E k \in 0 .. Len(req.packets) - 1 : \E n \in 0 .. Len(req.packets[k + 1]) - 1 :
                   pkt' = Cut(Packet(req, grp, k), n)
      <3>0. PICK k \in 0 .. Len(req.packets) - 1 : \E n \in 0 .. Len(req.packets[k + 1]) - 1 :
                   pkt' = Cut(Packet(req, grp, k), n)
        BY <2>2
      <3>1. PICK n \in 0 .. Len(req.packets[k + 1]) - 1 : pkt' = Cut(Packet(req, grp, k), n)
        BY <3>0
      <3>2. Packet(req, grp, k) \in RealPacket
        BY SMTT(60), PacketTyped DEF SyncInv, TypeInv, SyncTypeOK
      <3> QED BY SMTT(60), <3>1, <3>2, CutTyped DEF SyncInv, TypeInv, PacketType
    <2> QED BY <2>1, <2>2 DEF ReadShort
  <1>2. buf' = Restored /\ sync' = SyncIdle /\ pc' = "closed" /\ rest' = <<>>
    BY DEF ReadShort, SyncInv, ParserInv
  <1>3. TypeInv'
    BY <1>1, <1>2, ResetClean, IdleTypes DEF ReadShort, SyncInv, TypeInv, SyncTypeOK, SyncType
  <1> QED BY <1>2, <1>3, ResetClean, IdleInv

LEMMA ReopenInv == SyncInv /\ Reopen => SyncInv'
  <1> SUFFICES ASSUME SyncInv, Reopen PROVE SyncInv'
    OBVIOUS
  <1>1. sync = SyncIdle /\ sync' = SyncIdle /\ rest' = <<>> /\ pc' = "read" /\ buf' = buf
    BY DEF SyncInv, ParserInv, Reopen
  <1>2. TypeInv'
    BY <1>1 DEF Reopen, SyncInv, TypeInv, SyncTypeOK
  <1>3. \A p \in Parts : buf'[p].fromChannel.data = buf'[p].backup.data
    BY <1>1, IdleTypes DEF SyncInv, CopyInv
  <1> QED BY <1>1, <1>2, <1>3, IdleInv

LEMMA ModemRequestInv == ASSUME NEW r \in Requests PROVE SyncInv /\ ModemRequest(r) => SyncInv'
  <1> SUFFICES ASSUME SyncInv, ModemRequest(r) PROVE SyncInv'
    OBVIOUS
  <1>1. TypeInv'
    BY SMTT(60), Facts DEF ModemRequest, SyncInv, TypeInv, SyncTypeOK
  <1>2. ParserInv'
    BY DEF ModemRequest, SyncInv, ParserInv
  <1>3. CopyInv'
    BY DEF ModemRequest, SyncInv, CopyInv, Announced
  <1> QED BY <1>1, <1>2, <1>3 DEF SyncInv
-----------------------------------------------------------------------------
(* The loop of syncAnalyzer. *)

LEMMA TokenTyped ==
  ASSUME SyncInv, rest # <<>>
  PROVE  /\ Head(rest) \in Items /\ Tail(rest) \in Seq(Items)
         /\ Len(rest) \in Nat \ {0}
  BY SMTT(60) DEF SyncInv, TypeInv, SyncTypeOK

LEMMA FailInv ==
  ASSUME SyncInv, pc = "parse", Fail, UNCHANGED <<pkt, idxGrp, idxSub, req, grp, applied>>
  PROVE  SyncInv'
  <1>1. buf' = Restored /\ sync' = SyncIdle /\ pc' = "read" /\ rest' = <<>>
    BY DEF Fail, Answer
  <1>2. TypeInv'
    BY SMTT(60), <1>1, ResetClean, IdleTypes DEF SyncInv, TypeInv, SyncTypeOK, SyncType
  <1> QED BY <1>1, <1>2, ResetClean, IdleInv

LEMMA WaitInv ==
  ASSUME SyncInv, pc = "parse", WaitForMore, UNCHANGED <<pkt, idxGrp, idxSub, req, grp, applied>>
  PROVE  SyncInv'
  <1>1. UNCHANGED <<buf, sync>> /\ pc' = "read" /\ rest' = <<>>
    BY DEF WaitForMore, Answer
  <1>2. TypeInv'
    BY SMTT(60), <1>1 DEF SyncInv, TypeInv, SyncTypeOK
  <1>3. ParserInv'
    BY <1>1 DEF SyncInv, ParserInv
  <1>4. CopyInv'
    BY <1>1 DEF SyncInv, CopyInv, Announced
  <1> QED BY <1>2, <1>3, <1>4 DEF SyncInv

LEMMA ParseHeadInv == SyncInv /\ ParseHead => SyncInv'
  <1> SUFFICES ASSUME SyncInv, ParseHead PROVE SyncInv'
    OBVIOUS
  <1>1. /\ pc = "parse" /\ rest # <<>> /\ sync.state = 0
        /\ UNCHANGED <<pkt, idxGrp, idxSub, req, grp, done, applied, torn>>
    BY DEF ParseHead, Parsing
  <1>2. CASE WaitForMore
    BY <1>1, <1>2, WaitInv
  <1>3. CASE Fail
    BY <1>1, <1>3, FailInv
  <1>4. CASE /\ KnownHead(Head(rest))
             /\ sync' = [sync EXCEPT !.state = 1, !.frame = Head(rest).idx, !.id = Head(rest).part]
             /\ rest' = Tail(rest)
             /\ UNCHANGED <<buf, pc, rsps>>
    <2>1. Head(rest).idx \in Nat /\ Head(rest).part \in Parts
      BY <1>1, <1>4, TokenTyped, ItemFields DEF KnownHead
    <2>2. sync \in SyncType
      BY DEF SyncInv, TypeInv, SyncTypeOK, SyncType
    <2>3. sync' \in SyncType /\ sync'.state = 1 /\ sync'.id \in Parts /\ sync'.busy = sync.busy
      <3>1. sync' = [state |-> 1, busy |-> sync.busy, frame |-> Head(rest).idx,
                     id |-> Head(rest).part, start |-> sync.start, len |-> sync.len]
        BY <1>4, <2>2 DEF SyncType
      <3> QED BY SMTT(60), <2>1, <2>2, <3>1 DEF SyncType
    <2>4. TypeInv'
      BY <1>1, <1>4, <2>3, TokenTyped DEF SyncInv, TypeInv, SyncTypeOK, SyncType
    <2>5. ParserInv'
      BY SMTT(60), <1>1, <1>4, <2>3 DEF SyncInv, ParserInv
    <2>6. CopyInv'
      BY SMTT(60), <1>1, <1>4, <2>3 DEF SyncInv, CopyInv
    <2> QED BY <2>4, <2>5, <2>6 DEF SyncInv
  <1> QED BY <1>2, <1>3, <1>4 DEF ParseHead

LEMMA ParseBodyInv == SyncInv /\ ParseBody => SyncInv'
  <1> SUFFICES ASSUME SyncInv, ParseBody PROVE SyncInv'
    OBVIOUS
  <1>1. /\ pc = "parse" /\ rest # <<>> /\ sync.state = 1
        /\ UNCHANGED <<pkt, idxGrp, idxSub, req, grp, done, applied, torn>>
    BY DEF ParseBody, Parsing
  <1>2. CASE WaitForMore
    BY <1>1, <1>2, WaitInv
  <1>3. CASE Fail
    BY <1>1, <1>3, FailInv
  <1>4. CASE /\ Head(rest).t = "body"
             /\ buf' = [buf EXCEPT ![sync.id] =
                          markDirtyInfo(@, Head(rest).start, Head(rest).num)]
             /\ sync' = [sync EXCEPT !.state = 2, !.frame = Head(rest).idx,
                                     !.start = Head(rest).start, !.len = Head(rest).num]
             /\ rest' = Tail(rest)
             /\ UNCHANGED <<pc, rsps>>
    <2> DEFINE i == Head(rest).start
               n == Head(rest).num
               p == sync.id
    <2>1. Head(rest).idx \in Nat /\ i \in Sectors /\ n \in Nat
      BY <1>1, <1>4, TokenTyped, ItemFields
    <2>2. i \in Nat
      BY SMTT(60), <2>1, Facts DEF Sectors
    <2>3. p \in Parts /\ buf \in [Parts -> PartCtl] /\ sync \in SyncType
      BY SMTT(60), <1>1 DEF SyncInv, TypeInv, SyncTypeOK, SyncType
    <2>4. markDirtyInfo(buf[p], i, n) \in PartCtl
      BY <2>1, <2>2, <2>3, BufOps
    <2>5. /\ markDirtyInfo(buf[p], i, n).fromChannel.data = buf[p].fromChannel.data
          /\ markDirtyInfo(buf[p], i, n).backup = buf[p].backup
          /\ {s \in Sectors : i <= s /\ s < i + n}
                \subseteq markDirtyInfo(buf[p], i, n).fromChannel.dirty
      BY DEF markDirtyInfo, Copy
    <2>6. /\ buf' \in [Parts -> PartCtl]
          /\ buf'[p] = markDirtyInfo(buf[p], i, n)
          /\ \A q \in Parts \ {p} : buf'[q] = buf[q]
      BY <1>4, <2>3, <2>4
    <2>7. /\ sync' \in SyncType /\ sync'.state = 2 /\ sync'.id = p /\ sync'.busy = sync.busy
          /\ sync'.start = i /\ sync'.len = n
      <3>1. sync' = [state |-> 2, busy |-> sync.busy, frame |-> Head(rest).idx,
                     id |-> sync.id, start |-> i, len |-> n]
        BY <1>4, <2>3 DEF SyncType
      <3> QED BY SMTT(60), <2>1, <2>2, <2>3, <3>1 DEF SyncType
    <2> HIDE DEF i, n, p
    <2>8. TypeInv'
      BY <1>1, <1>4, <2>3, <2>6, <2>7, TokenTyped DEF SyncInv, TypeInv, SyncTypeOK, SyncType
    <2>9. ParserInv'
      BY SMTT(60), <1>1, <1>4, <2>7 DEF SyncInv, ParserInv
    <2>10. CopyInv'
      <3>1. buf'[sync.id] = markDirtyInfo(buf[p], i, n) /\ sync'.id = sync.id
        BY <2>6, <2>7 DEF p
      <3>2. Announced' \subseteq buf'[sync.id].fromChannel.dirty
        BY <2>5, <2>7, <3>1 DEF Announced
      <3>3. sync.state # 0 /\ sync'.state # 0
        BY SMTT(60), <1>1, <2>7
      <3>4. pc' # "event" /\ \A q \in Parts \ {sync.id} : buf'[q] = buf[q]
        BY <1>1, <1>4, <2>6 DEF p
      <3> QED BY <1>1, <3>1, <3>2, <3>3, <3>4, CopyKept DEF SyncInv
    <2> QED BY <2>8, <2>9, <2>10 DEF SyncInv
  <1> QED BY <1>2, <1>3, <1>4 DEF ParseBody

\* What _syncGetData writes: the first n items that are left, from sector
\* sync.start on.
Given(n) ==
    [s \in Sectors |-> IF sync.start <= s /\ s < sync.start + n
                         THEN Val(rest[s - sync.start + 1]) ELSE Erased]

LEMMA GivenTyped ==
  ASSUME SyncInv, NEW n \in 0 .. Len(rest)
  PROVE  Given(n) \in Content
  <1>1. rest \in Seq(Items) /\ sync.start \in Nat
    BY DEF SyncInv, TypeInv, SyncTypeOK
  <1>2. ASSUME NEW s \in Sectors, sync.start <= s, s < sync.start + n
        PROVE  Val(rest[s - sync.start + 1]) \in Vals
    <2>1. s - sync.start + 1 \in 1 .. Len(rest)
      BY SMTT(60), <1>1, <1>2, Facts DEF Sectors
    <2>2. rest[s - sync.start + 1] \in Items
      BY SMTT(60), <1>1, <2>1
    <2> QED BY <2>2, ItemFields
  <1> QED BY <1>2, Facts DEF Given, Content

\* ParseData in terms of Given: the announced sectors are all there, or the packet
\* ends first.
LEMMA ParseDataCases ==
  ASSUME SyncInv, ParseData
  PROVE  /\ pc = "parse" /\ rest # <<>> /\ sync.state = 2
         /\ UNCHANGED <<pkt, idxGrp, idxSub, req, grp, done, applied, torn>>
         /\ \/ /\ sync.len <= Len(rest)
               /\ buf' = [buf EXCEPT ![sync.id] =
                            writeData(buf[sync.id], sync.start, sync.len, Given(sync.len))]
               /\ sync' = [sync EXCEPT !.state = 1, !.start = @ + sync.len, !.len = 0]
               /\ rest' = SubSeq(rest, sync.len + 1, Len(rest))
               /\ UNCHANGED <<pc, rsps>>
            \/ /\ sync.len > Len(rest)
               /\ buf' = [buf EXCEPT ![sync.id] =
                            writeData(buf[sync.id], sync.start, Len(rest), Given(Len(rest)))]
               /\ sync' = [sync EXCEPT !.start = @ + Len(rest), !.len = @ - Len(rest)]
               /\ Answer(1)
  <1>1. sync.len \in Nat /\ Len(rest) \in Nat
    BY SMTT(60) DEF SyncInv, TypeInv, SyncTypeOK
  <1>2. CASE sync.len <= Len(rest)
    BY <1>2 DEF ParseData, Parsing, Given
  <1>3. CASE ~(sync.len <= Len(rest))
    BY SMTT(60), <1>1, <1>3 DEF ParseData, Parsing, Given
  <1> QED BY <1>2, <1>3

\* Data is written to the incoming copy only, and only to announced sectors.
Wrote(n) ==
    /\ sync.id \in Parts /\ buf' \in [Parts -> PartCtl]
    /\ \A q \in Parts \ {sync.id} : buf'[q] = buf[q]
    /\ buf'[sync.id].backup = buf[sync.id].backup
    /\ buf'[sync.id].toDisk = buf[sync.id].toDisk
    /\ buf'[sync.id].fromChannel.dirty = buf[sync.id].fromChannel.dirty
    /\ buf'[sync.id].fromChannel.data =
         [s \in Sectors |-> IF sync.start <= s /\ s < sync.start + n
                              THEN Given(n)[s] ELSE buf[sync.id].fromChannel.data[s]]

LEMMA WriteEffect ==
  ASSUME SyncInv, sync.state = 2, NEW n \in Nat, n <= sync.len, n <= Len(rest),
         buf' = [buf EXCEPT ![sync.id] = writeData(buf[sync.id], sync.start, n, Given(n))]
  PROVE  Wrote(n)
  <1>1. sync.id \in Parts /\ buf \in [Parts -> PartCtl] /\ sync.start \in Nat
    BY SMTT(60) DEF SyncInv, TypeInv, SyncTypeOK
  <1>2. n \in 0 .. Len(rest)
    BY SMTT(60) DEF SyncInv, TypeInv, SyncTypeOK
  <1>3. writeData(buf[sync.id], sync.start, n, Given(n)) \in PartCtl
    BY <1>1, <1>2, GivenTyped, BufOps
  <1>4. buf'[sync.id] = writeData(buf[sync.id], sync.start, n, Given(n))
    BY <1>1
  <1> QED BY <1>1, <1>3, <1>4 DEF Wrote, writeData, Copy

LEMMA ParseDataInv == SyncInv /\ ParseData => SyncInv'
  <1> SUFFICES ASSUME SyncInv, ParseData PROVE SyncInv'
    OBVIOUS
  <1>1. /\ pc = "parse" /\ rest # <<>> /\ sync.state = 2
        /\ UNCHANGED <<pkt, idxGrp, idxSub, req, grp, done, applied, torn>>
    BY ParseDataCases
  <1>2. /\ sync \in SyncType /\ sync.id \in Parts /\ sync.busy
        /\ sync.len \in Nat /\ sync.start \in Nat
        /\ rest \in Seq(Items) /\ Len(rest) \in Nat
    BY SMTT(60), <1>1 DEF SyncInv, TypeInv, SyncTypeOK, SyncType, ParserInv
  <1>3. CASE /\ sync.len <= Len(rest)
             /\ buf' = [buf EXCEPT ![sync.id] =
                          writeData(buf[sync.id], sync.start, sync.len, Given(sync.len))]
             /\ sync' = [sync EXCEPT !.state = 1, !.start = @ + sync.len, !.len = 0]
             /\ rest' = SubSeq(rest, sync.len + 1, Len(rest))
             /\ UNCHANGED <<pc, rsps>>
    <2>0. Wrote(sync.len)
      <3>1. /\ sync.len <= sync.len /\ sync.len <= Len(rest)
            /\ buf' = [buf EXCEPT ![sync.id] =
                         writeData(buf[sync.id], sync.start, sync.len, Given(sync.len))]
        BY SMTT(60), <1>2, <1>3
      <3> QED BY <1>1, <1>2, <3>1, WriteEffect
    <2>1. sync' \in SyncType /\ sync'.state = 1 /\ sync'.id = sync.id /\ sync'.busy
      <3>1. sync' = [state |-> 1, busy |-> sync.busy, frame |-> sync.frame,
                     id |-> sync.id, start |-> sync.start + sync.len, len |-> 0]
        BY <1>2, <1>3 DEF SyncType
      <3> QED BY SMTT(60), <1>2, <3>1 DEF SyncType
    <2>2. rest' \in Seq(Items)
      BY SMTT(60), <1>2, <1>3
    <2>3. TypeInv'
      BY <1>1, <1>2, <1>3, <2>0, <2>1, <2>2 DEF SyncInv, TypeInv, SyncTypeOK, SyncType, Wrote
    <2>4. ParserInv'
      BY <1>1, <1>3, <2>1 DEF SyncInv, ParserInv
    <2>5. CopyInv'
      <3>1. pc' # "event"
        BY <1>1, <1>3
      <3>2. sync.state # 0 /\ sync'.state # 0 /\ sync'.state # 2
        BY SMTT(60), <1>1, <2>1
      <3>3. \A q \in Parts \ {sync.id} : buf'[q] = buf[q]
        BY <2>0 DEF Wrote
      <3> QED BY <1>1, <2>1, <3>1, <3>2, <3>3, CopyKept DEF SyncInv
    <2> QED BY <2>3, <2>4, <2>5 DEF SyncInv
  <1>4. CASE /\ sync.len > Len(rest)
             /\ buf' = [buf EXCEPT ![sync.id] =
                          writeData(buf[sync.id], sync.start, Len(rest), Given(Len(rest)))]
             /\ sync' = [sync EXCEPT !.start = @ + Len(rest), !.len = @ - Len(rest)]
             /\ Answer(1)
    <2>0. Wrote(Len(rest))
      <3>1. /\ Len(rest) <= sync.len /\ Len(rest) <= Len(rest)
            /\ buf' = [buf EXCEPT ![sync.id] =
                         writeData(buf[sync.id], sync.start, Len(rest), Given(Len(rest)))]
        BY SMTT(60), <1>2, <1>4
      <3> QED BY <1>1, <1>2, <3>1, WriteEffect
    <2>1. /\ sync' \in SyncType /\ sync'.state = 2 /\ sync'.id = sync.id /\ sync'.busy
          /\ sync'.start = sync.start + Len(rest) /\ sync'.len = sync.len - Len(rest)
      <3>1. sync' = [state |-> sync.state, busy |-> sync.busy, frame |-> sync.frame,
                     id |-> sync.id, start |-> sync.start + Len(rest),
                     len |-> sync.len - Len(rest)]
        BY <1>2, <1>4 DEF SyncType
      <3>2. sync.len - Len(rest) \in Nat /\ sync.start + Len(rest) \in Nat
        BY SMTT(60), <1>2, <1>4
      <3>3. sync'.state = 2 /\ sync'.id = sync.id /\ sync'.busy = sync.busy
        BY <1>1, <3>1
      <3>4. sync' \in SyncType
        BY <1>1, <1>2, <3>1, <3>2 DEF SyncType
      <3>5. sync'.start = sync.start + Len(rest) /\ sync'.len = sync.len - Len(rest)
        BY <3>1
      <3> QED BY <1>2, <3>3, <3>4, <3>5
    <2>2. rest' = <<>> /\ pc' = "read"
      BY <1>4 DEF Answer
    <2>3. TypeInv'
      BY SMTT(60), <1>1, <1>2, <1>4, <2>0, <2>1, <2>2 DEF SyncInv, TypeInv, SyncTypeOK, SyncType, Wrote
    <2>4. ParserInv'
      BY SMTT(60), <2>1, <2>2 DEF ParserInv
    <2>5. Announced' \subseteq Announced
      BY SMTT(60), <1>2, <2>1, Facts DEF Announced, Sectors
    <2>6. CopyInv'
      <3>1. Announced' \subseteq buf'[sync.id].fromChannel.dirty
        BY <1>1, <2>0, <2>5 DEF SyncInv, CopyInv, Wrote
      <3>2. sync.state # 0 /\ sync'.state # 0 /\ pc' # "event"
        BY SMTT(60), <1>1, <2>1, <2>2
      <3>3. \A q \in Parts \ {sync.id} : buf'[q] = buf[q]
        BY <2>0 DEF Wrote
      <3> QED BY <1>1, <2>1, <3>1, <3>2, <3>3, CopyKept DEF SyncInv
    <2> QED BY <2>3, <2>4, <2>6 DEF SyncInv
  <1> QED BY <1>3, <1>4, ParseDataCases

LEMMA ParseTailInv == SyncInv /\ ParseTail => SyncInv'
  <1> SUFFICES ASSUME SyncInv, ParseTail PROVE SyncInv'
    OBVIOUS
  <1>1. /\ pc = "parse" /\ sync.state = 1 /\ pc' = "event"
        /\ buf' = [buf EXCEPT ![sync.id] = backupData(buf[sync.id])]
        /\ UNCHANGED <<pkt, idxGrp, idxSub, rest, sync, req, grp, rsps, torn>>
    BY DEF ParseTail, Parsing
  <1>2. sync.id \in Parts /\ buf \in [Parts -> PartCtl] /\ applied \in [Parts -> Content]
    BY SMTT(60), <1>1 DEF SyncInv, TypeInv, SyncTypeOK
  <1>3. /\ backupData(buf[sync.id]) \in PartCtl
        /\ backupData(buf[sync.id]).fromChannel.data = backupData(buf[sync.id]).backup.data
    BY <1>2, BufOps DEF backupData, Copy
  <1>4. applied' \in [Parts -> Content]
    <2>1. Apply(pkt.req.writes, applied[sync.id]) \in Content
      <3>1. pkt.req \in Requests
        BY <1>1 DEF SyncInv, TypeInv, RealPacket
      <3>2. PICK S \in SUBSET Sectors : pkt.req.writes \in [S -> Vals]
        BY <3>1, NvSyncAssumption
      <3> QED BY SMTT(60), <1>2, <3>2 DEF Apply, Content
    <2> QED BY <1>2, <2>1 DEF ParseTail
  <1>5. TypeInv'
    BY <1>1, <1>2, <1>3, <1>4 DEF SyncInv, TypeInv, SyncTypeOK
  <1>6. ParserInv'
    BY <1>1 DEF SyncInv, ParserInv
  <1>7. CopyInv'
    BY SMTT(60), <1>1, <1>2, <1>3 DEF SyncInv, CopyInv
  <1> QED BY <1>5, <1>6, <1>7 DEF SyncInv

LEMMA ParseEndInv == SyncInv /\ ParseEnd => SyncInv'
  <1> SUFFICES ASSUME SyncInv, ParseEnd PROVE SyncInv'
    OBVIOUS
  <1>1. TypeInv'
    BY DEF ParseEnd, SyncInv, TypeInv, SyncTypeOK
  <1>2. ParserInv'
    BY DEF ParseEnd, SyncInv, ParserInv
  <1>3. CopyInv'
    BY DEF ParseEnd, SyncInv, CopyInv, Announced
  <1> QED BY <1>1, <1>2, <1>3 DEF SyncInv

LEMMA CommittedInv == SyncInv /\ Committed => SyncInv'
  <1> SUFFICES ASSUME SyncInv, Committed PROVE SyncInv'
    OBVIOUS
  <1>1. /\ pc = "event" /\ sync' = SyncIdle /\ pc' = "read" /\ rest' = <<>>
        /\ UNCHANGED <<buf, pkt, idxGrp, idxSub, req, grp, done, applied, torn>>
    BY DEF Committed, Answer
  <1>2. TypeInv'
    BY SMTT(60), <1>1, IdleTypes DEF SyncInv, TypeInv, SyncTypeOK, SyncType
  <1>3. \A p \in Parts : buf'[p].fromChannel.data = buf'[p].backup.data
    BY <1>1 DEF SyncInv, CopyInv
  <1> QED BY <1>1, <1>2, <1>3, IdleInv

LEMMA StepInv == SyncInv /\ [SyncNext]_syncVars => SyncInv'
  <1>1. SyncInv /\ UNCHANGED syncVars => SyncInv'
    BY SMTT(60) DEF syncVars, SyncInv, TypeInv, SyncTypeOK, ParserInv, CopyInv, Announced
  <1> QED
    BY <1>1, ModemRequestInv, ReadPacketInv, ReadErrorInv, ReadShortInv, ReopenInv,
       ParseHeadInv, ParseBodyInv, ParseDataInv, ParseEndInv, ParseTailInv, CommittedInv
       DEF SyncNext, Receive

LEMMA AlwaysSyncInv == SyncSpec => []SyncInv
  <1> QED BY InitInv, StepInv, PTL DEF SyncSpec
-----------------------------------------------------------------------------
\* The parser and the buffers keep their types whatever the modem sends: no token
\* makes syncAnalyzer work on a partition that is not configured or on items that
\* are not in the packet.
THEOREM SyncTypes == SyncSpec => []SyncTypeOK
  <1>1. SyncInv => SyncTypeOK
    BY DEF SyncInv, TypeInv
  <1> QED BY <1>1, AlwaysSyncInv, PTL

\* RollbackClean for any requests: whatever was lost, repeated or cut short,
\* _syncReset leaves nothing in fromChannel that a later backupData would commit.
THEOREM AlwaysRollbackClean == SyncSpec => []RollbackClean
  <1>1. SyncInv => RollbackClean
    BY IdleTypes DEF SyncInv, ParserInv, CopyInv, RollbackClean
  <1> QED BY <1>1, AlwaysSyncInv, PTL
-----------------------------------------------------------------------------
(***************************************************************************)
(* The groups of packets, for whatever the modem sends: groups only grow,  *)
(* and the packets of one group are of one request.                        *)
(***************************************************************************)

GroupInv ==
    /\ pkt.grp <= grp
    /\ idxGrp # NoGroup => idxGrp <= pkt.grp
    /\ pkt.grp = grp => pkt.req = req
    /\ pkt \in RealPacket =>
         /\ pkt.sub < Len(pkt.req.packets)
         /\ pkt.whole => pkt.items = pkt.req.packets[pkt.sub + 1]
    /\ pc \in {"parse", "event"} => idxGrp = pkt.grp /\ idxSub = pkt.sub
    /\ pc = "event" => rest # <<>> /\ Head(rest).t = "tail" /\ Head(rest).idx = sync.frame + 1

\* r is the request of the group that is received, as long as packets of that
\* group can come.
OfGroup(r) == (idxGrp = pkt.grp => r = pkt.req) /\ (idxGrp = grp => r = req)

\* What a read may leave in packeBuf: a packet of the current group, or the one
\* before.
Fresh(k) ==
    /\ k \in PacketType
    /\ pkt.grp <= k.grp /\ k.grp <= grp
    /\ k.grp = grp => k.req = req
    /\ k.grp = pkt.grp => k.req = pkt.req
    /\ k \in RealPacket => /\ k.sub < Len(k.req.packets)
                           /\ k.whole => k.items = k.req.packets[k.sub + 1]

LEMMA ReadFresh ==
  ASSUME SyncInv, GroupInv, ReadPacket \/ ReadError \/ ReadShort
  PROVE  Fresh(pkt')
  <1>1. pkt \in PacketType /\ pkt.grp \in Nat /\ grp \in Nat /\ req \in Requests \cup {NoRequest}
    BY SMTT(60), PacketItems DEF SyncInv, TypeInv, SyncTypeOK
  <1>2. CASE pkt' = pkt
    BY SMTT(60), <1>1, <1>2 DEF Fresh, GroupInv
  <1>3. ASSUME NEW k \in 0 .. Len(req.packets) - 1
        PROVE  /\ Fresh(Packet(req, grp, k))
               /\ \A n \in Nat : Fresh(Cut(Packet(req, grp, k), n))
    <2>1. /\ Packet(req, grp, k) \in RealPacket
          /\ k \in Nat /\ k < Len(req.packets)
      BY <1>1, PacketTyped
    <2>2. /\ Packet(req, grp, k).grp = grp /\ Packet(req, grp, k).sub = k
          /\ Packet(req, grp, k).req = req
          /\ Packet(req, grp, k).items = req.packets[k + 1]
      BY DEF Packet
    <2>3. pkt.grp <= grp /\ (pkt.grp = grp => pkt.req = req)
      BY DEF GroupInv
    <2>4. Fresh(Packet(req, grp, k))
      BY SMTT(60), <1>1, <2>1, <2>2, <2>3 DEF Fresh, PacketType
    <2>5. ASSUME NEW n \in Nat
          PROVE  Fresh(Cut(Packet(req, grp, k), n))
      <3>1. /\ Cut(Packet(req, grp, k), n) \in RealPacket
            /\ Cut(Packet(req, grp, k), n).grp = grp /\ Cut(Packet(req, grp, k), n).sub = k
            /\ Cut(Packet(req, grp, k), n).req = req
            /\ ~Cut(Packet(req, grp, k), n).whole
        BY <1>1, <2>1, <2>2, CutTyped
      <3> QED BY SMTT(60), <1>1, <2>1, <2>3, <3>1 DEF Fresh, PacketType
    <2> QED BY <2>4, <2>5
  <1>4. CASE ReadPacket
    BY <1>3, <1>4 DEF ReadPacket
  <1>5. CASE ReadError
    BY <1>2, <1>5 DEF ReadError
  <1>6. CASE ReadShort
    <2>1. ASSUME NEW k \in 0 .. Len(req.packets) - 1, NEW n \in 0 .. Len(req.packets[k + 1]) - 1
          PROVE  n \in Nat
      <3>1. req.packets \in Seq(Seq(Items)) /\ k + 1 \in 1 .. Len(req.packets)
        BY SMTT(60), <1>1, <2>1, PacketTyped, RequestTypes
      <3> QED BY SMTT(60), <3>1, <2>1
    <2> QED BY <1>2, <1>3, <1>6, <2>1 DEF ReadShort
  <1> QED BY <1>4, <1>5, <1>6

\* A packet of the group being received is of the request that is received.
LEMMA FreshGroup ==
  ASSUME SyncInv, GroupInv, NEW k, Fresh(k), k.grp = idxGrp, NEW r, OfGroup(r)
  PROVE  r = k.req
  <1>1. k.grp \in Nat /\ pkt.grp \in Nat
    BY PacketItems DEF SyncInv, TypeInv, Fresh
  <1>2. idxGrp # NoGroup
    BY <1>1, Facts
  <1>3. pkt.grp = idxGrp
    BY SMTT(60), <1>1, <1>2 DEF GroupInv, Fresh
  <1> QED BY <1>3 DEF OfGroup, Fresh

LEMMA KeepsGroup ==
  ASSUME SyncInv, GroupInv, Fresh(pkt'), UNCHANGED <<idxGrp, req, grp>>, NEW r, OfGroup(r)
  PROVE  OfGroup(r)'
  <1>1. idxGrp = pkt'.grp => r = pkt'.req
    BY FreshGroup
  <1> QED BY <1>1 DEF OfGroup

LEMMA AnalyzeGroup ==
  ASSUME SyncInv, GroupInv, Fresh(pkt'), Analyze(pkt'), pc = "read", UNCHANGED <<req, grp>>
  PROVE  GroupInv'
  <1>1. /\ pkt'.grp \in Nat /\ pkt'.sub \in Nat /\ pkt.grp \in Nat /\ grp \in Nat
        /\ idxGrp \in Nat \cup {NoGroup}
    BY SMTT(60), PacketItems DEF Fresh, SyncInv, TypeInv, SyncTypeOK
  <1>2. /\ pkt'.grp <= grp' /\ (pkt'.grp = grp' => pkt'.req = req')
        /\ pkt' \in RealPacket =>
             /\ pkt'.sub < Len(pkt'.req.packets)
             /\ pkt'.whole => pkt'.items = pkt'.req.packets[pkt'.sub + 1]
    BY DEF Fresh
  <1>3. CASE Starts(pkt') /\ idxGrp' = pkt'.grp /\ idxSub' = 0 /\ pc' = "parse"
    BY SMTT(60), <1>1, <1>2, <1>3 DEF GroupInv, Starts
  <1>4. CASE Continues(pkt') /\ idxSub' = idxSub + 1 /\ pc' = "parse" /\ UNCHANGED idxGrp
    BY SMTT(60), <1>1, <1>2, <1>4 DEF GroupInv, Continues
  <1>5. CASE pc' = "read" /\ UNCHANGED idxGrp
    <2>1. idxGrp # NoGroup => idxGrp <= pkt'.grp
      BY SMTT(60), <1>1 DEF GroupInv, Fresh
    <2> QED BY <1>2, <1>5, <2>1 DEF GroupInv
  <1> QED BY <1>3, <1>4, <1>5 DEF Analyze

LEMMA ReadGroup ==
  ASSUME SyncInv, GroupInv, ReadPacket \/ ReadError \/ ReadShort
  PROVE  GroupInv'
  <1>1. Fresh(pkt')
    BY ReadFresh
  <1>2. CASE ReadPacket
    BY <1>1, <1>2, AnalyzeGroup DEF ReadPacket
  <1>3. CASE ReadError
    <2>1. pkt' = pkt /\ Analyze(pkt')
      BY <1>3 DEF ReadError
    <2> QED BY <1>1, <1>3, <2>1, AnalyzeGroup DEF ReadError
  <1>4. CASE ReadShort
    <2>1. pkt'.grp \in Nat /\ pkt.grp \in Nat /\ idxGrp \in Nat \cup {NoGroup}
      BY <1>1, PacketItems DEF Fresh, SyncInv, TypeInv, SyncTypeOK
    <2>2. pc' = "closed" /\ UNCHANGED <<idxGrp, req, grp>>
      BY <1>4 DEF ReadShort
    <2> QED BY SMTT(60), <1>1, <2>1, <2>2 DEF GroupInv, Fresh
  <1> QED BY <1>2, <1>3, <1>4

\* The steps within a packet.
LEMMA ParseGroup ==
  ASSUME SyncInv, GroupInv,
         ParseHead \/ ParseBody \/ ParseData \/ ParseEnd \/ ParseTail \/ Committed
  PROVE  GroupInv'
  <1>1. UNCHANGED <<pkt, idxGrp, idxSub, req, grp>> /\ pc \in {"parse", "event"}
    BY DEF ParseHead, ParseBody, ParseData, ParseEnd, ParseTail, Committed, Parsing
  <1>2. CASE pc' # "event"
    BY <1>1, <1>2 DEF GroupInv
  <1>3. CASE ParseTail
    BY <1>1, <1>3 DEF GroupInv, ParseTail, Parsing
  <1>4. ParseHead \/ ParseBody \/ ParseData \/ ParseEnd \/ Committed => pc' # "event"
    BY DEF ParseHead, ParseBody, ParseData, ParseEnd, Committed, Parsing, Fail, WaitForMore,
           Answer
  <1> QED BY <1>2, <1>3, <1>4

LEMMA GroupStep == SyncInv /\ GroupInv /\ [SyncNext]_syncVars => GroupInv'
  <1> SUFFICES ASSUME SyncInv, GroupInv, [SyncNext]_syncVars PROVE GroupInv'
    OBVIOUS
  <1>1. CASE \E r \in Requests : ModemRequest(r)
    <2>1. pkt.grp \in Nat /\ grp \in Nat
      BY SMTT(60), PacketItems DEF SyncInv, TypeInv, SyncTypeOK
    <2> QED BY SMTT(60), <1>1, <2>1 DEF ModemRequest, GroupInv
  <1>2. CASE Reopen
    BY <1>2 DEF Reopen, GroupInv
  <1>3. CASE UNCHANGED syncVars
    BY <1>3 DEF syncVars, GroupInv
  <1> QED BY <1>1, <1>2, <1>3, ReadGroup, ParseGroup DEF SyncNext, Receive

\* Once a packet left over from a cut read was analyzed, it was.
LEMMA TornStays ==
  ASSUME [SyncNext]_syncVars, torn
  PROVE  torn'
  <1>1. ASSUME NEW k, Analyze(k) PROVE torn'
    BY <1>1 DEF Analyze
  <1>2. CASE ReadPacket \/ ReadError
    BY <1>1, <1>2 DEF ReadPacket, ReadError
  <1>3. CASE \/ \E r \in Requests : ModemRequest(r)
             \/ ReadShort \/ Reopen \/ UNCHANGED syncVars
    BY <1>3 DEF ModemRequest, ReadShort, Reopen, syncVars
  <1>4. CASE ParseHead \/ ParseBody \/ ParseData \/ ParseEnd \/ ParseTail \/ Committed
    BY <1>4 DEF ParseHead, ParseBody, ParseData, ParseEnd, ParseTail, Committed
  <1> QED BY <1>2, <1>3, <1>4 DEF SyncNext, Receive
-----------------------------------------------------------------------------
(* NvSync implements NvIntake. *)

\* _syncReset(SYNC_FAIL_RESET) is a reset of NvIntake, or no step of it.
LEMMA ResetRefines ==
  ASSUME SyncInv, pc # "event", pc' # "event", buf' = Restored,
         sync' \in {SyncIdle, Begun}
  PROVE  Intake!IntakeReset \/ UNCHANGED Intake!intakeVars
  <1>1. sync'.state = 0 /\ sync'.id = NoGroup
    BY IdleTypes
  <1>2. CASE sync.state = 0
    BY <1>1, <1>2 DEF SyncInv, ParserInv, Restored, Intake!intakeVars
  <1>3. CASE sync.state # 0
    BY <1>1, <1>3 DEF Restored, Intake!IntakeReset, restoreData, Intake!restoreData
  <1> QED BY <1>2, <1>3

\* A change of the incoming copy that keeps to the announced sectors is a step of
\* NvIntake.
LEMMA DataRefines ==
  ASSUME SyncInv, pc # "event", pc' # "event", sync.state # 0, sync'.state # 0,
         sync'.id = sync.id,
         NEW new \in Buf,
         buf[sync.id].fromChannel.dirty \subseteq new.dirty,
         \A s \in Sectors : new.data[s] # buf[sync.id].fromChannel.data[s] => s \in new.dirty,
         buf' = [buf EXCEPT ![sync.id] = [fromChannel |-> new, backup |-> buf[sync.id].backup,
                                          toDisk |-> buf[sync.id].toDisk]]
  PROVE  Intake!IntakeNext
  <1>1. Intake!IntakeData(new)
    BY DEF Intake!IntakeData, Sectors, Intake!Sectors
  <1>2. new \in Intake!Buf
    BY DEF Buf, Content, Sectors, Intake!Buf, Intake!Content, Intake!Sectors
  <1> QED BY <1>1, <1>2 DEF Intake!IntakeNext

LEMMA AnalyzeRefines ==
  ASSUME SyncInv, pc = "read", NEW k, Analyze(k)
  PROVE  Intake!IntakeNext \/ UNCHANGED Intake!intakeVars
  <1>1. pc # "event" /\ pc' # "event"
    BY DEF Analyze
  <1>2. CASE UNCHANGED <<buf, sync>>
    BY <1>1, <1>2 DEF Intake!intakeVars
  <1>3. CASE /\ buf' = IF sync.busy THEN Restored ELSE buf
             /\ sync' = [IF sync.busy THEN SyncIdle ELSE sync EXCEPT !.busy = TRUE]
    <2>1. sync' = Begun
      BY <1>3 DEF Begun, SyncInv, ParserInv
    <2>2. CASE sync.busy
      BY <1>1, <1>3, <2>1, <2>2, ResetRefines DEF Intake!IntakeNext
    <2>3. CASE ~sync.busy
      BY <1>1, <1>3, <2>1, <2>3, IdleTypes DEF SyncInv, ParserInv, Intake!intakeVars
    <2> QED BY <2>2, <2>3
  <1> QED BY <1>2, <1>3 DEF Analyze

LEMMA ReadRefines ==
  ASSUME SyncInv, ReadPacket \/ ReadError \/ ReadShort \/ Reopen \/ ParseEnd
  PROVE  Intake!IntakeNext \/ UNCHANGED Intake!intakeVars
  <1>1. CASE ReadPacket
    BY <1>1, AnalyzeRefines DEF ReadPacket
  <1>2. CASE ReadError
    BY <1>2, AnalyzeRefines DEF ReadError
  <1>3. CASE ReadShort
    BY <1>3, ResetRefines DEF ReadShort, Intake!IntakeNext
  <1>4. CASE Reopen
    BY <1>4 DEF Reopen, SyncInv, ParserInv, Intake!intakeVars
  <1>5. CASE ParseEnd
    BY <1>5 DEF ParseEnd, Intake!intakeVars
  <1> QED BY <1>1, <1>2, <1>3, <1>4, <1>5

LEMMA FailRefines ==
  ASSUME SyncInv, pc = "parse", Fail
  PROVE  Intake!IntakeNext \/ UNCHANGED Intake!intakeVars
  BY ResetRefines DEF Fail, Answer, Intake!IntakeNext

LEMMA WaitRefines ==
  ASSUME pc = "parse", WaitForMore
  PROVE  UNCHANGED Intake!intakeVars
  BY DEF WaitForMore, Answer, Intake!intakeVars

LEMMA ParseHeadRefines ==
  ASSUME SyncInv, ParseHead
  PROVE  Intake!IntakeNext \/ UNCHANGED Intake!intakeVars
  <1>1. pc = "parse" /\ rest # <<>> /\ sync.state = 0
    BY DEF ParseHead, Parsing
  <1>2. CASE WaitForMore
    BY <1>1, <1>2, WaitRefines
  <1>3. CASE Fail
    BY <1>1, <1>3, FailRefines
  <1>4. CASE /\ KnownHead(Head(rest))
             /\ sync' = [sync EXCEPT !.state = 1, !.frame = Head(rest).idx, !.id = Head(rest).part]
             /\ UNCHANGED <<buf, pc, rsps>>
    <2>1. Head(rest).part \in Parts
      BY <1>4 DEF KnownHead
    <2>2. sync'.state = 1 /\ sync'.id = Head(rest).part
      BY <1>4 DEF SyncInv, TypeInv, SyncTypeOK
    <2>3. Intake!IntakeHead(Head(rest).part)
      BY SMTT(60), <1>1, <1>4, <2>2 DEF Intake!IntakeHead
    <2> QED BY <2>1, <2>3 DEF Intake!IntakeNext
  <1> QED BY <1>2, <1>3, <1>4 DEF ParseHead

LEMMA ParseBodyRefines ==
  ASSUME SyncInv, ParseBody
  PROVE  Intake!IntakeNext \/ UNCHANGED Intake!intakeVars
  <1>1. pc = "parse" /\ rest # <<>> /\ sync.state = 1
    BY DEF ParseBody, Parsing
  <1>2. CASE WaitForMore
    BY <1>1, <1>2, WaitRefines
  <1>3. CASE Fail
    BY <1>1, <1>3, FailRefines
  <1>4. CASE /\ Head(rest).t = "body"
             /\ buf' = [buf EXCEPT ![sync.id] =
                          markDirtyInfo(@, Head(rest).start, Head(rest).num)]
             /\ sync' = [sync EXCEPT !.state = 2, !.frame = Head(rest).idx,
                                     !.start = Head(rest).start, !.len = Head(rest).num]
             /\ UNCHANGED <<pc, rsps>>
    <2> DEFINE old == buf[sync.id].fromChannel
               new == Copy(old.data, old.dirty \cup
                             {s \in Sectors : Head(rest).start <= s
                                              /\ s < Head(rest).start + Head(rest).num})
    <2>1. sync.id \in Parts /\ buf \in [Parts -> PartCtl]
      BY SMTT(60), <1>1 DEF SyncInv, TypeInv, SyncTypeOK
    <2>2. old \in Buf
      BY <2>1 DEF PartCtl
    <2>3. new \in Buf /\ old.dirty \subseteq new.dirty /\ new.data = old.data
      BY <2>2 DEF Buf, Copy
    <2>4. sync'.state = 2 /\ sync'.id = sync.id
      BY <1>4 DEF SyncInv, TypeInv, SyncTypeOK
    <2>5. buf' = [buf EXCEPT ![sync.id] = [fromChannel |-> new, backup |-> buf[sync.id].backup,
                                           toDisk |-> buf[sync.id].toDisk]]
      BY <1>4 DEF markDirtyInfo
    <2> HIDE DEF new
    <2>6. \A s \in Sectors : new.data[s] # old.data[s] => s \in new.dirty
      BY <2>3
    <2>7. /\ pc # "event" /\ pc' # "event" /\ sync.state # 0 /\ sync'.state # 0
          /\ sync'.id = sync.id
      BY SMTT(60), <1>1, <1>4, <2>4
    <2> QED BY <2>3, <2>5, <2>6, <2>7, DataRefines
  <1> QED BY <1>2, <1>3, <1>4 DEF ParseBody

\* Only announced sectors are written, so they are dirty.
LEMMA WriteRefines ==
  ASSUME SyncInv, sync.state = 2, pc = "parse", pc' # "event", sync'.state # 0,
         sync'.id = sync.id,
         NEW n \in Nat, n <= sync.len, n <= Len(rest),
         buf' = [buf EXCEPT ![sync.id] = writeData(buf[sync.id], sync.start, n, Given(n))]
  PROVE  Intake!IntakeNext
  <1> DEFINE old == buf[sync.id].fromChannel
             new == buf'[sync.id].fromChannel
  <1>0. Wrote(n)
    BY WriteEffect
  <1>1. /\ sync.id \in Parts /\ buf \in [Parts -> PartCtl] /\ buf' \in [Parts -> PartCtl]
        /\ buf'[sync.id] = writeData(buf[sync.id], sync.start, n, Given(n))
        /\ sync.start \in Nat /\ sync.len \in Nat
    BY <1>0 DEF SyncInv, TypeInv, SyncTypeOK, Wrote
  <1>2. new \in Buf /\ new.dirty = old.dirty
    BY <1>0, <1>1 DEF PartCtl, Wrote
  <1>3. ASSUME NEW s \in Sectors, new.data[s] # old.data[s]
        PROVE  s \in new.dirty
    <2>1. sync.start <= s /\ s < sync.start + n
      BY SMTT(60), <1>0, <1>3 DEF Wrote
    <2>2. s \in Announced
      BY SMTT(60), <1>1, <2>1, Facts DEF Announced, Sectors
    <2> QED BY <1>2, <2>2 DEF SyncInv, CopyInv
  <1>4. buf' = [buf EXCEPT ![sync.id] = [fromChannel |-> new, backup |-> buf[sync.id].backup,
                                         toDisk |-> buf[sync.id].toDisk]]
    <2>1. buf'[sync.id] = [fromChannel |-> new, backup |-> buf[sync.id].backup,
                           toDisk |-> buf[sync.id].toDisk]
      BY <1>1 DEF writeData
    <2> QED BY <1>1, <2>1
  <1>5. old.dirty \subseteq new.dirty /\ pc # "event" /\ sync.state # 0
    BY SMTT(60), <1>2
  <1>6. \A s \in Sectors : new.data[s] # old.data[s] => s \in new.dirty
    BY <1>3
  <1> HIDE DEF new
  <1> QED BY <1>2, <1>4, <1>5, <1>6, DataRefines

LEMMA ParseDataRefines ==
  ASSUME SyncInv, ParseData
  PROVE  Intake!IntakeNext
  <1>1. /\ pc = "parse" /\ sync.state = 2
        /\ sync \in SyncType /\ sync.len \in Nat /\ Len(rest) \in Nat
    BY SMTT(60), ParseDataCases DEF SyncInv, TypeInv, SyncTypeOK, SyncType
  <1>2. CASE /\ sync.len <= Len(rest)
             /\ buf' = [buf EXCEPT ![sync.id] =
                          writeData(buf[sync.id], sync.start, sync.len, Given(sync.len))]
             /\ sync' = [sync EXCEPT !.state = 1, !.start = @ + sync.len, !.len = 0]
             /\ UNCHANGED pc
    <2>1. sync'.state = 1 /\ sync'.id = sync.id
      BY <1>1, <1>2 DEF SyncType
    <2>2. pc' # "event" /\ sync'.state # 0 /\ sync.len <= sync.len
      BY SMTT(60), <1>1, <1>2, <2>1
    <2> QED BY <1>1, <1>2, <2>1, <2>2, WriteRefines
  <1>3. CASE /\ sync.len > Len(rest)
             /\ buf' = [buf EXCEPT ![sync.id] =
                          writeData(buf[sync.id], sync.start, Len(rest), Given(Len(rest)))]
             /\ sync' = [sync EXCEPT !.start = @ + Len(rest), !.len = @ - Len(rest)]
             /\ Answer(1)
    <2>1. sync'.state = 2 /\ sync'.id = sync.id /\ pc' = "read"
      BY <1>1, <1>3 DEF SyncType, Answer
    <2>2. pc' # "event" /\ sync'.state # 0 /\ Len(rest) <= sync.len /\ Len(rest) <= Len(rest)
      BY SMTT(60), <1>1, <1>3, <2>1
    <2> QED BY <1>1, <1>3, <2>1, <2>2, WriteRefines
  <1> QED BY <1>2, <1>3, ParseDataCases

LEMMA CommitRefines ==
  ASSUME SyncInv, ParseTail \/ Committed
  PROVE  Intake!IntakeNext
  <1>1. CASE ParseTail
    <2>1. Intake!IntakeCommit
      BY SMTT(60), <1>1 DEF ParseTail, Parsing, Intake!IntakeCommit, backupData, Intake!backupData,
                  Copy, Intake!Copy
    <2> QED BY <2>1 DEF Intake!IntakeNext
  <1>2. CASE Committed
    <2>1. Intake!IntakeDone
      BY <1>2, IdleTypes DEF Committed, Answer, Intake!IntakeDone
    <2> QED BY <2>1 DEF Intake!IntakeNext
  <1> QED BY <1>1, <1>2

LEMMA InitRefines == SyncInit => Intake!IntakeInit
  <1> SUFFICES ASSUME SyncInit PROVE Intake!IntakeInit
    OBVIOUS
  <1>1. PICK c \in [Parts -> {Blank}] : buf = [p \in Parts |-> initBuf(c[p])]
    BY DEF SyncInit
  <1>2. c \in [Parts -> Intake!Content]
    BY <1>1, Facts DEF Blank, Sectors, Intake!Content, Intake!Sectors
  <1>3. buf = [p \in Parts |-> Intake!initBuf(c[p])]
    BY <1>1 DEF initBuf, Copy, Intake!initBuf, Intake!Copy
  <1> QED BY <1>2, <1>3, IdleTypes DEF SyncInit, Intake!IntakeInit

LEMMA StepRefines == SyncInv /\ [SyncNext]_syncVars => [Intake!IntakeNext]_(Intake!intakeVars)
  <1> SUFFICES ASSUME SyncInv, [SyncNext]_syncVars
               PROVE  Intake!IntakeNext \/ UNCHANGED Intake!intakeVars
    OBVIOUS
  <1>1. CASE \E r \in Requests : ModemRequest(r)
    BY <1>1 DEF ModemRequest, Intake!intakeVars
  <1>2. CASE UNCHANGED syncVars
    BY <1>2 DEF syncVars, Intake!intakeVars
  <1> QED
    BY <1>1, <1>2, ReadRefines, ParseHeadRefines, ParseBodyRefines, ParseDataRefines,
       CommitRefines DEF SyncNext, Receive

\* NvSync implements NvIntake, for any requests: with packets lost, repeated,
\* reordered or cut short, every request is committed or rolled back as a whole,
\* and only sectors announced to _markDirtyInfo are written.
THEOREM RefinesIntake == SyncSpec => ImplementsIntake
  <1> QED BY InitRefines, StepRefines, AlwaysSyncInv, PTL
          DEF SyncSpec, ImplementsIntake, Intake!IntakeSpec
-----------------------------------------------------------------------------
(* What is committed and answered *)

Place(x) ==
    /\ OfGroup(x.req)
    /\ x.sub = idxSub /\ x.rest = rest /\ x.sync = sync
    /\ sync.state = 0 => x.writes = <<>>
    /\ sync.state # 0 =>
         buf[sync.id].fromChannel.data = Apply(x.writes, buf[sync.id].backup.data)

PlaceInv(W) == sync.busy => \E x \in W : Place(x)

GivenUpInv(W) ==
    ~sync.busy /\ pc = "read" /\ idxGrp # NoGroup =>
        \E r \in Requests : OfGroup(r) /\ (~Commits(W, r) \/ idxSub + 1 = Len(r.packets))

DoneInv(W) ==
    /\ \A g \in done : g \in Nat /\ g <= pkt.grp /\ (g = pkt.grp => Commits(W, pkt.req))
    /\ pc = "event" => pkt.grp \in done

Truthful(W, q) ==
    /\ q.grp \in Nat /\ q.grp <= pkt.grp
    /\ q.val = 0 => q.grp \notin done /\ (q.grp = pkt.grp => ~Commits(W, pkt.req))
    /\ q.val = 1 /\ q.last => q.grp \in done

AnswerInv(W) == \A q \in rsps : Truthful(W, q)

AppliedInv == \A p \in Parts : buf[p].backup.data = applied[p]

OutcomeInv(W) ==
    PlaceInv(W) /\ GivenUpInv(W) /\ DoneInv(W) /\ AnswerInv(W) /\ AppliedInv

WalkInv(W) == GroupInv /\ (~torn => OutcomeInv(W))
-----------------------------------------------------------------------------
\* What was committed and answered stays so when another packet is read.
LEMMA KeepsHistory ==
  ASSUME SyncInv, NEW W, DoneInv(W), AnswerInv(W), Fresh(pkt'), UNCHANGED done,
         pc' # "event"
  PROVE  DoneInv(W)' /\ \A q \in rsps : Truthful(W, q)'
  <1>1. pkt.grp \in Nat /\ pkt'.grp \in Nat /\ pkt.grp <= pkt'.grp
    BY PacketItems DEF SyncInv, TypeInv, Fresh
  <1>2. ASSUME NEW g \in Nat, g <= pkt.grp
        PROVE  g <= pkt'.grp /\ (g = pkt'.grp => g = pkt.grp /\ pkt'.req = pkt.req)
    BY SMTT(60), <1>1, <1>2 DEF Fresh
  <1>3. DoneInv(W)'
    BY <1>2 DEF DoneInv, Commits
  <1>4. \A q \in rsps : Truthful(W, q)'
    BY <1>2 DEF AnswerInv, Truthful, Commits
  <1> QED BY <1>3, <1>4

LEMMA KeepsApplied ==
  ASSUME AppliedInv, \A p \in Parts : buf'[p].backup = buf[p].backup, UNCHANGED applied
  PROVE  AppliedInv'
  BY DEF AppliedInv

\* _getPacket keeps to the walk: the first packet is at its start, the next one
\* follows the one before, and one that comes when the request was given up is
\* refused rightly.
LEMMA AnalyzeOutcome ==
  ASSUME SyncInv, GroupInv, NEW W, Walk(W), OutcomeInv(W), pc = "read",
         Fresh(pkt'), Analyze(pkt'), ~torn', UNCHANGED <<req, grp, done, applied>>
  PROVE  OutcomeInv(W)'
  <1>0. pc' # "event" /\ rest = <<>>
    BY DEF Analyze, SyncInv, ParserInv
  <1>1. DoneInv(W)' /\ \A q \in rsps : Truthful(W, q)'
    BY <1>0, KeepsHistory DEF OutcomeInv
  <1>2. pkt' \in PacketType /\ pkt'.grp \in Nat /\ pkt'.sub \in Nat /\ idxSub \in Nat
    BY PacketItems DEF Fresh, SyncInv, TypeInv, SyncTypeOK
  <1>3. CASE /\ Starts(pkt')
             /\ idxGrp' = pkt'.grp /\ idxSub' = 0
             /\ buf' = IF sync.busy THEN Restored ELSE buf
             /\ sync' = [IF sync.busy THEN SyncIdle ELSE sync EXCEPT !.busy = TRUE]
             /\ rest' = pkt'.items
             /\ pc' = "parse"
             /\ torn' = (torn \/ ~pkt'.whole)
             /\ UNCHANGED rsps
    <2>1. sync' = Begun
      BY <1>3 DEF Begun, SyncInv, ParserInv
    <2>2. pkt' \in RealPacket /\ pkt'.whole /\ pkt'.sub = 0
      BY <1>2, <1>3 DEF Starts, PacketType
    <2>3. rest' = pkt'.req.packets[1] /\ pkt'.req \in Requests
      BY SMTT(60), <1>3, <2>2 DEF Fresh, RealPacket
    <2>4. Start(pkt'.req) \in W
      BY <2>3 DEF Walk
    <2>5. OfGroup(pkt.req)'
      BY <1>3 DEF OfGroup, Fresh
    <2>6. Place(Start(pkt.req))'
      BY <1>3, <2>1, <2>3, <2>5, IdleTypes DEF Place, Start, Position, Begun
    <2>7. PlaceInv(W)'
      BY <2>4, <2>6 DEF PlaceInv
    <2>8. GivenUpInv(W)'
      BY <1>3 DEF GivenUpInv
    <2>9. \A p \in Parts : buf'[p].backup = buf[p].backup
      BY <1>3, ResetClean
    <2> QED BY <1>1, <1>3, <2>7, <2>8, <2>9, KeepsApplied DEF OutcomeInv, AnswerInv
  <1>4. CASE /\ Continues(pkt')
             /\ idxSub' = idxSub + 1
             /\ sync.busy
             /\ rest' = pkt'.items
             /\ pc' = "parse"
             /\ torn' = (torn \/ ~pkt'.whole)
             /\ UNCHANGED <<idxGrp, buf, sync, rsps>>
    <2>1. pkt' \in RealPacket
      BY SMTT(60), <1>2, <1>4 DEF Continues, PacketType, NoPacket
    <2>2. pkt'.sub = idxSub + 1 /\ pkt'.grp = idxGrp /\ pkt'.whole
      BY <1>4 DEF Continues
    <2>3. PICK x \in W : Place(x)
      BY <1>4 DEF OutcomeInv, PlaceInv
    <2>4. x.req = pkt'.req
      BY <2>2, <2>3, FreshGroup DEF Place
    <2>5. x.rest = <<>> /\ x.sub = idxSub /\ x.sync = sync
      BY <1>0, <2>3 DEF Place
    <2>6. /\ pkt'.sub < Len(pkt'.req.packets) /\ pkt'.req \in Requests
          /\ rest' = pkt'.req.packets[pkt'.sub + 1]
      BY <1>4, <2>1, <2>2 DEF Fresh, RealPacket
    <2>7. Len(pkt'.req.packets) \in Nat
      BY SMTT(60), <2>6, RequestTypes
    <2>8. ~LastPacket(x) /\ x.sub + 2 = pkt'.sub + 1
      BY SMTT(60), <1>2, <2>2, <2>4, <2>5, <2>6, <2>7 DEF LastPacket
    <2>9. NextPacket(x) \in W
      BY <2>3, <2>5, <2>8 DEF Walk, Follow
    <2>10. OfGroup(x.req)'
      BY <1>4, <2>3, KeepsGroup DEF Place
    <2>11. Place(NextPacket(x))'
      BY <1>4, <2>3, <2>4, <2>5, <2>6, <2>8, <2>10 DEF Place, NextPacket, Position
    <2>12. PlaceInv(W)'
      BY <2>9, <2>11 DEF PlaceInv
    <2>13. GivenUpInv(W)'
      BY <1>4 DEF GivenUpInv
    <2> QED BY <1>1, <1>4, <2>12, <2>13, KeepsApplied DEF OutcomeInv, AnswerInv
  <1>5. CASE /\ Continues(pkt')
             /\ idxSub' = idxSub + 1
             /\ ~sync.busy
             /\ rsps' = rsps \cup {Rsp(pkt', 0)}
             /\ UNCHANGED <<idxGrp, buf, sync, rest, pc, torn>>
    <2>1. pkt' \in RealPacket /\ idxGrp # NoGroup
      BY SMTT(60), <1>2, <1>5, Facts DEF Continues, PacketType, NoPacket
    <2>2. pkt'.sub = idxSub + 1 /\ pkt'.grp = idxGrp
      BY <1>5 DEF Continues
    <2>3. PICK r \in Requests : OfGroup(r) /\ (~Commits(W, r) \/ idxSub + 1 = Len(r.packets))
      BY <1>5, <2>1 DEF OutcomeInv, GivenUpInv
    <2>4. r = pkt'.req
      BY <2>2, <2>3, FreshGroup
    <2>5. Len(r.packets) \in Nat /\ pkt'.sub < Len(r.packets)
      BY SMTT(60), <2>1, <2>4, RequestTypes DEF Fresh
    <2>6. ~Commits(W, r)
      BY SMTT(60), <1>2, <2>2, <2>3, <2>5
    <2>7. GivenUpInv(W)'
      <3>1. OfGroup(r)'
        BY <1>5, <2>3, KeepsGroup
      <3> QED BY <2>6, <3>1 DEF GivenUpInv
    <2>8. Truthful(W, Rsp(pkt, 0))'
      <3>1. pkt'.grp \notin done
        BY <1>1, <2>4, <2>6 DEF DoneInv
      <3> QED BY SMTT(60), <1>2, <2>4, <2>6, <3>1 DEF Truthful, Rsp
    <2>9. AnswerInv(W)'
      BY <1>1, <1>5, <2>8 DEF AnswerInv
    <2>10. PlaceInv(W)'
      BY <1>5 DEF PlaceInv
    <2> QED BY <1>1, <1>5, <2>7, <2>9, <2>10, KeepsApplied DEF OutcomeInv
  <1>6. CASE UNCHANGED <<idxGrp, idxSub, buf, sync, rest, pc, torn, rsps>>
    <2>1. ASSUME NEW r, OfGroup(r) PROVE OfGroup(r)'
      BY <1>6, <2>1, KeepsGroup
    <2>2. PlaceInv(W)'
      BY <1>6, <2>1 DEF OutcomeInv, PlaceInv, Place
    <2>3. GivenUpInv(W)'
      BY <1>6, <2>1 DEF OutcomeInv, GivenUpInv
    <2> QED BY <1>1, <1>6, <2>2, <2>3, KeepsApplied DEF OutcomeInv, AnswerInv
  <1> QED BY <1>3, <1>4, <1>5, <1>6 DEF Analyze

LEMMA ReadOutcome ==
  ASSUME SyncInv, GroupInv, NEW W, Walk(W), OutcomeInv(W), ~torn',
         ReadPacket \/ ReadError \/ ReadShort
  PROVE  OutcomeInv(W)'
  <1>1. Fresh(pkt')
    BY ReadFresh
  <1>2. CASE ReadPacket
    <2>1. PICK k \in 0 .. Len(req.packets) - 1 : pkt' = Packet(req, grp, k) /\ Analyze(pkt')
      BY <1>2 DEF ReadPacket
    <2> QED BY <1>1, <1>2, <2>1, AnalyzeOutcome DEF ReadPacket
  <1>3. CASE ReadError
    <2>1. pkt' = pkt /\ Analyze(pkt')
      BY <1>3 DEF ReadError
    <2> QED BY <1>1, <1>3, <2>1, AnalyzeOutcome DEF ReadError
  <1>4. CASE ReadShort
    <2>1. /\ buf' = Restored /\ sync' = SyncIdle /\ pc' = "closed"
          /\ UNCHANGED <<rsps, done, applied>>
      BY <1>4 DEF ReadShort
    <2>2. DoneInv(W)' /\ AnswerInv(W)'
      BY <1>1, <2>1, KeepsHistory DEF OutcomeInv, AnswerInv
    <2>3. PlaceInv(W)' /\ GivenUpInv(W)'
      BY <2>1, IdleTypes DEF PlaceInv, GivenUpInv
    <2>4. AppliedInv'
      BY <2>1, ResetClean, KeepsApplied DEF OutcomeInv
    <2> QED BY <2>2, <2>3, <2>4 DEF OutcomeInv
  <1> QED BY <1>2, <1>3, <1>4

LEMMA ReopenOutcome ==
  ASSUME NEW W, OutcomeInv(W), Reopen
  PROVE  OutcomeInv(W)'
  <1>1. /\ sync' = SyncIdle /\ idxGrp' = NoGroup /\ pc' = "read"
        /\ UNCHANGED <<buf, pkt, rsps, done, applied>>
    BY DEF Reopen
  <1>2. PlaceInv(W)' /\ GivenUpInv(W)'
    BY <1>1, IdleTypes DEF PlaceInv, GivenUpInv
  <1>3. DoneInv(W)' /\ AnswerInv(W)' /\ AppliedInv'
    BY <1>1 DEF OutcomeInv, DoneInv, AnswerInv, Truthful, Commits, AppliedInv
  <1> QED BY <1>2, <1>3 DEF OutcomeInv

\* Packets of a new request are of a new group.
LEMMA ModemRequestOutcome ==
  ASSUME SyncInv, GroupInv, NEW W, OutcomeInv(W), NEW s \in Requests, ModemRequest(s)
  PROVE  OutcomeInv(W)'
  <1>1. /\ grp' = grp + 1 /\ rsps' = {}
        /\ UNCHANGED <<buf, pkt, idxGrp, idxSub, pc, rest, sync, done, applied>>
    BY DEF ModemRequest
  <1>2. idxGrp # grp + 1
    <2>1. pkt.grp \in Nat /\ grp \in Nat /\ idxGrp \in Nat \cup {NoGroup}
      BY SMTT(60), PacketItems DEF SyncInv, TypeInv, SyncTypeOK
    <2> QED BY SMTT(60), <2>1, Facts DEF GroupInv
  <1>3. ASSUME NEW r, OfGroup(r) PROVE OfGroup(r)'
    BY <1>1, <1>2, <1>3 DEF OfGroup
  <1>4. PlaceInv(W)'
    BY <1>1, <1>3 DEF OutcomeInv, PlaceInv, Place
  <1>5. GivenUpInv(W)'
    BY <1>1, <1>3 DEF OutcomeInv, GivenUpInv
  <1>6. DoneInv(W)' /\ AnswerInv(W)' /\ AppliedInv'
    BY <1>1 DEF OutcomeInv, DoneInv, AnswerInv, Commits, AppliedInv
  <1> QED BY <1>4, <1>5, <1>6 DEF OutcomeInv
-----------------------------------------------------------------------------
(* Within a packet. *)

LEMMA AtPlace ==
  ASSUME SyncInv, GroupInv, NEW W, OutcomeInv(W), pc \in {"parse", "event"}
  PROVE  \E x \in W : /\ Place(x)
                      /\ x.req = pkt.req /\ x.sub = pkt.sub
                      /\ x.rest = rest /\ x.sync = sync
                      /\ pkt.req \in Requests
  <1>1. sync.busy /\ pkt.req \in Requests /\ idxGrp = pkt.grp /\ idxSub = pkt.sub
    BY DEF SyncInv, ParserInv, TypeInv, RealPacket, GroupInv
  <1>2. PICK x \in W : Place(x)
    BY <1>1 DEF OutcomeInv, PlaceInv
  <1> QED BY <1>1, <1>2 DEF Place, OfGroup

\* The parser goes on to a position of the walk; if it answers with 1, the packet
\* is not the last one.
LEMMA MoveOutcome ==
  ASSUME SyncInv, GroupInv, NEW W, OutcomeInv(W), pc \in {"parse", "event"}, pc' # "event",
         UNCHANGED <<pkt, done, applied>>, sync'.busy,
         \E y \in W : Place(y)',
         \A p \in Parts : buf'[p].backup = buf[p].backup,
         \/ rsps' = rsps
         \/ rsps' = rsps \cup {Rsp(pkt, 1)} /\ pkt.sub + 1 # Len(pkt.req.packets)
  PROVE  OutcomeInv(W)'
  <1>1. PlaceInv(W)' /\ GivenUpInv(W)'
    BY DEF PlaceInv, GivenUpInv
  <1>2. DoneInv(W)' /\ AppliedInv'
    BY KeepsApplied DEF OutcomeInv, DoneInv, Commits
  <1>3. \A q \in rsps : Truthful(W, q)'
    BY DEF OutcomeInv, AnswerInv, Truthful, Commits
  <1>4. ASSUME NEW q, q = Rsp(pkt, 1), pkt.sub + 1 # Len(pkt.req.packets)
        PROVE  Truthful(W, q)'
    <2>1. pkt.grp \in Nat
      BY PacketItems DEF SyncInv, TypeInv
    <2>2. q.grp = pkt.grp /\ q.val = 1 /\ q.last = (pkt.sub + 1 = Len(pkt.req.packets))
      BY <1>4 DEF Rsp
    <2>3. q.last = FALSE
      BY <1>4, <2>2
    <2> QED BY SMTT(60), <2>1, <2>2, <2>3 DEF Truthful
  <1>5. AnswerInv(W)'
    BY <1>3, <1>4 DEF AnswerInv
  <1> QED BY <1>1, <1>2, <1>5 DEF OutcomeInv

\* _syncReset at a position where the walk fails: nothing of the request was or
\* will be committed.
LEMMA FailOutcome ==
  ASSUME SyncInv, GroupInv, NEW W, Walk(W), OutcomeInv(W), pc = "parse", Fail,
         UNCHANGED <<pkt, idxGrp, idxSub, req, grp, done, applied>>,
         NEW x \in W, Place(x), x.req = pkt.req, Fails(x), pkt.req \in Requests
  PROVE  OutcomeInv(W)'
  <1>1. /\ buf' = Restored /\ sync' = SyncIdle /\ pc' = "read"
        /\ rsps' = rsps \cup {Rsp(pkt, 0)}
    BY DEF Fail, Answer
  <1>2. ~Commits(W, pkt.req)
    BY DEF Walk
  <1>3. pkt.grp \notin done /\ pkt.grp \in Nat
    BY <1>2, PacketItems DEF OutcomeInv, DoneInv, SyncInv, TypeInv
  <1>4. PlaceInv(W)'
    BY <1>1, IdleTypes DEF PlaceInv
  <1>5. GivenUpInv(W)'
    <2>1. OfGroup(pkt.req)'
      BY DEF Place, OfGroup
    <2> QED BY <1>2, <2>1 DEF GivenUpInv
  <1>6. DoneInv(W)' /\ \A q \in rsps : Truthful(W, q)'
    BY <1>1 DEF OutcomeInv, DoneInv, AnswerInv, Truthful, Commits
  <1>7. Truthful(W, Rsp(pkt, 0))'
    BY SMTT(60), <1>2, <1>3 DEF Truthful, Rsp
  <1>8. AnswerInv(W)'
    BY <1>1, <1>6, <1>7 DEF AnswerInv
  <1>9. AppliedInv'
    BY <1>1, ResetClean, KeepsApplied DEF OutcomeInv
  <1> QED BY <1>4, <1>5, <1>6, <1>8, <1>9 DEF OutcomeInv

LEMMA WaitOutcome ==
  ASSUME SyncInv, GroupInv, NEW W, Walk(W), OutcomeInv(W), pc = "parse", WaitForMore,
         UNCHANGED <<pkt, idxGrp, idxSub, req, grp, done, applied>>,
         NEW x \in W, Place(x), x.req = pkt.req, x.sub = pkt.sub, Waits(x)
  PROVE  OutcomeInv(W)'
  <1>1. /\ rsps' = rsps \cup {Rsp(pkt, 1)} /\ pc' = "read" /\ rest' = <<>>
        /\ UNCHANGED <<buf, sync>>
    BY DEF WaitForMore, Answer
  <1>2. Dropped(x) \in W
    BY DEF Walk, Follow, Waits
  <1>3. Place(Dropped(x))'
    BY <1>1 DEF Place, OfGroup, Dropped, Position
  <1>4. pkt.sub + 1 # Len(pkt.req.packets)
    BY SMTT(60) DEF Walk, LastPacket
  <1>5. sync'.busy
    BY <1>1 DEF SyncInv, ParserInv
  <1> QED BY <1>1, <1>2, <1>3, <1>4, <1>5, MoveOutcome

\* A partition before the first write of a request.
LEMMA ApplyNothing ==
  ASSUME NEW c \in Content
  PROVE  Apply(<<>>, c) = c
  BY SMTT(60) DEF Apply, Content

LEMMA ParseHeadOutcome ==
  ASSUME SyncInv, GroupInv, NEW W, Walk(W), OutcomeInv(W), ParseHead
  PROVE  OutcomeInv(W)'
  <1>1. /\ pc = "parse" /\ rest # <<>> /\ sync.state = 0
        /\ UNCHANGED <<pkt, idxGrp, idxSub, req, grp, done, applied, torn>>
    BY DEF ParseHead, Parsing
  <1>2. PICK x \in W : /\ Place(x)
                      /\ x.req = pkt.req /\ x.sub = pkt.sub
                      /\ x.rest = rest /\ x.sync = sync
                      /\ pkt.req \in Requests
    BY <1>1, AtPlace
  <1>3. CASE Head(rest).t = "short" /\ WaitForMore
    <2>1. Waits(x)
      BY SMTT(60), <1>1, <1>2, <1>3 DEF Waits, Token
    <2> QED BY <1>1, <1>2, <1>3, <2>1, WaitOutcome
  <1>4. CASE Head(rest).t # "short" /\ ~KnownHead(Head(rest)) /\ Fail
    <2>1. Fails(x)
      BY SMTT(60), <1>1, <1>2, <1>4 DEF Fails, Waits, Heads, Bodies, Tails, Token
    <2> QED BY <1>1, <1>2, <1>4, <2>1, FailOutcome
  <1>5. CASE /\ KnownHead(Head(rest))
             /\ sync' = [sync EXCEPT !.state = 1, !.frame = Head(rest).idx, !.id = Head(rest).part]
             /\ rest' = Tail(rest)
             /\ UNCHANGED <<buf, pc, rsps>>
    <2>1. Heads(x) /\ ~Waits(x)
      BY <1>1, <1>2, <1>5 DEF Heads, Waits, Token, KnownHead
    <2>2. HeadTaken(x) \in W
      BY <1>1, <1>2, <2>1 DEF Walk, Follow
    <2>3. sync'.state = 1 /\ sync'.id = Head(rest).part /\ sync'.id \in Parts /\ sync'.busy = sync.busy
      BY <1>5 DEF SyncInv, TypeInv, SyncTypeOK, KnownHead
    <2>4. buf'[sync'.id].fromChannel.data = Apply(<<>>, buf'[sync'.id].backup.data)
      <3>1. buf[sync'.id].fromChannel.data = buf[sync'.id].backup.data
        BY <1>1, <2>3 DEF SyncInv, CopyInv
      <3>2. buf[sync'.id].backup.data \in Content
        BY <2>3 DEF SyncInv, TypeInv, SyncTypeOK, PartCtl, Buf
      <3> QED BY <1>5, <3>1, <3>2, ApplyNothing
    <2>5. HeadTaken(x).writes = <<>>
      BY <1>1, <1>2 DEF Place, HeadTaken, Position
    <2>6. HeadTaken(x).sync = sync' /\ HeadTaken(x).rest = rest'
      BY <1>2, <1>5 DEF HeadTaken, Position, Token
    <2>7. HeadTaken(x).req = x.req /\ HeadTaken(x).sub = x.sub
      BY DEF HeadTaken, Position
    <2>8. Place(HeadTaken(x))'
      BY <1>1, <1>2, <2>3, <2>4, <2>5, <2>6, <2>7 DEF Place, OfGroup
    <2>9. sync'.busy /\ pc' # "event"
      BY <1>1, <1>5, <2>3 DEF SyncInv, ParserInv
    <2> QED BY <1>1, <1>5, <2>2, <2>8, <2>9, MoveOutcome
  <1> QED BY <1>3, <1>4, <1>5 DEF ParseHead

LEMMA ParseBodyOutcome ==
  ASSUME SyncInv, GroupInv, NEW W, Walk(W), OutcomeInv(W), ParseBody
  PROVE  OutcomeInv(W)'
  <1>1. /\ pc = "parse" /\ rest # <<>> /\ sync.state = 1
        /\ UNCHANGED <<pkt, idxGrp, idxSub, req, grp, done, applied, torn>>
    BY DEF ParseBody, Parsing
  <1>2. PICK x \in W : /\ Place(x)
                      /\ x.req = pkt.req /\ x.sub = pkt.sub
                      /\ x.rest = rest /\ x.sync = sync
                      /\ pkt.req \in Requests
    BY <1>1, AtPlace
  <1>3. CASE Head(rest).t = "short" /\ WaitForMore
    <2>1. Waits(x)
      BY SMTT(60), <1>1, <1>2, <1>3 DEF Waits, Token
    <2> QED BY <1>1, <1>2, <1>3, <2>1, WaitOutcome
  <1>4. CASE /\ Head(rest).t # "short"
             /\ ~(Head(rest).t \in {"body", "tail"} /\ Head(rest).idx = sync.frame + 1)
             /\ Fail
    <2>1. Fails(x)
      BY SMTT(60), <1>1, <1>2, <1>4 DEF Fails, Waits, Heads, Bodies, Tails, InTurn, Token
    <2> QED BY <1>1, <1>2, <1>4, <2>1, FailOutcome
  <1>5. CASE /\ Head(rest).t = "body" /\ Head(rest).idx = sync.frame + 1
             /\ buf' = [buf EXCEPT ![sync.id] =
                          markDirtyInfo(@, Head(rest).start, Head(rest).num)]
             /\ sync' = [sync EXCEPT !.state = 2, !.frame = Head(rest).idx,
                                     !.start = Head(rest).start, !.len = Head(rest).num]
             /\ rest' = Tail(rest)
             /\ UNCHANGED <<pc, rsps>>
    <2>1. Bodies(x) /\ ~Waits(x) /\ ~Heads(x)
      BY SMTT(60), <1>1, <1>2, <1>5 DEF Bodies, Heads, Waits, InTurn, Token
    <2>2. BodyTaken(x) \in W
      BY <1>1, <1>2, <2>1 DEF Walk, Follow
    <2>3. sync'.state = 2 /\ sync'.id = sync.id /\ sync.id \in Parts /\ sync'.busy = sync.busy
      BY SMTT(60), <1>1, <1>5 DEF SyncInv, TypeInv, SyncTypeOK
    <2>4. /\ \A p \in Parts : buf'[p].backup = buf[p].backup
          /\ buf'[sync.id].fromChannel.data = buf[sync.id].fromChannel.data
      <3>1. buf \in [Parts -> PartCtl]
        BY DEF SyncInv, TypeInv, SyncTypeOK
      <3>2. /\ markDirtyInfo(buf[sync.id], Head(rest).start, Head(rest).num).backup
                  = buf[sync.id].backup
            /\ markDirtyInfo(buf[sync.id], Head(rest).start, Head(rest).num).fromChannel.data
                  = buf[sync.id].fromChannel.data
        BY DEF markDirtyInfo, Copy
      <3> QED BY <1>5, <2>3, <3>1, <3>2
    <2>5. BodyTaken(x).sync = sync' /\ BodyTaken(x).rest = rest'
      BY <1>2, <1>5 DEF BodyTaken, Position, Token
    <2>6. BodyTaken(x).req = x.req /\ BodyTaken(x).sub = x.sub /\ BodyTaken(x).writes = x.writes
      BY DEF BodyTaken, Position
    <2>7. Place(BodyTaken(x))'
      BY SMTT(60), <1>1, <1>2, <2>3, <2>4, <2>5, <2>6 DEF Place, OfGroup
    <2>8. sync'.busy /\ pc' # "event"
      BY <1>1, <1>5, <2>3 DEF SyncInv, ParserInv
    <2> QED BY <1>1, <1>5, <2>2, <2>4, <2>7, <2>8, MoveOutcome
  <1> QED BY <1>3, <1>4, <1>5 DEF ParseBody

LEMMA ApplyOver ==
  ASSUME NEW w, NEW i, NEW n, NEW u, NEW c
  PROVE  Apply(Over(w, i, n, u), c) =
           [s \in Sectors |-> IF i <= s /\ s < i + n THEN Val(u[s - i + 1]) ELSE Apply(w, c)[s]]
  <1> DEFINE o == Over(w, i, n, u)
  <1>1. ASSUME NEW s \in Sectors, i <= s /\ s < i + n
        PROVE  s \in DOMAIN o /\ o[s] = Val(u[s - i + 1])
    BY <1>1 DEF Over
  <1>2. ASSUME NEW s \in Sectors, ~(i <= s /\ s < i + n)
        PROVE  /\ s \in DOMAIN o <=> s \in DOMAIN w
               /\ s \in DOMAIN w => o[s] = w[s]
    BY <1>2 DEF Over
  <1> HIDE DEF o
  <1>3. ASSUME NEW s \in Sectors
        PROVE  (IF s \in DOMAIN o THEN o[s] ELSE c[s]) =
                 IF i <= s /\ s < i + n THEN Val(u[s - i + 1])
                 ELSE IF s \in DOMAIN w THEN w[s] ELSE c[s]
    BY <1>1, <1>2
  <1>4. Apply(o, c) = [s \in Sectors |-> IF i <= s /\ s < i + n THEN Val(u[s - i + 1])
                                          ELSE IF s \in DOMAIN w THEN w[s] ELSE c[s]]
    BY <1>3 DEF Apply
  <1>5. \A s \in Sectors : Apply(w, c)[s] = IF s \in DOMAIN w THEN w[s] ELSE c[s]
    BY DEF Apply
  <1> QED BY <1>4, <1>5 DEF o

\* The incoming copy after n of the announced sectors have come.
LEMMA WriteOver ==
  ASSUME SyncInv, sync.state = 2, NEW n \in Nat, Wrote(n), NEW x, Place(x)
  PROVE  buf'[sync.id].fromChannel.data =
           Apply(Over(x.writes, sync.start, n, rest), buf'[sync.id].backup.data)
  <1>1. buf[sync.id].fromChannel.data = Apply(x.writes, buf[sync.id].backup.data)
    BY SMTT(60) DEF Place
  <1>2. /\ buf'[sync.id].backup = buf[sync.id].backup
        /\ buf'[sync.id].fromChannel.data =
             [s \in Sectors |-> IF sync.start <= s /\ s < sync.start + n
                                  THEN Given(n)[s] ELSE buf[sync.id].fromChannel.data[s]]
    BY DEF Wrote
  <1>3. \A s \in Sectors : sync.start <= s /\ s < sync.start + n =>
                              Given(n)[s] = Val(rest[s - sync.start + 1])
    BY DEF Given
  <1>4. buf'[sync.id].fromChannel.data =
          [s \in Sectors |-> IF sync.start <= s /\ s < sync.start + n
                               THEN Val(rest[s - sync.start + 1])
                               ELSE Apply(x.writes, buf[sync.id].backup.data)[s]]
    BY <1>1, <1>2, <1>3
  <1> QED BY SMTT(60), <1>2, <1>4, ApplyOver

LEMMA ParseDataOutcome ==
  ASSUME SyncInv, GroupInv, NEW W, Walk(W), OutcomeInv(W), ParseData
  PROVE  OutcomeInv(W)'
  <1>1. /\ pc = "parse" /\ rest # <<>> /\ sync.state = 2
        /\ UNCHANGED <<pkt, idxGrp, idxSub, req, grp, done, applied, torn>>
    BY ParseDataCases
  <1>2. PICK x \in W : /\ Place(x)
                      /\ x.req = pkt.req /\ x.sub = pkt.sub
                      /\ x.rest = rest /\ x.sync = sync
                      /\ pkt.req \in Requests
    BY <1>1, AtPlace
  <1>3. Data(x) /\ ~Waits(x) /\ ~Heads(x) /\ ~Bodies(x)
    BY SMTT(60), <1>1, <1>2 DEF Data, Waits, Heads, Bodies
  <1>4. /\ sync.len \in Nat /\ Len(rest) \in Nat /\ sync.id \in Parts /\ sync \in SyncType
        /\ sync.busy
    BY SMTT(60), <1>1 DEF SyncInv, TypeInv, SyncTypeOK, SyncType, ParserInv
  <1>5. CASE /\ sync.len <= Len(rest)
             /\ buf' = [buf EXCEPT ![sync.id] =
                          writeData(buf[sync.id], sync.start, sync.len, Given(sync.len))]
             /\ sync' = [sync EXCEPT !.state = 1, !.start = @ + sync.len, !.len = 0]
             /\ rest' = SubSeq(rest, sync.len + 1, Len(rest))
             /\ UNCHANGED <<pc, rsps>>
    <2>1. Wrote(sync.len)
      <3>1. /\ sync.len <= sync.len /\ sync.len <= Len(rest)
            /\ buf' = [buf EXCEPT ![sync.id] =
                         writeData(buf[sync.id], sync.start, sync.len, Given(sync.len))]
        BY SMTT(60), <1>4, <1>5
      <3> QED BY <1>1, <1>4, <3>1, WriteEffect
    <2>2. ~Runs(x)
      BY SMTT(60), <1>2, <1>4, <1>5 DEF Runs
    <2>3. AllData(x) \in W
      BY <1>1, <1>2, <1>3, <2>2 DEF Walk, Follow
    <2>4. sync'.state = 1 /\ sync'.id = sync.id /\ sync'.busy = sync.busy
      BY <1>4, <1>5 DEF SyncType
    <2>5. AllData(x).sync = sync' /\ AllData(x).rest = rest'
      BY <1>2, <1>5 DEF AllData, Position
    <2>6. /\ AllData(x).req = x.req /\ AllData(x).sub = x.sub
          /\ AllData(x).writes = Over(x.writes, sync.start, sync.len, rest)
      BY <1>2 DEF AllData, Position
    <2>7. buf'[sync.id].fromChannel.data =
            Apply(Over(x.writes, sync.start, sync.len, rest), buf'[sync.id].backup.data)
      BY <1>1, <1>2, <1>4, <2>1, WriteOver
    <2>8. Place(AllData(x))'
      BY SMTT(60), <1>1, <1>2, <2>4, <2>5, <2>6, <2>7 DEF Place, OfGroup
    <2>9. sync'.busy /\ pc' # "event" /\ rsps' = rsps
      BY <1>1, <1>4, <1>5, <2>4
    <2>10. \A p \in Parts : buf'[p].backup = buf[p].backup
      BY <2>1 DEF Wrote
    <2> QED BY <1>1, <2>3, <2>8, <2>9, <2>10, MoveOutcome
  <1>6. CASE /\ sync.len > Len(rest)
             /\ buf' = [buf EXCEPT ![sync.id] =
                          writeData(buf[sync.id], sync.start, Len(rest), Given(Len(rest)))]
             /\ sync' = [sync EXCEPT !.start = @ + Len(rest), !.len = @ - Len(rest)]
             /\ Answer(1)
    <2>1. Wrote(Len(rest))
      <3>1. /\ Len(rest) <= sync.len /\ Len(rest) <= Len(rest)
            /\ buf' = [buf EXCEPT ![sync.id] =
                         writeData(buf[sync.id], sync.start, Len(rest), Given(Len(rest)))]
        BY SMTT(60), <1>4, <1>6
      <3> QED BY <1>1, <1>4, <3>1, WriteEffect
    <2>2. Runs(x)
      BY <1>2, <1>3, <1>4, <1>6 DEF Runs
    <2>3. SomeData(x) \in W
      BY <1>1, <1>2, <1>3, <2>2 DEF Walk, Follow
    <2>4. sync'.state = 2 /\ sync'.id = sync.id /\ sync'.busy = sync.busy
      BY <1>1, <1>4, <1>6 DEF SyncType
    <2>5. rest' = <<>> /\ pc' # "event" /\ rsps' = rsps \cup {Rsp(pkt, 1)}
      BY <1>6 DEF Answer
    <2>6. SomeData(x).sync = sync' /\ SomeData(x).rest = rest'
      BY <1>2, <1>6, <2>5 DEF SomeData, Position
    <2>7. /\ SomeData(x).req = x.req /\ SomeData(x).sub = x.sub
          /\ SomeData(x).writes = Over(x.writes, sync.start, Len(rest), rest)
      BY <1>2 DEF SomeData, Position
    <2>8. buf'[sync.id].fromChannel.data =
            Apply(Over(x.writes, sync.start, Len(rest), rest), buf'[sync.id].backup.data)
      BY <1>1, <1>2, <1>4, <2>1, WriteOver
    <2>9. Place(SomeData(x))'
      BY SMTT(60), <1>1, <1>2, <2>4, <2>6, <2>7, <2>8 DEF Place, OfGroup
    <2>10. sync'.busy /\ pkt.sub + 1 # Len(pkt.req.packets)
      BY SMTT(60), <1>2, <1>4, <2>2, <2>4 DEF Walk, LastPacket
    <2>11. \A p \in Parts : buf'[p].backup = buf[p].backup
      BY <2>1 DEF Wrote
    <2> QED BY <1>1, <2>3, <2>5, <2>9, <2>10, <2>11, MoveOutcome
  <1> QED BY <1>5, <1>6, ParseDataCases

LEMMA ParseEndOutcome ==
  ASSUME SyncInv, GroupInv, NEW W, OutcomeInv(W), ParseEnd
  PROVE  OutcomeInv(W)'
  <1>1. /\ pc = "parse" /\ pc' = "read"
        /\ UNCHANGED <<buf, pkt, idxGrp, idxSub, rest, sync, req, grp, rsps, done, applied>>
    BY DEF ParseEnd
  <1>2. PICK x \in W : Place(x)
    BY <1>1, AtPlace
  <1>3. Place(x)'
    BY <1>1, <1>2 DEF Place, OfGroup
  <1>4. sync'.busy
    BY <1>1 DEF SyncInv, ParserInv
  <1> QED BY <1>1, <1>2, <1>3, <1>4, MoveOutcome

\* backupData commits what the request stands for, and no packet of the request was
\* refused before.
LEMMA ParseTailOutcome ==
  ASSUME SyncInv, GroupInv, NEW W, Walk(W), OutcomeInv(W), ParseTail
  PROVE  OutcomeInv(W)'
  <1>1. /\ pc = "parse" /\ rest # <<>> /\ sync.state = 1
        /\ Head(rest).t = "tail" /\ Head(rest).idx = sync.frame + 1
        /\ buf' = [buf EXCEPT ![sync.id] = backupData(buf[sync.id])]
        /\ pc' = "event"
        /\ done' = done \cup {pkt.grp}
        /\ applied' = [applied EXCEPT ![sync.id] = Apply(pkt.req.writes, applied[sync.id])]
        /\ UNCHANGED <<pkt, idxGrp, idxSub, rest, sync, req, grp, rsps, torn>>
    BY DEF ParseTail, Parsing
  <1>2. PICK x \in W : /\ Place(x)
                      /\ x.req = pkt.req /\ x.sub = pkt.sub
                      /\ x.rest = rest /\ x.sync = sync
                      /\ pkt.req \in Requests
    BY <1>1, AtPlace
  <1>3. Tails(x)
    BY <1>1, <1>2 DEF Tails, InTurn, Token
  <1>4. Commits(W, pkt.req) /\ x.writes = pkt.req.writes
    BY <1>2, <1>3 DEF Commits, Walk
  <1>5. /\ sync.id \in Parts /\ buf \in [Parts -> PartCtl] /\ applied \in [Parts -> Content]
        /\ pkt.grp \in Nat /\ sync.busy
    BY SMTT(60), <1>1, PacketItems DEF SyncInv, TypeInv, SyncTypeOK, ParserInv
  <1>6. /\ buf'[sync.id].fromChannel.data = buf[sync.id].fromChannel.data
        /\ buf'[sync.id].backup.data = buf[sync.id].fromChannel.data
        /\ \A p \in Parts \ {sync.id} : buf'[p] = buf[p]
    BY <1>1, <1>5 DEF backupData, Copy
  <1>7. buf[sync.id].fromChannel.data = Apply(x.writes, buf[sync.id].backup.data)
    BY SMTT(60), <1>1, <1>2 DEF Place
  <1>8. PlaceInv(W)'
    <2>1. \A w, c : Apply(w, Apply(w, c)) = Apply(w, c)
      BY DEF Apply
    <2>2. buf'[sync.id].fromChannel.data = Apply(x.writes, buf'[sync.id].backup.data)
      BY SMTT(60), <1>6, <1>7, <2>1
    <2>3. Place(x)'
      BY <1>1, <1>2, <2>2 DEF Place, OfGroup
    <2> QED BY <1>2, <2>3 DEF PlaceInv
  <1>9. GivenUpInv(W)'
    BY <1>1 DEF GivenUpInv
  <1>10. DoneInv(W)'
    <2>1. \A g \in done' : g \in Nat /\ g <= pkt.grp
      BY SMTT(60), <1>1, <1>5 DEF OutcomeInv, DoneInv
    <2> QED BY <1>1, <1>4, <2>1 DEF DoneInv, Commits
  <1>11. AnswerInv(W)'
    <2>1. ASSUME NEW q \in rsps
          PROVE  Truthful(W, q)'
      <3>1. Truthful(W, q)
        BY DEF OutcomeInv, AnswerInv
      <3>2. q.val = 0 => q.grp # pkt.grp
        BY SMTT(60), <1>4, <3>1 DEF Truthful
      <3>3. q.val = 0 => q.grp \notin done'
        BY SMTT(60), <1>1, <3>1, <3>2 DEF Truthful
      <3>4. q.val = 1 /\ q.last => q.grp \in done'
        BY <1>1, <3>1 DEF Truthful
      <3> QED BY <1>1, <3>1, <3>2, <3>3, <3>4 DEF Truthful
    <2> QED BY SMTT(60), <1>1, <2>1 DEF AnswerInv
  <1>12. AppliedInv'
    <2>1. buf[sync.id].backup.data = applied[sync.id]
      BY SMTT(60), <1>5 DEF OutcomeInv, AppliedInv
    <2>2. buf'[sync.id].backup.data = applied'[sync.id]
      BY <1>1, <1>4, <1>5, <1>6, <1>7, <2>1
    <2>3. \A p \in Parts \ {sync.id} : applied'[p] = applied[p]
      BY SMTT(60), <1>1, <1>5
    <2> QED BY <1>6, <2>2, <2>3 DEF OutcomeInv, AppliedInv
  <1> QED BY SMTT(60), <1>8, <1>9, <1>10, <1>11, <1>12 DEF OutcomeInv

\* The packet with the tail is the last one, so no packet of the request is refused
\* after its commit.
LEMMA CommittedOutcome ==
  ASSUME SyncInv, GroupInv, NEW W, Walk(W), OutcomeInv(W), Committed
  PROVE  OutcomeInv(W)'
  <1>1. /\ pc = "event" /\ sync' = SyncIdle /\ pc' = "read"
        /\ rsps' = rsps \cup {Rsp(pkt, 1)}
        /\ UNCHANGED <<buf, pkt, idxGrp, idxSub, req, grp, done, applied, torn>>
    BY DEF Committed, Answer
  <1>2. PICK x \in W : /\ Place(x)
                      /\ x.req = pkt.req /\ x.sub = pkt.sub
                      /\ x.rest = rest /\ x.sync = sync
                      /\ pkt.req \in Requests
    BY <1>1, AtPlace
  <1>3. Tails(x)
    BY <1>1, <1>2 DEF Tails, InTurn, Token, GroupInv, SyncInv, ParserInv
  <1>4. idxSub + 1 = Len(pkt.req.packets)
    BY <1>2, <1>3 DEF Walk, LastPacket, Place
  <1>5. pkt.grp \in done /\ pkt.grp \in Nat
    BY SMTT(60), <1>1, PacketItems DEF OutcomeInv, DoneInv, SyncInv, TypeInv
  <1>6. PlaceInv(W)'
    BY <1>1, IdleTypes DEF PlaceInv
  <1>7. GivenUpInv(W)'
    <2>1. OfGroup(pkt.req)'
      BY <1>1, <1>2 DEF Place, OfGroup
    <2> QED BY <1>1, <1>2, <1>4, <2>1 DEF GivenUpInv
  <1>8. DoneInv(W)' /\ \A q \in rsps : Truthful(W, q)'
    BY <1>1 DEF OutcomeInv, DoneInv, AnswerInv, Truthful, Commits
  <1>9. Truthful(W, Rsp(pkt, 1))'
    BY SMTT(60), <1>1, <1>5 DEF Truthful, Rsp
  <1>10. AnswerInv(W)'
    BY SMTT(60), <1>1, <1>8, <1>9 DEF AnswerInv
  <1>11. AppliedInv'
    BY <1>1 DEF OutcomeInv, AppliedInv
  <1> QED BY SMTT(60), <1>6, <1>7, <1>8, <1>10, <1>11 DEF OutcomeInv
-----------------------------------------------------------------------------
LEMMA WalkInit ==
  ASSUME NEW W
  PROVE  SyncInit => WalkInv(W)
  <1> SUFFICES ASSUME SyncInit PROVE WalkInv(W)
    OBVIOUS
  <1>1. /\ pkt = NoPacket /\ idxGrp = NoGroup /\ pc = "read" /\ sync = SyncIdle
        /\ req = NoRequest /\ grp = 0 /\ rsps = {} /\ done = {}
    BY DEF SyncInit
  <1>2. pkt.grp = 0 /\ pkt.req = NoRequest
    BY <1>1 DEF NoPacket
  <1>3. pkt \notin RealPacket
    <2>1. NoRequest \notin Requests
      BY SMTT(60), RequestTypes DEF NoRequest
    <2> QED BY SMTT(60), <1>2, <2>1 DEF RealPacket
  <1>4. GroupInv
    BY SMTT(60), <1>1, <1>2, <1>3 DEF GroupInv
  <1>5. PlaceInv(W) /\ GivenUpInv(W) /\ DoneInv(W) /\ AnswerInv(W)
    BY SMTT(60), <1>1, IdleTypes DEF PlaceInv, GivenUpInv, DoneInv, AnswerInv
  <1>6. AppliedInv
    <2>1. PICK c \in [Parts -> {Blank}] : buf = [p \in Parts |-> initBuf(c[p])] /\ applied = c
      BY DEF SyncInit
    <2>2. \A p \in Parts : buf[p].backup.data = c[p]
      BY <2>1 DEF initBuf, Copy
    <2> QED BY <2>1, <2>2 DEF AppliedInv
  <1> QED BY SMTT(60), <1>4, <1>5, <1>6 DEF WalkInv, OutcomeInv

LEMMA WalkStep ==
  ASSUME NEW W, Walk(W)
  PROVE  SyncInv /\ WalkInv(W) /\ [SyncNext]_syncVars => WalkInv(W)'
  <1> SUFFICES ASSUME SyncInv, WalkInv(W), [SyncNext]_syncVars PROVE WalkInv(W)'
    OBVIOUS
  <1>1. GroupInv /\ GroupInv'
    BY GroupStep DEF WalkInv
  <1>2. SUFFICES ASSUME ~torn' PROVE OutcomeInv(W)'
    BY <1>1 DEF WalkInv
  <1>3. ~torn
    BY <1>2, TornStays
  <1>4. OutcomeInv(W)
    BY SMTT(60), <1>3 DEF WalkInv
  <1>5. CASE \E r \in Requests : ModemRequest(r)
    BY SMTT(60), <1>1, <1>4, <1>5, ModemRequestOutcome
  <1>6. CASE ReadPacket \/ ReadError \/ ReadShort
    BY SMTT(60), <1>1, <1>2, <1>4, <1>6, ReadOutcome
  <1>7. CASE Reopen
    BY SMTT(60), <1>4, <1>7, ReopenOutcome
  <1>8. CASE ParseHead
    BY SMTT(60), <1>1, <1>4, <1>8, ParseHeadOutcome
  <1>9. CASE ParseBody
    BY SMTT(60), <1>1, <1>4, <1>9, ParseBodyOutcome
  <1>10. CASE ParseData
    BY <1>1, <1>4, <1>10, ParseDataOutcome
  <1>11. CASE ParseEnd
    BY SMTT(60), <1>1, <1>4, <1>11, ParseEndOutcome
  <1>12. CASE ParseTail
    BY SMTT(60), <1>1, <1>4, <1>12, ParseTailOutcome
  <1>13. CASE Committed
    BY SMTT(60), <1>1, <1>4, <1>13, CommittedOutcome
  <1>14. CASE UNCHANGED syncVars
    <2>1. UNCHANGED <<buf, pkt, idxGrp, idxSub, pc, rest, sync, req, grp, rsps, done, applied>>
      BY <1>14 DEF syncVars
    <2>2. PlaceInv(W)'
      BY <1>4, <2>1 DEF OutcomeInv, PlaceInv, Place, OfGroup
    <2>3. GivenUpInv(W)'
      BY <1>4, <2>1 DEF OutcomeInv, GivenUpInv, OfGroup, Commits
    <2>4. DoneInv(W)'
      BY <1>4, <2>1 DEF OutcomeInv, DoneInv, Commits
    <2>5. AnswerInv(W)'
      BY <1>4, <2>1 DEF OutcomeInv, AnswerInv, Truthful, Commits
    <2>6. AppliedInv'
      BY <1>4, <2>1 DEF OutcomeInv, AppliedInv
    <2> QED BY SMTT(60), <2>2, <2>3, <2>4, <2>5, <2>6 DEF OutcomeInv
  <1> QED
    BY SMTT(60), <1>5, <1>6, <1>7, <1>8, <1>9, <1>10, <1>11, <1>12, <1>13, <1>14 DEF SyncNext, Receive

LEMMA AlwaysWalkInv ==
  ASSUME NEW W, Walk(W)
  PROVE  SyncSpec => []WalkInv(W)
  <1>1. SyncInit => WalkInv(W)
    BY WalkInit
  <1>2. SyncInv /\ WalkInv(W) /\ [SyncNext]_syncVars => WalkInv(W)'
    BY WalkStep
  <1> QED BY <1>1, <1>2, AlwaysSyncInv, PTL DEF SyncSpec
-----------------------------------------------------------------------------
\* AllOrNothing for any set of requests with a walk: what backupData commits is
\* what the request stands for, on top of the requests committed before it,
\* however its packets were lost, repeated or reordered on the way.
THEOREM AlwaysAllOrNothing ==
  ASSUME NEW W, Walk(W)
  PROVE  SyncSpec => []AllOrNothing
  <1>1. SyncSpec => []WalkInv(W)
    BY SMTT(60), AlwaysWalkInv
  <1>2. WalkInv(W) => AllOrNothing
    BY DEF WalkInv, OutcomeInv, AppliedInv, AllOrNothing
  <1> QED BY <1>1, <1>2, PTL

\* RspTruth for any set of requests with a walk: syncAnalyzer refuses no request
\* that was committed, and confirms the last packet of no request that was not.
THEOREM AlwaysRspTruth ==
  ASSUME NEW W, Walk(W)
  PROVE  SyncSpec => []RspTruth
  <1>1. SyncSpec => []WalkInv(W)
    BY SMTT(60), AlwaysWalkInv
  <1>2. WalkInv(W) => RspTruth
    BY DEF WalkInv, OutcomeInv, AnswerInv, Truthful, RspTruth
  <1> QED BY <1>1, <1>2, PTL
=============================================================================
