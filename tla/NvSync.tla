------------------------------- MODULE NvSync -------------------------------
(***************************************************************************)
(* The receiving side of nvitemd: packets from the modem (nvitem_packet.c, *)
(* nvitem_channe_spipe.c), the request parser (nvitem_sync.c) and the      *)
(* buffers it fills (NvBuf).                                               *)
(*                                                                         *)
(* A request is a head, bodies each followed by the sectors it announces,  *)
(* and a tail.  The modem cuts it into packets, numbered within a group;   *)
(* every request has a group of its own.  The channel may lose, repeat or  *)
(* reorder the packets of the current group, deliver one cut short, or     *)
(* report an error.                                                        *)
(***************************************************************************)
EXTENDS NvBuf, Sequences

CONSTANTS
    PartIds,    \* partition numbers a request may name, those of Parts among them
    Requests,   \* the requests the modem makes
    MaxGroups,  \* bound on the number of requests
    NoGroup     \* _idxGrp after _initPacket

(***************************************************************************)
(* What a packet is made of: SYNC_REQ tokens, sectors of data, and         *)
(* remainders shorter than a token (padding, or a token cut in two).       *)
(***************************************************************************)
HeadItem(i, p)    == [t |-> "head", idx |-> i, part |-> p]
BodyItem(i, s, n) == [t |-> "body", idx |-> i, start |-> s, num |-> n]
TailItem(i)       == [t |-> "tail", idx |-> i]
DataItem(v)       == [t |-> "data", val |-> v]
ShortItem         == [t |-> "short"]
JunkItem          == [t |-> "junk"]

Items ==
         [t : {"head"}, idx : Nat, part : PartIds]
    \cup [t : {"body"}, idx : Nat, start : Sectors, num : Nat \ {0}]
    \cup [t : {"tail"}, idx : Nat]
    \cup [t : {"data"}, val : Vals]
    \cup {ShortItem, JunkItem}

ASSUME NvSyncAssumption ==
    /\ Parts \subseteq PartIds
    /\ MaxGroups \in Nat
    /\ NoGroup \notin Nat
    /\ \A r \in Requests :
         /\ r.packets \in Seq(Seq(Items)) /\ r.packets # <<>>
         /\ r.part \in PartIds
         /\ \E S \in SUBSET Sectors : r.writes \in [S -> Vals]

VARIABLES
    buf,      \* ramNvCtl
    pkt,      \* packeBuf: the packet last read
    idxGrp,   \* _idxGrp
    idxSub,   \* _idxSub
    pc,       \* where the main thread is
    rest,     \* what of the packet is not analyzed yet
    sync,     \* the parser's state
    req,      \* the request the modem is sending
    grp,      \* its group number
    rsps,     \* history: responses sent since the modem began its request
    done,     \* history: groups whose request was committed
    applied,  \* history: the partitions as the committed requests made them
    torn      \* history: a packet left over from a read cut short was analyzed

syncVars == <<buf, pkt, idxGrp, idxSub, pc, rest, sync, req, grp, rsps, done, applied, torn>>

NoRequest == [packets |-> <<>>]

Packet(r, g, k) == [grp |-> g, sub |-> k, items |-> r.packets[k + 1], req |-> r, whole |-> TRUE]

\* packeBuf before anything was read has no magic number.
NoPacket == [grp |-> 0, sub |-> 0, items |-> <<>>, req |-> NoRequest, whole |-> FALSE]

SyncIdle == [state |-> 0, busy |-> FALSE, frame |-> 0, id |-> NoGroup, start |-> 0, len |-> 0]

SyncInit ==
    /\ \E c \in [Parts -> {Blank}] : /\ buf = [p \in Parts |-> initBuf(c[p])]
                                     /\ applied = c
    /\ pkt = NoPacket
    /\ idxGrp = NoGroup /\ idxSub = 0
    /\ pc = "read"
    /\ rest = <<>>
    /\ sync = SyncIdle
    /\ req = NoRequest /\ grp = 0
    /\ rsps = {} /\ done = {}
    /\ torn = FALSE
-----------------------------------------------------------------------------
\* The modem starts a request: the next one, or the same again after a failure.
ModemRequest(r) ==
    /\ grp < MaxGroups
    /\ req' = r
    /\ grp' = grp + 1
    /\ rsps' = {}
    /\ UNCHANGED <<buf, pkt, idxGrp, idxSub, pc, rest, sync, done, applied, torn>>

\* A response repeats the header of the packet it answers.
Rsp(pk, val) == [grp |-> pk.grp, sub |-> pk.sub, val |-> val,
                 last |-> pk.sub + 1 = Len(pk.req.packets)]

\* Mutant: _syncReset does not call restoreData.
RestoredNot == buf

\* _syncReset(SYNC_FAIL_RESET) on the buffers.
Restored ==
    IF sync.state # 0 THEN [buf EXCEPT ![sync.id] = restoreData(@)] ELSE buf

\* Mutant: any packet of the group is taken for the next one.
ContinuesUnordered(pk) == pk.grp = idxGrp

\* _getPacket: the next packet of the group, or the first one of another.
Continues(pk) == pk.grp = idxGrp /\ pk.sub = idxSub + 1
Starts(pk) == pk # NoPacket /\ pk.grp # idxGrp /\ pk.sub = 0

\* _getPacket after a full read, and what syncAnalyzer does before it looks at
\* the contents.
Analyze(pk) ==
    \/ /\ Starts(pk)
       /\ idxGrp' = pk.grp /\ idxSub' = 0
       /\ buf' = IF sync.busy THEN Restored ELSE buf
       /\ sync' = [IF sync.busy THEN SyncIdle ELSE sync EXCEPT !.busy = TRUE]
       /\ rest' = pk.items
       /\ pc' = "parse"
       /\ torn' = (torn \/ ~pk.whole)
       /\ UNCHANGED rsps
    \/ /\ Continues(pk)
       /\ idxSub' = idxSub + 1
       /\ IF sync.busy
            THEN /\ rest' = pk.items
                 /\ pc' = "parse"
                 /\ torn' = (torn \/ ~pk.whole)
                 /\ UNCHANGED rsps
            ELSE /\ rsps' = rsps \cup {Rsp(pk, 0)}
                 /\ UNCHANGED <<rest, pc, torn>>
       /\ UNCHANGED <<idxGrp, buf, sync>>
    \/ /\ ~Continues(pk) /\ ~Starts(pk)
       /\ UNCHANGED <<idxGrp, idxSub, buf, sync, rest, pc, torn, rsps>>

\* read() gives a whole packet of the group being sent.
ReadPacket ==
    /\ pc = "read"
    /\ \E k \in 0 .. Len(req.packets) - 1 :
         /\ pkt' = Packet(req, grp, k)
         /\ Analyze(pkt')
    /\ UNCHANGED <<req, grp, done, applied>>

\* read() returns -1, which is larger than any size: the packet before is
\* analyzed again.
ReadError ==
    /\ pc = "read"
    /\ Analyze(pkt)
    /\ UNCHANGED <<pkt, req, grp, done, applied>>

\* What packeBuf holds when only the header and the first n items of pk came.
Cut(pk, n) ==
    [pk EXCEPT !.whole = FALSE,
               !.items = [i \in 1 .. Len(pk.items) |->
                            IF i <= n THEN pk.items[i]
                            ELSE IF i <= Len(pkt.items) THEN pkt.items[i] ELSE JunkItem]]

\* read() gives fewer bytes than asked for: the current request is given up and
\* syncAnalyzer returns.
ReadShort ==
    /\ pc = "read"
    /\ \/ UNCHANGED pkt
       \/ \E k \in 0 .. Len(req.packets) - 1 : \E n \in 0 .. Len(req.packets[k + 1]) - 1 :
             pkt' = Cut(Packet(req, grp, k), n)
    /\ buf' = Restored
    /\ sync' = SyncIdle
    /\ pc' = "closed"
    /\ UNCHANGED <<idxGrp, idxSub, rest, req, grp, rsps, done, applied, torn>>

\* main closes the channel, opens it again and starts over.
Reopen ==
    /\ pc = "closed"
    /\ pc' = "read"
    /\ idxGrp' = NoGroup /\ idxSub' = 0
    /\ sync' = SyncIdle
    /\ UNCHANGED <<buf, pkt, rest, req, grp, rsps, done, applied, torn>>
-----------------------------------------------------------------------------
(***************************************************************************)
(* The loop of syncAnalyzer over one packet.  Every way out but the last   *)
(* sends a response.                                                       *)
(***************************************************************************)
Answer(val) ==
    /\ rsps' = rsps \cup {Rsp(pkt, val)}
    /\ pc' = "read"
    /\ rest' = <<>>

\* Mutant: the response does not tell that the request failed.
FailUntold ==
    /\ buf' = Restored
    /\ sync' = SyncIdle
    /\ Answer(1)

\* _syncReset(SYNC_FAIL_RESET) and response 0.
Fail ==
    /\ buf' = Restored
    /\ sync' = SyncIdle
    /\ Answer(0)

\* __getToken: fewer bytes than a token are left; they are dropped.
WaitForMore ==
    /\ Answer(1)
    /\ UNCHANGED <<buf, sync>>

Parsing(state) == pc = "parse" /\ rest # <<>> /\ sync.state = state

\* The token is a head, and getCtlId finds its partition.
KnownHead(tok) == tok.t = "head" /\ tok.part \in Parts

\* _syncGetHead
ParseHead ==
    /\ Parsing(0)
    /\ LET tok == Head(rest)
       IN  \/ /\ tok.t = "short"
              /\ WaitForMore
           \/ /\ tok.t # "short" /\ ~KnownHead(tok)
              /\ Fail
           \/ /\ KnownHead(tok)
              /\ sync' = [sync EXCEPT !.state = 1, !.frame = tok.idx, !.id = tok.part]
              /\ rest' = Tail(rest)
              /\ UNCHANGED <<buf, pc, rsps>>
    /\ UNCHANGED <<pkt, idxGrp, idxSub, req, grp, done, applied, torn>>

\* _syncGetBody on a body, or on what is neither body nor tail.
ParseBody ==
    /\ Parsing(1)
    /\ LET tok == Head(rest)
           next == tok.t \in {"body", "tail"} /\ tok.idx = sync.frame + 1
       IN  \/ /\ tok.t = "short"
              /\ WaitForMore
           \/ /\ tok.t # "short" /\ ~next
              /\ Fail
           \/ /\ tok.t = "body" /\ next
              /\ buf' = [buf EXCEPT ![sync.id] = markDirtyInfo(@, tok.start, tok.num)]
              /\ sync' = [sync EXCEPT !.state = 2, !.frame = tok.idx,
                                      !.start = tok.start, !.len = tok.num]
              /\ rest' = Tail(rest)
              /\ UNCHANGED <<pc, rsps>>
    /\ UNCHANGED <<pkt, idxGrp, idxSub, req, grp, done, applied, torn>>

\* What a request makes of a partition.
Apply(writes, c) == [s \in Sectors |-> IF s \in DOMAIN writes THEN writes[s] ELSE c[s]]

\* _syncGetBody on the tail, and the locked part of backupData.
ParseTail ==
    /\ Parsing(1)
    /\ Head(rest).t = "tail" /\ Head(rest).idx = sync.frame + 1
    /\ buf' = [buf EXCEPT ![sync.id] = backupData(@)]
    /\ pc' = "event"
    /\ done' = done \cup {pkt.grp}
    /\ applied' = [applied EXCEPT ![sync.id] = Apply(pkt.req.writes, @)]
    /\ UNCHANGED <<pkt, idxGrp, idxSub, rest, sync, req, grp, rsps, torn>>

Val(item) == IF item.t = "data" THEN item.val ELSE Erased

\* _syncGetData: as many of the announced sectors as the packet has.
ParseData ==
    /\ Parsing(2)
    /\ LET n == IF sync.len <= Len(rest) THEN sync.len ELSE Len(rest)
           val == [s \in Sectors |->
                     IF sync.start <= s /\ s < sync.start + n
                       THEN Val(rest[s - sync.start + 1]) ELSE Erased]
       IN  /\ buf' = [buf EXCEPT ![sync.id] = writeData(@, sync.start, n, val)]
           /\ IF sync.len <= Len(rest)
                THEN /\ sync' = [sync EXCEPT !.state = 1, !.start = @ + n, !.len = 0]
                     /\ rest' = SubSeq(rest, n + 1, Len(rest))
                     /\ UNCHANGED <<pc, rsps>>
                ELSE /\ sync' = [sync EXCEPT !.start = @ + n, !.len = @ - n]
                     /\ Answer(1)
    /\ UNCHANGED <<pkt, idxGrp, idxSub, req, grp, done, applied, torn>>

\* The packet ends with a token or with the last sector of a body: the loop is
\* left without a response.
ParseEnd ==
    /\ pc = "parse"
    /\ rest = <<>>
    /\ pc' = "read"
    /\ UNCHANGED <<buf, pkt, idxGrp, idxSub, rest, sync, req, grp, rsps, done, applied, torn>>

\* After backupData: _syncInit and response 1; what follows the tail is dropped.
Committed ==
    /\ pc = "event"
    /\ sync' = SyncIdle
    /\ Answer(1)
    /\ UNCHANGED <<buf, pkt, idxGrp, idxSub, req, grp, done, applied, torn>>
-----------------------------------------------------------------------------
\* The main thread up to the tail of a request.
Receive ==
    \/ \E r \in Requests : ModemRequest(r)
    \/ ReadPacket
    \/ ReadError
    \/ ReadShort
    \/ Reopen
    \/ ParseHead
    \/ ParseBody
    \/ ParseData
    \/ ParseEnd

SyncNext == Receive \/ ParseTail \/ Committed

SyncSpec == SyncInit /\ [][SyncNext]_syncVars
-----------------------------------------------------------------------------
SyncTypeOK ==
    /\ buf \in [Parts -> PartCtl]
    /\ pc \in {"read", "parse", "event", "closed"}
    /\ rest \in Seq(Items)
    /\ sync \in [state : 0 .. 2, busy : BOOLEAN, frame : Nat, id : Parts \cup {NoGroup},
                 start : Nat, len : Nat]
    /\ sync.state # 0 => sync.id \in Parts
    /\ idxGrp \in Nat \cup {NoGroup} /\ idxSub \in Nat
    /\ grp \in 0 .. MaxGroups
    /\ applied \in [Parts -> Content]

\* Requests are all or nothing: whatever is lost, repeated or cut short on the
\* channel, the committed copy of a partition is what the requests acknowledged
\* by backupData make of it, one after the other, with nothing of a request
\* that _syncReset rolled back.
AllOrNothing == ~torn => \A p \in Parts : buf[p].backup.data = applied[p]

\* Between packets the incoming copy differs from the committed one only in the
\* partition of a request that is still arriving: _syncReset leaves nothing
\* behind for the next backupData to commit.
RollbackClean ==
    pc \in {"read", "closed"} =>
        \A p \in Parts : ~sync.busy \/ p # sync.id => buf[p].fromChannel.data = buf[p].backup.data

\* Responses do not lie: 0 is never sent for a request that was committed, and
\* 1 for its last packet only after it was.
RspTruth ==
    ~torn => \A r \in rsps : /\ r.val = 0 => r.grp \notin done
                            /\ r.val = 1 /\ r.last => r.grp \in done

\* The parser as the rest of the daemon sees it.
Intake == INSTANCE NvIntake WITH
    NoPart <- NoGroup,
    phase  <- IF pc = "event" THEN "commit" ELSE IF sync.state # 0 THEN "busy" ELSE "idle",
    id     <- sync.id

\* Packets, tokens, lost and repeated packets and the channel's errors together
\* implement NvIntake: every request is committed or rolled back as a whole, and
\* only sectors announced to _markDirtyInfo are ever written.
ImplementsIntake == Intake!IntakeSpec

\* SYNC_CONTINUE (nvitem_sync.c:127): "analyzer not complete, information is not
\* enough, wait for continuous information".  So when a packet was answered with
\* 1, the packet that continues it is not refused.
ContinuesToken ==
    \A r, q \in rsps : r.grp = q.grp /\ q.sub = r.sub + 1 /\ r.val = 1 => q.val # 0
=============================================================================
