------------------------------- MODULE NvWalk -------------------------------
(***************************************************************************)
(* What the parser of NvSync makes of a request that arrives as it was     *)
(* sent, packet after packet: the positions it comes through.  The proofs  *)
(* of NvSync are about requests for which such a walk commits what the     *)
(* request asks for, or fails; they show that nothing a channel does       *)
(* changes the outcome.                                                    *)
(***************************************************************************)
EXTENDS NvSync

\* In packet k of request r the items s are left, the parser is in state y, and
\* the sectors w have been written.
Position(r, k, s, y, w) == [req |-> r, sub |-> k, rest |-> s, sync |-> y, writes |-> w]

\* syncAnalyzer at the first packet of a request.
Start(r) == Position(r, 0, r.packets[1], [SyncIdle EXCEPT !.busy = TRUE], <<>>)

LastPacket(x) == x.sub + 1 = Len(x.req.packets)

Token(x) == Head(x.rest)
InTurn(x) == Token(x).t \in {"body", "tail"} /\ Token(x).idx = x.sync.frame + 1

\* What syncAnalyzer does at a position: it waits for more (__getToken), takes a
\* head, a body or data, gives up, or commits.
Waits(x)  == x.rest # <<>> /\ x.sync.state # 2 /\ Token(x).t = "short"
Heads(x)  == x.rest # <<>> /\ x.sync.state = 0 /\ KnownHead(Token(x))
Bodies(x) == x.rest # <<>> /\ x.sync.state = 1 /\ InTurn(x) /\ Token(x).t = "body"
Tails(x)  == x.rest # <<>> /\ x.sync.state = 1 /\ InTurn(x) /\ Token(x).t = "tail"
Data(x)   == x.rest # <<>> /\ x.sync.state = 2
Fails(x)  == x.rest # <<>> /\ x.sync.state # 2
             /\ ~(Waits(x) \/ Heads(x) \/ Bodies(x) \/ Tails(x))

\* The n first items of s, written from sector start on over the writes w.
Over(w, start, n, s) ==
    [i \in DOMAIN w \cup {j \in Sectors : start <= j /\ j < start + n} |->
        IF start <= i /\ i < start + n THEN Val(s[i - start + 1]) ELSE w[i]]

NextPacket(x) == Position(x.req, x.sub + 1, x.req.packets[x.sub + 2], x.sync, x.writes)
Dropped(x) == Position(x.req, x.sub, <<>>, x.sync, x.writes)
HeadTaken(x) ==
    Position(x.req, x.sub, Tail(x.rest),
             [x.sync EXCEPT !.state = 1, !.frame = Token(x).idx, !.id = Token(x).part],
             x.writes)
BodyTaken(x) ==
    Position(x.req, x.sub, Tail(x.rest),
             [x.sync EXCEPT !.state = 2, !.frame = Token(x).idx,
                            !.start = Token(x).start, !.len = Token(x).num],
             x.writes)
AllData(x) ==
    Position(x.req, x.sub, SubSeq(x.rest, x.sync.len + 1, Len(x.rest)),
             [x.sync EXCEPT !.state = 1, !.start = @ + x.sync.len, !.len = 0],
             Over(x.writes, x.sync.start, x.sync.len, x.rest))
SomeData(x) ==
    Position(x.req, x.sub, <<>>,
             [x.sync EXCEPT !.start = @ + Len(x.rest), !.len = @ - Len(x.rest)],
             Over(x.writes, x.sync.start, Len(x.rest), x.rest))

\* The packet ends within the data that a body announced.
Runs(x) == Data(x) /\ x.sync.len > Len(x.rest)

\* Where the parser goes from x, if it goes on.
Follow(x) ==
    IF x.rest = <<>> THEN IF LastPacket(x) THEN {} ELSE {NextPacket(x)}
    ELSE IF Waits(x) THEN {Dropped(x)}
    ELSE IF Heads(x) THEN {HeadTaken(x)}
    ELSE IF Bodies(x) THEN {BodyTaken(x)}
    ELSE IF Runs(x) THEN {SomeData(x)}
    ELSE IF Data(x) THEN {AllData(x)}
    ELSE {}

\* W holds a request with a tail the parser accepts.
Commits(W, r) == \E x \in W : x.req = r /\ Tails(x)

\* W is closed under the parser's steps.  A request is either committed or given
\* up; its tail is in its last packet and commits the writes it stands for; and
\* the last packet is not answered as if more were to come.
Walk(W) ==
    /\ \A r \in Requests : Start(r) \in W
    /\ \A x \in W : /\ Follow(x) \subseteq W
                    /\ Waits(x) \/ Runs(x) => ~LastPacket(x)
                    /\ Tails(x) => LastPacket(x) /\ x.writes = x.req.writes
                    /\ Fails(x) => ~Commits(W, x.req)
=============================================================================
