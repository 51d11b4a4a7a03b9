------------------------------ MODULE MCNvSync ------------------------------
(***************************************************************************)
(* Requests that exercise the parser: data spread over packets that end    *)
(* with a token or with a sector, a packet with padding, several bodies in *)
(* one packet, a partition that is not in the configuration, and a tail    *)
(* out of sequence.                                                        *)
(***************************************************************************)
EXTENDS NvWalk, TLC

CONSTANTS p1, p2, px, v1, v2

FourPackets ==
    [part |-> p1, writes |-> 1 :> v1 @@ 2 :> v2,
     packets |-> << <<HeadItem(1, p1), BodyItem(2, 1, 2)>>, <<DataItem(v1)>>, <<DataItem(v2)>>,
                    <<TailItem(3)>> >>]

Padded ==
    [part |-> p1, writes |-> 2 :> v2,
     packets |-> << <<HeadItem(5, p1), BodyItem(6, 2, 1), DataItem(v2), ShortItem>>,
                    <<TailItem(7), ShortItem>> >>]

TwoBodies ==
    [part |-> p2, writes |-> 1 :> v2 @@ 2 :> v1,
     packets |-> << <<HeadItem(1, p2), BodyItem(2, 1, 1), DataItem(v2),
                      BodyItem(3, 2, 1), DataItem(v1), TailItem(4)>> >>]

UnknownPart ==
    [part |-> px, writes |-> <<>>,
     packets |-> << <<HeadItem(1, px), BodyItem(2, 1, 1)>>, <<DataItem(v1), TailItem(3)>> >>]

BadSequence ==
    [part |-> p1, writes |-> <<>>,
     packets |-> << <<HeadItem(1, p1), BodyItem(2, 2, 1)>>, <<DataItem(v1), TailItem(9)>> >>]

MCRequests == {FourPackets, Padded, TwoBodies, UnknownPart, BadSequence}

\* A tail cut in two by the end of a packet.
SplitTail ==
    [part |-> p1, writes |-> 1 :> v1,
     packets |-> << <<HeadItem(1, p1), BodyItem(2, 1, 1), DataItem(v1), ShortItem>>,
                    <<JunkItem>> >>]

SplitRequests == {SplitTail, FourPackets}

\* The positions the parser comes to from those of W.
RECURSIVE Closure(_)
Closure(W) ==
    LET N == W \cup UNION {Follow(x) : x \in W}
    IN  IF N = W THEN W ELSE Closure(N)

\* The requests have the walk that the theorems of NvSyncProofs ask for.
ASSUME RequestsWalk == Walk(Closure({Start(r) : r \in Requests}))
=============================================================================
