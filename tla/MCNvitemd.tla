----------------------------- MODULE MCNvitemd -----------------------------
(***************************************************************************)
(* Two models that share no state, in one: the daemon, whose buffers have  *)
(* a set of dirty sectors, and _markDirtyInfo on the dirty table in its    *)
(* real layout.  A behaviour is one of them (part), and the other stays in *)
(* an initial state.                                                       *)
(***************************************************************************)
EXTENDS Nvitemd, DirtyTable

VARIABLE part

mcVars == <<part, vars, tableVars>>

\* Any contents may be on the device when the daemon first starts.
MCWrites == Content

\* Nothing is dirty, or a few sectors at the ends of words are.
Clean == [w \in 0 .. Words - 1 |-> {}]
MCBefore == {Clean, [w \in 0 .. Words - 1 |-> {0, 15, 31}]}

MCInit ==
    /\ Init /\ TableInit
    /\ \/ part = "daemon" /\ start = 0 /\ num = 0 /\ dirty = Clean
       \/ part = "table" /\ \A p \in Parts : found[p] = {Blank}

DaemonStep(A) == part = "daemon" /\ A /\ UNCHANGED <<part, tableVars>>
MarkDirty(A) == part = "table" /\ A /\ UNCHANGED <<part, vars>>

\* _markDirtyInfo has returned.
Returned == pc = "done" /\ UNCHANGED tableVars

MCNext == DaemonStep(Next) \/ MarkDirty(TableNext) \/ MarkDirty(Returned)

MCSpec == MCInit /\ [][MCNext]_mcVars
=============================================================================
