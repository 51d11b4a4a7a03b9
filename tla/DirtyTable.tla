----------------------------- MODULE DirtyTable -----------------------------
(***************************************************************************)
(* _markDirtyInfo of nvitem_buf.c: how a range of sectors is marked in the *)
(* dirty table, an array of 32-bit words with one bit per sector.  NvBuf   *)
(* takes the result for granted.                                           *)
(*                                                                         *)
(* A word is the set of its bits: |= is union, and a shifted mask is an    *)
(* interval.  The range lies within the table, as it does for a request    *)
(* that stays within a partition of at most 32 * Words sectors.            *)
(***************************************************************************)
EXTENDS Integers

CONSTANTS
    Words,   \* RAMNV_DIRTYTABLE_MAXSIZE
    Before   \* the tables the call may find

Bits == 0 .. 31
Table == [0 .. Words - 1 -> SUBSET Bits]

ASSUME DirtyTableAssumption ==
    /\ Words \in Nat \ {0}
    /\ Before \subseteq Table

VARIABLES
    dirty,  \* _DIRTY_TABLE
    start,  \* the argument start
    num,    \* the argument scts as it was passed
    scts,   \* the variable scts
    bytes,  \* _bytes
    bits,   \* _bits
    pc,     \* "loop" or "done"
    old     \* history: the table as the call found it

tableVars == <<dirty, start, num, scts, bytes, bits, pc, old>>

TableInit ==
    /\ start \in 0 .. 32 * Words - 1
    /\ num \in 0 .. 32 * Words - start
    /\ scts = num
    /\ bytes = start \div 32
    /\ bits = start - 32 * bytes
    /\ pc = "loop"
    /\ dirty \in Before
    /\ old = dirty

\* _U32MASK << n
MaskLeft(n) == {b \in Bits : n <= b}

\* What _U32MASK >> n can be.  A shift by 32 is undefined: the usual shifters
\* give no bits or all of them.
MaskRight(n) == IF n = 32 THEN {{}, Bits} ELSE {{b \in Bits : b < 32 - n}}

\* w << n
ShiftLeft(w, n) == {b \in Bits : b - n \in w}

\* Mutant: _bits is not reset.
FillWordKeepsBits ==
    /\ pc = "loop"
    /\ 32 - bits < scts
    /\ dirty' = [dirty EXCEPT ![bytes] = @ \cup MaskLeft(bits)]
    /\ scts' = scts - (32 - bits)
    /\ bytes' = bytes + 1
    /\ UNCHANGED <<start, num, bits, pc, old>>

\* The loop: the rest of a word.
FillWord ==
    /\ pc = "loop"
    /\ 32 - bits < scts
    /\ dirty' = [dirty EXCEPT ![bytes] = @ \cup MaskLeft(bits)]
    /\ scts' = scts - (32 - bits)
    /\ bytes' = bytes + 1
    /\ bits' = 0
    /\ UNCHANGED <<start, num, pc, old>>

\* After the loop: the remaining sectors, all in one word.
LastWord ==
    /\ pc = "loop"
    /\ ~(32 - bits < scts)
    /\ \E w \in MaskRight(32 - scts) :
         dirty' = [dirty EXCEPT ![bytes] = @ \cup ShiftLeft(w, bits)]
    /\ pc' = "done"
    /\ UNCHANGED <<start, num, scts, bytes, bits, old>>

TableNext == FillWord \/ LastWord

TableSpec == TableInit /\ [][TableNext]_tableVars
-----------------------------------------------------------------------------
TableTypeOK ==
    /\ dirty \in Table /\ old \in Table
    /\ start \in 0 .. 32 * Words - 1
    /\ num \in Nat /\ start + num <= 32 * Words
    /\ scts \in Nat /\ bytes \in Nat /\ bits \in Bits
    /\ pc \in {"loop", "done"}

\* The word that _markDirtyInfo is about to change is one of the table, also
\* when the range ends with the last sector of the table or of a word.
InTable == pc = "loop" => bytes \in 0 .. Words - 1

\* Word by word _markDirtyInfo marks exactly the announced sectors: no bit that
\* was set is lost, and none outside the range is set.  Only an empty range,
\* which shifts by 32, may set others.
MarksRange ==
    pc = "done" =>
        \A w \in 0 .. Words - 1, b \in Bits :
            LET asked == start <= 32 * w + b /\ 32 * w + b < start + num
            IN  /\ b \in old[w] \/ asked => b \in dirty[w]
                /\ num > 0 /\ b \in dirty[w] => b \in old[w] \/ asked
=============================================================================
