------------------------------- MODULE NvData -------------------------------
(***************************************************************************)
(* The data that nvitemd moves around: NV partitions made of sectors.      *)
(* A sector is RAMNV_SECT_SIZE bytes of nvitem_common.h; here it holds one *)
(* of a few values.  The byte 0xFF that ramDisk_Read fills a buffer with   *)
(* is the value Erased.                                                    *)
(***************************************************************************)
EXTENDS Naturals

CONSTANTS
    Parts,       \* partition identifiers of the configuration file
    NumSectors,  \* image_size / RAMNV_SECT_SIZE, the same for every partition
    Vals,        \* what one sector can hold
    Erased       \* a sector filled with 0xFF

ASSUME NvDataAssumption ==
    /\ Parts # {}
    /\ NumSectors \in Nat \ {0}
    /\ Erased \in Vals

Sectors == 1 .. NumSectors

\* The contents of one partition buffer.
Content == [Sectors -> Vals]

\* memset(buf, 0xFF, size)
Blank == [s \in Sectors |-> Erased]

\* The first k sectors of new laid over old.
Prefix(old, new, k) == [s \in Sectors |-> IF s <= k THEN new[s] ELSE old[s]]
=============================================================================
