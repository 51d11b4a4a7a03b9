----------------------------- MODULE MCRamDisk -----------------------------
(* One partition of two sectors and two contents that differ in both: a      *)
(* torn image is a mixture that is neither.                                  *)
EXTENDS RamDisk

MCWrites == {[s \in Sectors |-> v] : v \in Vals}
=============================================================================
