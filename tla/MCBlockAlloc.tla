--------------------------- MODULE MCBlockAlloc ---------------------------
(* The allocator for TLC: blocks of two bytes, requests from nothing to     *)
(* more than a run of blocks can give.                                      *)
EXTENDS BlockAlloc

MCSizes == {0, 1, 2, 3, 5, 9}
=============================================================================
