--------------------------- MODULE MCFlashConfig ---------------------------
(* The flash records for TLC: two-bit words, two marks in front of the      *)
(* content and no word behind it.  The host's words differ in both bits, so *)
(* that a mixture of two is a third word; the erased word is not among them. *)
EXTENDS FlashConfig

MCBits   == {0, 1}
MCMark   == {0}
MCValues == {{0}, {1}}
=============================================================================
