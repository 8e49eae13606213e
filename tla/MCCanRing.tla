----------------------------- MODULE MCCanRing -----------------------------
(* The ring with four slots instead of 25; the frames are model values.     *)
EXTENDS CanRing
=============================================================================
