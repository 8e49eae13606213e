----------------------------- MODULE MCNetInput -----------------------------
(* Three buffers, frames of one or two of them, two messages for a mailbox  *)
(* of three; the tick counter wraps after 8.                                *)
EXTENDS NetInput

MCPbufs   == 1..3
MCLengths == {1, 2}
=============================================================================
