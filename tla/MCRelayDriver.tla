--------------------------- MODULE MCRelayDriver ---------------------------
(* Frames of every command: channels at both ends of the range and two that *)
(* share a latch or have their relays in two latches, with and without the  *)
(* load bit, and the resistances 0 and 32000 and one above the limit.       *)
EXTENDS RelayDriver

Frame(c, ch, b, r) == [cmd |-> c, chans |-> ch, byte12 |-> b, res |-> r]

MCFrames ==
  { NoFrame, Frame(4, {0, 71}, 3, 0),
    Frame(0, {0, 5, 71}, 1, 0), Frame(0, {0, 1, 5}, 5, 0), Frame(0, {5}, 21, 0),
    Frame(1, {5, 10}, 1, 0), Frame(1, {71}, 4, 0),
    Frame(2, {4, 5}, 1, 32000), Frame(2, {5}, 7, 40000), Frame(2, {5, 71}, 6, 100),
    Frame(2, {5}, 6, 100), Frame(2, {0, 5}, 19, 1), Frame(0, {1, 17}, 7, 0),
    Frame(3, {0, 17}, 2, 0), Frame(3, {5}, 3, 0) }

MCTwoFrames == { Frame(0, {0}, 1, 0), Frame(0, {10}, 1, 0) }
=============================================================================
