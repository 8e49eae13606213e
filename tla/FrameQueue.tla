----------------------------- MODULE FrameQueue -----------------------------
(***************************************************************************)
(* What a receive path promises: a bounded FIFO of frames.  CanRing and    *)
(* NetInput, the two ways into the unit, implement it.                     *)
(* A frame stays at the head while its handler runs and leaves the queue   *)
(* when the handler has finished; no frame is lost, repeated or overtaken. *)
(***************************************************************************)
EXTENDS Naturals, Sequences

CONSTANTS Frames, Capacity, NoFrame

VARIABLES
  queue,  \* frames received and not yet handled, oldest first
  busy    \* the frame whose handler runs, NoFrame between handlers

Init == queue = <<>> /\ busy = NoFrame

Arrive(f) ==
  /\ Len(queue) < Capacity
  /\ queue' = Append(queue, f)
  /\ UNCHANGED busy

Begin ==
  /\ queue # <<>> /\ busy = NoFrame
  /\ busy' = Head(queue)
  /\ UNCHANGED queue

Finish ==
  /\ busy # NoFrame
  /\ queue' = Tail(queue)
  /\ busy' = NoFrame

Next == (\E f \in Frames : Arrive(f)) \/ Begin \/ Finish

Spec == Init /\ [][Next]_<<queue, busy>>
=============================================================================
