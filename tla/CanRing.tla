------------------------------ MODULE CanRing ------------------------------
(***************************************************************************)
(* The ring between the CAN receive interrupt (HAL_CAN_RxCpltCallback in   *)
(* HARDWARE/CAN/can.c) and the task that polls HostCanDataAnalysis         *)
(* (FiuHostDataAnalysis.c).  Cursors count 8-byte frames here; the code    *)
(* counts bytes, N * 8 = CANBUFDATALEN = 200.                              *)
(*                                                                         *)
(* The cursors are uint16_t where they are defined and uint32_t where      *)
(* can.c declares them.  The linker places g_DealDataCur at 0x20000068 and *)
(* g_IntrDataCur behind it at 0x2000006a (OBJ/FiuNv1.0.map), and the       *)
(* interrupt loads whole words: its g_DealDataCur has g_IntrDataCur in the *)
(* upper half.  Behind g_IntrDataCur there are only padding bytes, which   *)
(* stay 0, so its g_IntrDataCur has the right value.                       *)
(*                                                                         *)
(* The UDP thread shares g_DataFromHost with the handler and can overwrite *)
(* it there; this module is about the frames up to the start of a handler. *)
(***************************************************************************)
EXTENDS Integers

CONSTANTS
  N,        \* slots of the ring
  Frames,   \* contents of the frames the host sends to this unit
  NoFrame,  \* the content of a slot never written
  Window    \* how many frames the host sends ahead of the ones handled;
            \* N or more is a host that does not wait for the ring

HalfWord == 256 * 256

ASSUME RingAssumption ==
  /\ N \in Nat \ {0, 1} /\ 8 * N < HalfWord
  /\ Window \in Nat
  /\ NoFrame \notin Frames

VARIABLES
  slots,  \* g_HOSTCANDATABUF
  intr,   \* g_IntrDataCur, moved by the interrupt
  deal,   \* g_DealDataCur, moved by the task
  pc,     \* where the task is: "poll", "handle" or "wrap"
  cur,    \* g_DataFromHost: the copy the handler works on
  out     \* history: frames stored and not yet handled

vars == <<slots, intr, deal, pc, cur, out>>

Init ==
  /\ slots = [i \in 0..N-1 |-> NoFrame]
  /\ intr = 0
  /\ deal = 0
  /\ pc = "poll"
  /\ cur = NoFrame
  /\ out = 0

-----------------------------------------------------------------------------
(* Slip: the cursor of the interrupt runs over the end of the buffer.      *)
AdvanceIntr_NoWrap(c) == c + 1

AdvanceIntr(c) == (c + 1) % N

(* The word the interrupt reads at the address of g_DealDataCur.            *)
DealSeenByIsr == deal + HalfWord * intr

(* Slip: the test for a full ring is the test for an empty one.            *)
HasRoom_EmptyTest == intr # DealSeenByIsr

(* The test for a full ring, as compiled.                                   *)
HasRoom == AdvanceIntr(intr) # DealSeenByIsr

(* Slip: the frame is stored behind the advanced cursor.                   *)
Receive_AdvanceFirst(f) ==
  /\ out < Window
  /\ slots' = [slots EXCEPT ![AdvanceIntr(intr)] = f]
  /\ intr' = AdvanceIntr(intr)
  /\ out' = out + 1
  /\ UNCHANGED <<deal, pc, cur>>

(* The interrupt, for a frame with the identifier of this unit (frames for  *)
(* others change nothing).  It runs between any two steps of the task.  A   *)
(* frame that HasRoom refuses is dropped; a full ring it does not see as    *)
(* full is written over.  The host keeps at most Window frames unanswered.  *)
Receive(f) ==
  /\ out < Window
  /\ IF HasRoom
     THEN /\ slots' = [slots EXCEPT ![intr] = f]
          /\ intr' = AdvanceIntr(intr)
          /\ out' = out + 1
     ELSE UNCHANGED <<slots, intr, out>>
  /\ UNCHANGED <<deal, pc, cur>>

-----------------------------------------------------------------------------
(* HostCanDataAnalysis: copy the oldest frame ...                           *)
Poll ==
  /\ pc = "poll"
  /\ intr # deal
  /\ cur' = slots[deal]
  /\ pc' = "handle"
  /\ UNCHANGED <<slots, intr, deal, out>>

(* ... run its handler, add 8 to the cursor ...                             *)
Handled ==
  /\ pc = "handle"
  /\ deal' = deal + 1
  /\ cur' = NoFrame
  /\ pc' = "wrap"
  /\ out' = out - 1
  /\ UNCHANGED <<slots, intr>>

(* Slip: the handler returns without coming back to the poll.              *)
Wrap_Stuck ==
  /\ pc = "wrap"
  /\ deal' = deal % N
  /\ UNCHANGED <<slots, intr, pc, cur, out>>

(* ... and reduce it, in a second store the interrupt can precede.          *)
Wrap ==
  /\ pc = "wrap"
  /\ deal' = deal % N
  /\ pc' = "poll"
  /\ UNCHANGED <<slots, intr, cur, out>>

CanDataDealTask == Poll \/ Handled \/ Wrap

Next == (\E f \in Frames : Receive(f)) \/ CanDataDealTask

Spec == Init /\ [][Next]_vars

(* The task has the lowest priority, but every other task of the unit       *)
(* blocks in a delay, a mailbox or a semaphore on each round, so it runs    *)
(* again and again.  Nothing is assumed of the host.                        *)
FairSpec == Spec /\ WF_vars(CanDataDealTask)

-----------------------------------------------------------------------------
(* The cursors stay inside the buffer: the task's one reaches N only       *)
(* between its two stores, the interrupt's never.                          *)
TypeOK ==
  /\ slots \in [0..N-1 -> Frames \cup {NoFrame}]
  /\ intr \in 0..N-1
  /\ pc \in {"poll", "handle", "wrap"}
  /\ deal \in 0..N /\ (pc # "wrap" => deal < N)
  /\ cur \in Frames \cup {NoFrame}
  /\ out \in Nat

Occupancy == (intr - deal) % N

(* Every frame the interrupt stored and the task has not handled is still  *)
(* between the cursors.  The refinement rests on it for Window < N; a host *)
(* that does not wait breaks it (CanRingProofs!OverrunUnseen).             *)
RingHoldsAll == out = Occupancy

(* The full test of the interrupt, distorted as its word read is, never    *)
(* refuses a frame of a host that stays within its window.                 *)
RoomWithinWindow == out < Window => HasRoom

(* The ring between the cursors, read as a queue.                          *)
RingQueue == [i \in 1..Occupancy |-> slots[(deal + i - 1) % N]]

Abstract == INSTANCE FrameQueue WITH
              Capacity <- N - 1, queue <- RingQueue, busy <- cur

(* Interrupt and task together implement a FIFO queue of frames.           *)
RingIsQueue == Abstract!Spec

(* Every frame in the ring is handled sooner or later.                     *)
EventuallyHandled ==
  \A f \in Frames :
    (\E i \in 1..Occupancy : RingQueue[i] = f) ~> (pc = "handle" /\ cur = f)
=============================================================================
