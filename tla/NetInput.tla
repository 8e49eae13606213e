------------------------------ MODULE NetInput ------------------------------
(***************************************************************************)
(* The way of an Ethernet frame into the unit: the receive interrupt       *)
(* (lan8720.c) copies it into buffers of the lwIP pool (ethernetif.c) and  *)
(* posts a message (tcpip_input) to the mailbox that the port builds on a  *)
(* uC/OS-II queue (sys_arch.c); tcpip_thread fetches it, running the lwIP  *)
(* timers while it waits, and calls the receive callback of the datagram:  *)
(* udp_echoserver_receive_callback for a command, udp_server_rev for a     *)
(* multicast.  Frames that lwIP answers or discards by itself are freed    *)
(* like commands.  The timers (ARP, IGMP, reassembly) are one timer here,  *)
(* the next one to come due.                                               *)
(*                                                                         *)
(* Interrupts come between any two steps of the thread.  A restart of the  *)
(* unit starts this module anew and is left out.                           *)
(***************************************************************************)
EXTENDS Integers, Sequences, FiniteSets

CONSTANTS
  Pbufs,     \* the buffers of the pool, PBUF_POOL_SIZE of them
  Lengths,   \* how many buffers a frame can take
  MsgCount,  \* MEMP_NUM_TCPIP_MSG_INPKT
  QSize,     \* TCPIP_MBOX_SIZE
  Period,    \* the interval of the timer, in ms
  TickWrap,  \* 2^32: ticks and times are u32
  TicksPerSec

ASSUME PoolAssumption == IsFiniteSet(Pbufs) /\ Lengths \subseteq Nat \ {0}
ASSUME MailboxAssumption == MsgCount \in Nat /\ QSize \in Nat /\ MsgCount < QSize
ASSUME TimeAssumption ==
  /\ Period \in Nat \ {0} /\ TickWrap \in Nat \ {0} /\ TicksPerSec \in Nat \ {0}
  /\ TicksPerSec * (Period + 1) < TickWrap

VARIABLES
  free,    \* buffers in the pool
  kept,    \* buffers that no one will free
  inpkt,   \* free message structures
  mbox,    \* the packets in the mailbox
  thr,     \* tcpip_thread: "run" before a fetch, "wait" in OSQPend, "expired"
           \* there, "ready" with a packet, or "work"ing on it
  pkt,     \* the packet it was handed or works on
  dly,     \* OSTCBDly, the ticks until its wait times out
  now,     \* the tick counter
  before,  \* the tick counter at the start of the fetch
  left     \* the time until the timer is due, as lwIP keeps it

pool == <<free, kept, inpkt>>
time == <<now, before, left, dly>>
vars == <<pool, mbox, thr, pkt, time>>

Packets == [kind : {"command", "multicast"}, bufs : SUBSET Pbufs]
NoPacket == [kind |-> "none", bufs |-> {}]

Init ==
  /\ free = Pbufs /\ kept = {}
  /\ inpkt = MsgCount
  /\ mbox = <<>>
  /\ thr = "run" /\ pkt = NoPacket
  /\ now = 0 /\ before = 0 /\ dly = 0
  /\ left = Period

-----------------------------------------------------------------------------
(* A message goes to the thread if it waits, also if its wait has timed out *)
(* and it has not run since; otherwise into the queue.                      *)
OSQPost(p) ==
  IF thr \in {"wait", "expired"}
  THEN /\ thr' = "ready" /\ pkt' = p /\ dly' = 0
       /\ UNCHANGED mbox
  ELSE /\ mbox' = Append(mbox, p)
       /\ UNCHANGED <<thr, pkt, dly>>

(* Slip: a frame that gets no message structure is posted all the same.    *)
Accepted_NoMessage == Len(mbox) < QSize

(* Whether tcpip_input finds the mailbox valid (sys_mbox_valid refuses a    *)
(* full one) and gets a message structure.                                  *)
Accepted == Len(mbox) < QSize /\ inpkt > 0

(* The chains pbuf_alloc can take from the pool for a frame.                *)
Chains == {bufs \in SUBSET free : Cardinality(bufs) \in Lengths}

(* Slip: the chain is freed although the message was posted.               *)
Receive_FreesPosted(kind, bufs) ==
  /\ Accepted
  /\ OSQPost([kind |-> kind, bufs |-> bufs])
  /\ inpkt' = inpkt - 1
  /\ UNCHANGED <<free, kept, now, before, left>>

(* The interrupt takes over one frame.  A frame that finds no buffers or is *)
(* not accepted is dropped: what was allocated is freed, the descriptors go *)
(* back to the DMA, and nothing else changes.                               *)
Receive(kind, bufs) ==
  /\ Accepted
  /\ free' = free \ bufs
  /\ inpkt' = inpkt - 1
  /\ OSQPost([kind |-> kind, bufs |-> bufs])
  /\ UNCHANGED <<kept, now, before, left>>

(* Slip: the wait ends one tick too late.                                  *)
Tick_Late ==
  /\ now' = (now + 1) % TickWrap
  /\ dly' = IF dly > 0 THEN dly - 1 ELSE 0
  /\ thr' = IF thr = "wait" /\ dly = 0 THEN "expired" ELSE thr
  /\ UNCHANGED <<pool, mbox, pkt, before, left>>

(* The tick interrupt.  A wait whose delay runs out is over, although the   *)
(* thread is taken off the queue's waiting list only when it runs.          *)
Tick ==
  /\ now' = (now + 1) % TickWrap
  /\ dly' = IF dly > 0 THEN dly - 1 ELSE 0
  /\ thr' = IF thr = "wait" /\ dly = 1 THEN "expired" ELSE thr
  /\ UNCHANGED <<pool, mbox, pkt, before, left>>

-----------------------------------------------------------------------------
(* Slip: the thread blocks without looking into the queue.                 *)
Fetch_Blocks ==
  /\ thr = "run" /\ left > 0
  /\ before' = now
  /\ thr' = "wait" /\ dly' = left
  /\ UNCHANGED <<pool, mbox, pkt, now, left>>

(* sys_arch_mbox_fetch with the time to the next timer as its limit (a tick *)
(* is a millisecond): the oldest message at once, or a wait.                *)
Fetch ==
  /\ thr = "run" /\ left > 0
  /\ before' = now
  /\ IF mbox # <<>>
     THEN /\ thr' = "ready" /\ pkt' = Head(mbox) /\ mbox' = Tail(mbox)
          /\ UNCHANGED dly
     ELSE /\ thr' = "wait" /\ dly' = left
          /\ UNCHANGED <<pkt, mbox>>
  /\ UNCHANGED <<pool, now, left>>

(* Slip: a wait within one tick is reported as no time at all.             *)
Waited_Zero == IF now >= before THEN now - before ELSE TickWrap - before + now

(* What the fetch reports as its waiting time.  Within one tick it takes    *)
(* the branch for a counter that wrapped.                                   *)
Waited ==
  LET ticks == IF now > before THEN now - before ELSE TickWrap - 1 - before + now
  IN  ((ticks * TicksPerSec) % TickWrap) \div TicksPerSec + 1

(* The thread runs with its message and takes the time off its timer.       *)
Fetched ==
  /\ thr = "ready"
  /\ left' = IF Waited < left THEN left - Waited ELSE 0
  /\ thr' = "work"
  /\ UNCHANGED <<pool, mbox, pkt, now, before, dly>>

(* Slip: the timer is not started again.                                   *)
FireTimer_NotRestarted ==
  /\ thr = "expired" \/ (thr = "run" /\ left = 0)
  /\ left' = 0
  /\ thr' = "run"
  /\ UNCHANGED <<pool, mbox, pkt, now, before, dly>>

(* The wait timed out, or the timer is due before the next fetch: its       *)
(* handler runs and starts it again.                                        *)
FireTimer ==
  /\ thr = "expired" \/ (thr = "run" /\ left = 0)
  /\ left' = Period
  /\ thr' = "run"
  /\ UNCHANGED <<pool, mbox, pkt, now, before, dly>>

(* tcpip_thread is done with the packet and frees its message structure.    *)
Handled ==
  /\ thr = "work"
  /\ inpkt' = inpkt + 1
  /\ thr' = "run" /\ pkt' = NoPacket
  /\ UNCHANGED <<mbox, time>>

(* The callback of the command port answers, if the datagram has its marks, *)
(* and frees the packet on every path.                                      *)
udp_echoserver_receive_callback ==
  /\ pkt.kind = "command"
  /\ Handled
  /\ free' = free \cup pkt.bufs
  /\ UNCHANGED kept

(* The callback of the multicast port frees it on none.                     *)
udp_server_rev ==
  /\ pkt.kind = "multicast"
  /\ Handled
  /\ kept' = kept \cup pkt.bufs
  /\ UNCHANGED free

tcpip_thread ==
  \/ Fetch \/ Fetched \/ FireTimer
  \/ udp_echoserver_receive_callback \/ udp_server_rev

Next ==
  \/ \E kind \in {"command", "multicast"}, bufs \in Chains : Receive(kind, bufs)
  \/ Tick
  \/ tcpip_thread

Spec == Init /\ [][Next]_vars

(* tcpip_thread has the highest priority of the unit's tasks, and its       *)
(* callbacks return; the tick interrupt never stops.                        *)
FairSpec == Spec /\ WF_vars(tcpip_thread) /\ WF_vars(Tick)

-----------------------------------------------------------------------------
(* The variables, with a delay only in a wait and a packet only in hand.   *)
TypeOK ==
  /\ free \subseteq Pbufs /\ kept \subseteq Pbufs
  /\ inpkt \in 0..MsgCount
  /\ mbox \in Seq(Packets)
  /\ thr \in {"run", "wait", "expired", "ready", "work"}
  /\ pkt \in IF thr \in {"ready", "work"} THEN Packets ELSE {NoPacket}
  /\ now \in 0..TickWrap-1 /\ before \in 0..TickWrap-1
  /\ left \in 0..Period
  /\ dly \in IF thr = "wait" THEN 1..Period ELSE {0}

InHand == IF thr \in {"ready", "work"} THEN 1 ELSE 0

(* The mailbox never fills up: it has room for more messages than there    *)
(* are structures (sys_mbox_trypost never finds the queue full).           *)
MailboxHasRoom == inpkt + Len(mbox) + InHand = MsgCount /\ Len(mbox) < QSize

(* Every buffer is in one place: in the pool, in a packet of the mailbox,  *)
(* in the thread's packet, or kept by the multicast callback.  None is     *)
(* freed twice, and none is in the pool while someone still reads it.      *)
OneOwner ==
  /\ \A i \in 1..Len(mbox) :
       /\ mbox[i].bufs \cap (free \cup kept \cup pkt.bufs) = {}
       /\ \A j \in 1..Len(mbox) : i # j => mbox[i].bufs \cap mbox[j].bufs = {}
  /\ pkt.bufs \cap (free \cup kept) = {}
  /\ free \cap kept = {}
  /\ Pbufs = free \cup kept \cup pkt.bufs \cup UNION {mbox[i].bufs : i \in 1..Len(mbox)}

(* The packets accepted and not yet handled, and the one being handled.    *)
InFlight == IF InHand = 1 THEN <<pkt>> \o mbox ELSE mbox
InWork == IF thr = "work" THEN pkt ELSE NoPacket

Abstract == INSTANCE FrameQueue WITH
              Frames <- Packets, Capacity <- MsgCount, NoFrame <- NoPacket,
              queue <- InFlight, busy <- InWork

(* Interrupt, mailbox and thread implement a FIFO queue: a packet handed   *)
(* over past the queue, or while the wait for it times out, is neither     *)
(* lost nor handled twice, and overtakes none.                             *)
InputIsQueue == Abstract!Spec

(* Every packet in the mailbox is taken out sooner or later.               *)
PacketsHandled ==
  \A b \in Pbufs :
    (\E i \in 1..Len(mbox) : b \in mbox[i].bufs)
      ~> (thr = "work" /\ b \in pkt.bufs)

(* The lwIP timers keep coming due however busy the network is.            *)
TimersKeepRunning == []<><<FireTimer>>_vars

-----------------------------------------------------------------------------
(* udp.h: the callback is responsible for freeing the pbuf.  With no       *)
(* packet on its way, all buffers are back in the pool.                    *)
PoolRefilled == mbox = <<>> /\ InHand = 0 => free = Pbufs
=============================================================================
