--------------------------- MODULE NetInputProofs ---------------------------
(***************************************************************************)
(* Proofs about NetInput, for every pool, every number of messages smaller *)
(* than the mailbox, every frame length and every timer interval.          *)
(***************************************************************************)
EXTENDS NetInput, TLAPS

(* The thread waits only on an empty mailbox: without this a packet handed  *)
(* to a waiting thread would overtake the ones in the queue.                *)
WaitInv == thr \in {"wait", "expired"} => mbox = <<>>

LEMMA WaitedNat ==
  ASSUME now \in 0..TickWrap-1, before \in 0..TickWrap-1
  PROVE  Waited \in Nat
<1> DEFINE t == IF now > before THEN now - before ELSE TickWrap - 1 - before + now
           m == (t * TicksPerSec) % TickWrap
<1>1. TickWrap \in Nat \ {0} /\ TicksPerSec \in Nat \ {0}
  BY TimeAssumption
<1>2. t \in Int
  BY <1>1
<1>3. t * TicksPerSec \in Int
  BY <1>1, <1>2
<1>4. m \in Nat
  BY <1>1, <1>3
<1>5. Waited = m \div TicksPerSec + 1
  BY DEF Waited
<1> HIDE DEF m
<1>6. m \div TicksPerSec \in Nat
  BY <1>1, <1>4
<1> QED BY <1>5, <1>6

LEMMA TypeInit == Init => TypeOK
  BY MailboxAssumption, TimeAssumption DEF Init, TypeOK

LEMMA TypeReceive ==
  ASSUME TypeOK, NEW kind \in {"command", "multicast"}, NEW bufs \in Chains,
         Receive(kind, bufs)
  PROVE  TypeOK'
<1> DEFINE p == [kind |-> kind, bufs |-> bufs]
<1>1. p \in Packets
  BY DEF Packets, Chains, TypeOK
<1>2. inpkt' \in 0..MsgCount
  BY MailboxAssumption DEF TypeOK, Receive, Accepted
<1>3. CASE thr \in {"wait", "expired"}
  BY <1>1, <1>2, <1>3 DEF TypeOK, Receive, OSQPost
<1>4. CASE thr \notin {"wait", "expired"}
  <2>1. mbox' \in Seq(Packets)
    BY <1>1, <1>4 DEF TypeOK, Receive, OSQPost
  <2>2. UNCHANGED <<thr, pkt, dly, kept, now, before, left>> /\ free' \subseteq Pbufs
    BY <1>4 DEF TypeOK, Receive, OSQPost
  <2> QED BY <1>2, <2>1, <2>2 DEF TypeOK
<1> QED BY <1>3, <1>4

LEMMA TypeStep == TypeOK /\ MailboxHasRoom /\ [Next]_vars => TypeOK'
<1> SUFFICES ASSUME TypeOK, MailboxHasRoom, [Next]_vars PROVE TypeOK'
  OBVIOUS
<1>0. TickWrap \in Nat \ {0} /\ Period \in Nat \ {0} /\ MsgCount \in Nat
  BY TimeAssumption, MailboxAssumption
<1>1. ASSUME NEW kind \in {"command", "multicast"}, NEW bufs \in Chains,
             Receive(kind, bufs)
      PROVE  TypeOK'
  BY <1>1, TypeReceive
<1>2. CASE Tick
  <2>1. now' \in 0..TickWrap-1
    BY <1>0, <1>2 DEF Tick, TypeOK
  <2>2. /\ thr' \in {"run", "wait", "expired", "ready", "work"}
        /\ pkt' \in IF thr' \in {"ready", "work"} THEN Packets ELSE {NoPacket}
    BY <1>2 DEF Tick, TypeOK
  <2>3. dly' \in IF thr' = "wait" THEN 1..Period ELSE {0}
    BY <1>0, <1>2 DEF Tick, TypeOK
  <2> QED BY <1>2, <2>1, <2>2, <2>3 DEF Tick, TypeOK, pool
<1>3. CASE Fetch
  <2>1. CASE mbox = <<>>
    BY <1>0, <1>3, <2>1 DEF Fetch, TypeOK, pool
  <2>2. CASE mbox # <<>>
    <3>1. Head(mbox) \in Packets /\ Tail(mbox) \in Seq(Packets)
      BY <2>2 DEF TypeOK
    <3> QED BY <1>3, <2>2, <3>1 DEF Fetch, TypeOK, pool
  <2> QED BY <2>1, <2>2
<1>4. CASE Fetched
  <2>1. left' \in 0..Period
    BY <1>0, <1>4, WaitedNat DEF Fetched, TypeOK
  <2> QED BY <1>4, <2>1 DEF Fetched, TypeOK, pool
<1>5. CASE FireTimer
  BY <1>0, <1>5 DEF FireTimer, TypeOK, pool
<1>6. ASSUME Handled, free' \in {free, free \cup pkt.bufs}, kept' \in {kept, kept \cup pkt.bufs}
      PROVE  TypeOK'
  <2>1. pkt \in Packets /\ Len(mbox) \in Nat /\ InHand = 1
    BY <1>6 DEF Handled, TypeOK, InHand
  <2>2. inpkt' \in 0..MsgCount
    BY <1>0, <1>6, <2>1 DEF Handled, TypeOK, MailboxHasRoom
  <2>3. free' \subseteq Pbufs /\ kept' \subseteq Pbufs
    BY <1>6, <2>1 DEF TypeOK, Packets
  <2> QED BY <1>6, <2>2, <2>3 DEF Handled, TypeOK, time
<1>7. CASE udp_echoserver_receive_callback
  BY <1>6, <1>7 DEF udp_echoserver_receive_callback
<1>8. CASE udp_server_rev
  BY <1>6, <1>8 DEF udp_server_rev
<1>9. CASE UNCHANGED vars
  BY <1>9 DEF vars, pool, time, TypeOK
<1> QED BY <1>1, <1>2, <1>3, <1>4, <1>5, <1>7, <1>8, <1>9 DEF Next, tcpip_thread

-----------------------------------------------------------------------------
LEMMA RoomInit == Init => MailboxHasRoom /\ WaitInv
  BY MailboxAssumption DEF Init, MailboxHasRoom, InHand, WaitInv

LEMMA RoomStep ==
  TypeOK /\ MailboxHasRoom /\ WaitInv /\ [Next]_vars => MailboxHasRoom' /\ WaitInv'
<1> SUFFICES ASSUME TypeOK, MailboxHasRoom, WaitInv, [Next]_vars
             PROVE  MailboxHasRoom' /\ WaitInv'
  OBVIOUS
<1> USE DEF InHand, WaitInv
<1>0. /\ MsgCount \in Nat /\ QSize \in Nat /\ MsgCount < QSize
      /\ Len(mbox) \in Nat /\ inpkt \in 0..MsgCount /\ mbox \in Seq(Packets)
      /\ inpkt + Len(mbox) + InHand = MsgCount
  BY MailboxAssumption DEF TypeOK, MailboxHasRoom
<1>1. SUFFICES WaitInv' /\ Len(mbox') \in Nat /\ inpkt' \in Nat
               /\ inpkt' + Len(mbox') + InHand' = MsgCount
  BY <1>0, <1>1 DEF MailboxHasRoom
<1>2. ASSUME NEW kind \in {"command", "multicast"}, NEW bufs \in Chains,
             Receive(kind, bufs)
      PROVE  WaitInv' /\ Len(mbox') \in Nat /\ inpkt' \in Nat
             /\ inpkt' + Len(mbox') + InHand' = MsgCount
  <2> DEFINE p == [kind |-> kind, bufs |-> bufs]
  <2>1. inpkt' = inpkt - 1 /\ inpkt > 0
    BY <1>2 DEF Receive, Accepted
  <2>2. CASE thr \in {"wait", "expired"}
    BY <1>0, <1>2, <2>1, <2>2 DEF Receive, OSQPost
  <2>3. CASE thr \notin {"wait", "expired"}
    <3>1. mbox' = Append(mbox, p) /\ thr' = thr
      BY <1>2, <2>3 DEF Receive, OSQPost
    <3>2. p \in Packets
      BY DEF Packets, Chains, TypeOK
    <3>3. Len(mbox') = Len(mbox) + 1
      BY <1>0, <3>1, <3>2
    <3> QED BY <1>0, <2>1, <2>3, <3>1, <3>3
  <2> QED BY <2>2, <2>3
<1>3. CASE Tick
  BY <1>0, <1>3 DEF Tick, pool
<1>4. CASE Fetch
  <2>1. CASE mbox = <<>>
    BY <1>0, <1>4, <2>1 DEF Fetch, pool
  <2>2. CASE mbox # <<>>
    BY <1>0, <1>4, <2>2 DEF Fetch, pool
  <2> QED BY <2>1, <2>2
<1>5. CASE Fetched
  BY <1>0, <1>5 DEF Fetched, pool
<1>6. CASE FireTimer
  BY <1>0, <1>6 DEF FireTimer, pool
<1>7. CASE Handled
  BY <1>0, <1>7 DEF Handled, time
<1>8. CASE UNCHANGED vars
  BY <1>0, <1>8 DEF vars, pool, time
<1> QED BY <1>2, <1>3, <1>4, <1>5, <1>6, <1>7, <1>8
        DEF Next, tcpip_thread, udp_echoserver_receive_callback, udp_server_rev

LEMMA SpecRoom == Spec => [](TypeOK /\ MailboxHasRoom /\ WaitInv)
  BY TypeInit, RoomInit, TypeStep, RoomStep, PTL DEF Spec

(* Every variable keeps its type; a wait always has a limit of at least a   *)
(* tick, and a packet is in hand exactly when the thread has one.           *)
THEOREM InputTypeOK == Spec => []TypeOK
  BY SpecRoom, PTL

(* The mailbox never fills up, for every pool and mailbox with fewer        *)
(* message structures than places.                                          *)
THEOREM MailboxNeverFull == Spec => []MailboxHasRoom
  BY SpecRoom, PTL

-----------------------------------------------------------------------------
LEMMA OwnerInit == Init => OneOwner
  BY DEF Init, OneOwner, NoPacket

LEMMA OwnerStep == TypeOK /\ WaitInv /\ OneOwner /\ [Next]_vars => OneOwner'
<1> SUFFICES ASSUME TypeOK, WaitInv, OneOwner, [Next]_vars PROVE OneOwner'
  OBVIOUS
<1>0. mbox \in Seq(Packets) /\ Len(mbox) \in Nat
  BY DEF TypeOK
<1>1. ASSUME NEW kind \in {"command", "multicast"}, NEW bufs \in Chains,
             Receive(kind, bufs)
      PROVE  OneOwner'
  <2> DEFINE p == [kind |-> kind, bufs |-> bufs]
  <2>1. bufs \subseteq free /\ free' = free \ bufs /\ kept' = kept /\ p \in Packets
    BY <1>1 DEF Receive, Chains, Packets, TypeOK
  <2>2. CASE thr \in {"wait", "expired"}
    <3>1. mbox = <<>> /\ mbox' = <<>> /\ pkt = NoPacket /\ pkt' = p
      BY <1>1, <2>2 DEF Receive, OSQPost, WaitInv, TypeOK
    <3> QED BY <2>1, <3>1 DEF OneOwner, NoPacket
  <2>3. CASE thr \notin {"wait", "expired"}
    <3>1. mbox' = Append(mbox, p) /\ pkt' = pkt
      BY <1>1, <2>3 DEF Receive, OSQPost
    <3>2. /\ Len(mbox') = Len(mbox) + 1 /\ mbox'[Len(mbox) + 1].bufs = bufs
          /\ \A i \in 1..Len(mbox) : mbox'[i] = mbox[i]
      BY <1>0, <2>1, <3>1
    <3>3. \A i \in 1..Len(mbox') : i \in 1..Len(mbox) \/ i = Len(mbox) + 1
      BY <1>0, <3>2
    <3>4. \A i \in 1..Len(mbox) : mbox[i].bufs \cap bufs = {}
      BY <2>1 DEF OneOwner
    <3>5. \A i \in 1..Len(mbox') :
            /\ mbox'[i].bufs \cap (free' \cup kept' \cup pkt'.bufs) = {}
            /\ \A j \in 1..Len(mbox') : i # j => mbox'[i].bufs \cap mbox'[j].bufs = {}
      BY <2>1, <3>1, <3>2, <3>3, <3>4 DEF OneOwner
    <3>6. UNION {mbox'[i].bufs : i \in 1..Len(mbox')}
            = bufs \cup UNION {mbox[i].bufs : i \in 1..Len(mbox)}
      BY <1>0, <3>2, <3>3
    <3>7. pkt'.bufs \cap (free' \cup kept') = {} /\ free' \cap kept' = {}
      BY <2>1, <3>1 DEF OneOwner
    <3>8. Pbufs = free' \cup kept' \cup pkt'.bufs
                    \cup UNION {mbox'[i].bufs : i \in 1..Len(mbox')}
      BY <2>1, <3>1, <3>6 DEF OneOwner
    <3> QED BY <3>5, <3>7, <3>8 DEF OneOwner
  <2> QED BY <2>2, <2>3
<1>2. ASSUME Handled,
             \/ free' = free \cup pkt.bufs /\ kept' = kept
             \/ kept' = kept \cup pkt.bufs /\ free' = free
      PROVE  OneOwner'
  <2>1. mbox' = mbox /\ pkt'.bufs = {}
    BY <1>2 DEF Handled, NoPacket
  <2> QED BY <1>2, <2>1 DEF OneOwner
<1>3. CASE Fetch
  <2>1. free' = free /\ kept' = kept
    BY <1>3 DEF Fetch, pool
  <2>2. CASE mbox = <<>>
    BY <1>3, <2>1, <2>2 DEF Fetch, OneOwner
  <2>3. CASE mbox # <<>>
    <3>1. mbox' = Tail(mbox) /\ pkt' = Head(mbox) /\ pkt = NoPacket
      BY <1>3, <2>3 DEF Fetch, TypeOK
    <3>2. /\ Len(mbox) >= 1 /\ Len(mbox') = Len(mbox) - 1 /\ pkt' = mbox[1]
          /\ \A i \in 1..Len(mbox') : i + 1 \in 1..Len(mbox) /\ mbox'[i] = mbox[i + 1]
      BY <1>0, <2>3, <3>1
    <3>3. \A i \in 1..Len(mbox) : i = 1 \/ (i - 1 \in 1..Len(mbox') /\ mbox[i] = mbox'[i - 1])
      BY <1>0, <3>2
    <3>4. UNION {mbox[i].bufs : i \in 1..Len(mbox)}
            = pkt'.bufs \cup UNION {mbox'[i].bufs : i \in 1..Len(mbox')}
      <4>1. 1 \in 1..Len(mbox) /\ pkt'.bufs = mbox[1].bufs
        BY <1>0, <3>2
      <4>2. ASSUME NEW i \in 1..Len(mbox), NEW b \in mbox[i].bufs
            PROVE  b \in pkt'.bufs \cup UNION {mbox'[j].bufs : j \in 1..Len(mbox')}
        <5>1. CASE i = 1
          BY <4>1, <4>2, <5>1
        <5>2. CASE i - 1 \in 1..Len(mbox') /\ mbox[i] = mbox'[i - 1]
          BY <4>2, <5>2
        <5> QED BY <3>3, <5>1, <5>2
      <4>3. ASSUME NEW j \in 1..Len(mbox'), NEW b \in mbox'[j].bufs
            PROVE  b \in UNION {mbox[i].bufs : i \in 1..Len(mbox)}
        BY <3>2, <4>3
      <4> QED BY <4>1, <4>2, <4>3
    <3>5. \A i \in 1..Len(mbox') :
            /\ mbox'[i].bufs \cap (free' \cup kept' \cup pkt'.bufs) = {}
            /\ \A j \in 1..Len(mbox') : i # j => mbox'[i].bufs \cap mbox'[j].bufs = {}
      <4> SUFFICES ASSUME NEW i \in 1..Len(mbox')
                   PROVE  /\ mbox'[i].bufs \cap (free' \cup kept' \cup pkt'.bufs) = {}
                          /\ \A j \in 1..Len(mbox') :
                                i # j => mbox'[i].bufs \cap mbox'[j].bufs = {}
        OBVIOUS
      <4>1. i + 1 # 1 /\ 1 \in 1..Len(mbox) /\ \A j \in 1..Len(mbox') : i # j => i + 1 # j + 1
        BY <1>0, <3>2
      <4> QED BY <2>1, <3>2, <4>1 DEF OneOwner
    <3>6. pkt'.bufs \cap (free' \cup kept') = {} /\ free' \cap kept' = {}
      <4>1. 1 \in 1..Len(mbox)
        BY <1>0, <3>2
      <4> QED BY <2>1, <3>2, <4>1 DEF OneOwner
    <3>7. Pbufs = free' \cup kept' \cup pkt'.bufs
                    \cup UNION {mbox'[i].bufs : i \in 1..Len(mbox')}
      BY <2>1, <3>1, <3>4 DEF OneOwner, NoPacket
    <3> QED BY <3>5, <3>6, <3>7 DEF OneOwner
  <2> QED BY <2>2, <2>3
<1>4. CASE udp_echoserver_receive_callback
  BY <1>2, <1>4 DEF udp_echoserver_receive_callback
<1>5. CASE udp_server_rev
  BY <1>2, <1>5 DEF udp_server_rev
<1>6. CASE UNCHANGED <<pool, mbox, pkt>>
  BY <1>6 DEF pool, OneOwner
<1> QED BY <1>1, <1>3, <1>4, <1>5, <1>6
        DEF Next, tcpip_thread, Tick, Fetched, FireTimer, vars

(* No buffer is freed twice or freed while in use, and none gets lost but   *)
(* in the multicast callback, for every pool and every traffic.             *)
THEOREM BuffersAccounted == Spec => []OneOwner
  BY SpecRoom, OwnerInit, OwnerStep, PTL DEF Spec

-----------------------------------------------------------------------------
LEMMA QueueInit == Init => Abstract!Init
  BY DEF Init, Abstract!Init, InFlight, InWork, InHand

LEMMA QueueStep ==
  TypeOK /\ MailboxHasRoom /\ WaitInv /\ [Next]_vars
    => [Abstract!Next]_<<InFlight, InWork>>
<1> SUFFICES ASSUME TypeOK, MailboxHasRoom, WaitInv, [Next]_vars
             PROVE  Abstract!Next \/ UNCHANGED <<InFlight, InWork>>
  OBVIOUS
<1> USE DEF InHand
<1>0. /\ mbox \in Seq(Packets) /\ Len(mbox) \in Nat /\ MsgCount \in Nat
      /\ \A p \in Packets : p # NoPacket
  BY MailboxAssumption DEF TypeOK, Packets, NoPacket
<1>1. ASSUME NEW kind \in {"command", "multicast"}, NEW bufs \in Chains,
             Receive(kind, bufs)
      PROVE  Abstract!Next
  <2> DEFINE p == [kind |-> kind, bufs |-> bufs]
  <2>1. p \in Packets
    BY DEF Packets, Chains, TypeOK
  <2>2. Len(InFlight) = Len(mbox) + InHand /\ InFlight \in Seq(Packets)
    BY <1>0 DEF InFlight, TypeOK
  <2>3. Len(InFlight) < MsgCount
    BY <1>0, <1>1, <2>2 DEF Receive, Accepted, MailboxHasRoom, TypeOK
  <2>4. InFlight' = Append(InFlight, p)
    <3>1. CASE thr \in {"wait", "expired"}
      <4>1. mbox = <<>> /\ mbox' = <<>> /\ InHand = 0 /\ InHand' = 1 /\ pkt' = p
        BY <1>1, <3>1 DEF Receive, OSQPost, WaitInv
      <4>2. InFlight = <<>> /\ InFlight' = <<p>> \o <<>>
        BY <4>1 DEF InFlight
      <4> QED BY <2>1, <4>2
    <3>2. CASE thr \notin {"wait", "expired"}
      <4>1. mbox' = Append(mbox, p) /\ thr' = thr /\ pkt' = pkt
        BY <1>1, <3>2 DEF Receive, OSQPost
      <4>2. CASE thr \in {"ready", "work"}
        <5>1. pkt \in Packets /\ InFlight = <<pkt>> \o mbox
              /\ InFlight' = <<pkt>> \o Append(mbox, p)
          BY <4>1, <4>2 DEF TypeOK, InFlight
        <5> QED BY <1>0, <2>1, <5>1
      <4>3. CASE thr \notin {"ready", "work"}
        BY <4>1, <4>3 DEF InFlight
      <4> QED BY <4>2, <4>3
    <3> QED BY <3>1, <3>2
  <2>5. InWork' = InWork
    BY <1>1 DEF Receive, OSQPost, InWork
  <2> QED BY <2>1, <2>3, <2>4, <2>5 DEF Abstract!Next, Abstract!Arrive
<1>2. CASE Fetch
  <2>1. CASE mbox = <<>>
    BY <1>2, <2>1 DEF Fetch, InFlight, InWork
  <2>2. CASE mbox # <<>>
    <3>1. /\ InFlight = mbox /\ InFlight' = <<Head(mbox)>> \o Tail(mbox)
          /\ InWork' = InWork
      BY <1>2, <2>2, SMTT(20) DEF Fetch, InFlight, InWork
    <3>2. <<Head(mbox)>> \o Tail(mbox) = mbox
      BY <1>0, <2>2
    <3> QED BY <3>1, <3>2
  <2> QED BY <2>1, <2>2
<1>3. CASE Fetched
  <2>1. pkt \in Packets /\ InFlight = <<pkt>> \o mbox /\ InFlight' = InFlight
    BY <1>3 DEF Fetched, InFlight, TypeOK
  <2>2. InFlight # <<>> /\ Head(InFlight) = pkt
    BY <1>0, <2>1
  <2>3. InWork = NoPacket /\ InWork' = pkt
    BY <1>3 DEF Fetched, InWork
  <2> QED BY <2>1, <2>2, <2>3 DEF Abstract!Next, Abstract!Begin
<1>4. CASE Handled
  <2>1. pkt \in Packets /\ InFlight = <<pkt>> \o mbox /\ InFlight' = mbox
    BY <1>4 DEF Handled, InFlight, TypeOK
  <2>2. Tail(InFlight) = mbox
    BY <1>0, <2>1
  <2>3. InWork = pkt /\ InWork' = NoPacket
    BY <1>4 DEF Handled, InWork
  <2> QED BY <1>0, <2>1, <2>2, <2>3 DEF Abstract!Next, Abstract!Finish
<1>5. CASE Tick \/ FireTimer \/ UNCHANGED vars
  BY <1>5 DEF Tick, FireTimer, vars, InFlight, InWork
<1> QED BY <1>1, <1>2, <1>3, <1>4, <1>5
        DEF Next, tcpip_thread, udp_echoserver_receive_callback, udp_server_rev

(* The network input refines the FIFO queue: nothing accepted is lost,      *)
(* repeated or overtaken, a packet handed over while the thread's wait      *)
(* times out included.                                                      *)
THEOREM InputImplementsQueue == Spec => InputIsQueue
<1>1. Spec => Abstract!Init /\ [][Abstract!Next]_<<InFlight, InWork>>
  BY SpecRoom, QueueInit, QueueStep, PTL DEF Spec
<1> QED BY <1>1 DEF InputIsQueue, Abstract!Spec
=============================================================================
