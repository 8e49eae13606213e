---------------------------- MODULE RelayDriver ----------------------------
(***************************************************************************)
(* The relay driver (HARDWARE/Fiu/FiuProcess.c).  FiuCom_Process takes the *)
(* 17-byte frame and drives 216 channel relays through 14 latches of 16    *)
(* bits.  The latches share one 16-bit data bus: a latch is written by     *)
(* putting its new value on the bus, sleeping 1 ms, raising its clock and  *)
(* sleeping again (Sn74374_fun, Sn74374_Clear0).  The supplies are put on  *)
(* the measuring bus by 17 control lines and a resistor network.           *)
(*                                                                         *)
(* Byte 12 of a frame is one number, the fault type plus 16 if the load    *)
(* bit is set: the code compares the whole byte, the documents split it.   *)
(* Relays, latch contents and lines are sets of numbers.                   *)
(***************************************************************************)
EXTENDS Integers, FiniteSets, Sequences, FiniteSetsExt

CONSTANTS
  Links,  \* the links that hand over frames: "udp", "can" or both
  Frames  \* the frames they hand over

Channels   == 0..71
Latches    == 0..13
LatchWidth == 16
Reset      == 4       \* the command number of a reset frame

ASSUME RelayLinksAssumption == Links \subseteq {"udp", "can"} /\ Links # {}

(* Byte 12 carries host type + 1 as soon as a channel is selected.          *)
(* Type 6 (ECU-ECU) with more than four channels is left out: the numbers   *)
(* are collected in an array of four on the stack.                          *)
ASSUME FramesAssumption ==
  /\ Frames \subseteq [cmd : 0..4 \cup {255}, chans : SUBSET Channels,
                       byte12 : 0..31, res : 0..(256 * 256 - 1)]
  /\ \A f \in Frames : f.chans # {} => f.byte12 % 16 # 0
  /\ \A f \in Frames : f.cmd = 2 /\ f.byte12 = 6 => Cardinality(f.chans) <= 4

NoFrame == [cmd |-> 255, chans |-> {}, byte12 |-> 0, res |-> 0]

VARIABLES
  at,     \* per link: where its FiuCom_Process is
  buf,    \* uFiuCom_buf
  dq,     \* uDqStatus: the relays the software believes closed
  bus,    \* the data bus: RELAYEN lines that are set
  out,    \* the outputs of the latches: the relays that are closed
  lines,  \* the CTRLBUS lines that are set
  ohm,    \* the resistor network
  last,   \* history: the frame dispatched last
  before  \* history: the one before it

vars == <<at, buf, dq, bus, out, lines, ohm, last, before>>

(* A link is idle; has copied the frame ("start"); sleeps before ("up") or  *)
(* after ("down") a clock edge of latch n; or looks for the next selected   *)
(* channel ("scan").  todo are the latch writes left for this channel.      *)
Idle == [ph |-> "idle", cmd |-> 255, n |-> 0, clearing |-> FALSE,
         chan |-> 0, val |-> 0, todo |-> <<>>]

Init ==
  /\ at = [l \in Links |-> Idle]
  /\ buf = NoFrame
  /\ dq = {} /\ bus = {} /\ out = {} /\ lines = {} /\ ohm = 0
  /\ last = [NoFrame EXCEPT !.cmd = Reset]
  /\ before = [NoFrame EXCEPT !.cmd = Reset]

-----------------------------------------------------------------------------
(* Slip: the relay of another coil of the channel.                         *)
Relay_OffByOne(c, k) == 3 * c + k + 1

(* Channel c has three relays: 0 opens ECU to load, 1 connects the ECU to   *)
(* the bus, 2 the load.                                                     *)
Relay(c, k) == 3 * c + k

LatchOf(r)   == r \div LatchWidth
BitOf(r)     == r % LatchWidth
RelaysAt(n)  == (n * LatchWidth)..(n * LatchWidth + LatchWidth - 1)

Close(r)   == [n |-> LatchOf(r), add |-> {r}]
Rewrite(r) == [n |-> LatchOf(r), add |-> {}]

(* The control lines a setting of HV_FunRelay_Set sets and clears; it       *)
(* leaves the others alone.                                                 *)
HvOn(v) ==
  <<{1, 10, 11, 13}, {1, 10, 11}, {1, 10, 12}, {1, 10},
    {1, 5, 6, 10, 11, 13}, {1, 5, 6, 10, 11}, {1, 5, 6, 10, 12}, {1, 5, 6, 10},
    {1, 5}, {1, 5, 6}, {1, 3, 5, 6}>>[v]
HvOff(v) ==
  ((2..7 \cup (IF v <= 8 THEN {} ELSE {10, 11, 13}))
    \cup <<{}, {13}, {11}, {11, 12}, {}, {13}, {11}, {11, 13}, {}, {}, {}>>[v]) \ HvOn(v)

HV_FunRelay_Set(v) == (lines \ HvOff(v)) \cup HvOn(v)

HI_FunRelay_Set(v) == (lines \ {2, 14, 15, 16, 17}) \cup (IF v = 2 THEN {16} ELSE {})

(* A value with its top bit set leaves the network as it is.                *)
Resistance_select(v) == IF v < 128 * 256 THEN v ELSE ohm

-----------------------------------------------------------------------------
(* The CAN task runs only while the UDP thread sleeps or waits for packets. *)
HasCpu(l) == l = "can" => \A k \in Links \ {l} : at[k].ph \in {"idle", "up", "down"}

(* Slip: the old contents of the latch are forgotten.                      *)
PutOnBus_NoOr(op) ==
  /\ dq' = (dq \ RelaysAt(op.n)) \cup op.add
  /\ bus' = {BitOf(r) : r \in dq' \cap RelaysAt(op.n)}

(* The first half of Sn74374_fun: the new value goes to the shadow copy and *)
(* to the bus.                                                              *)
PutOnBus(op) ==
  /\ dq' = dq \cup op.add
  /\ bus' = {BitOf(r) : r \in dq' \cap RelaysAt(op.n)}

(* The first half of Sn74374_Clear0.                                        *)
PutZero(n) ==
  /\ dq' = dq \ RelaysAt(n)
  /\ bus' = {}

(* FiuCom_Process is called with frame f in g_FiuByte17Data and copies it.  *)
Begin(l, f) ==
  /\ at[l].ph = "idle" /\ HasCpu(l)
  /\ buf' = f
  /\ at' = [at EXCEPT ![l].ph = "start"]
  /\ UNCHANGED <<dq, bus, out, lines, ohm, last, before>>

(* Slip: a fault is driven without the reset that comes first.             *)
Dispatch_NoReset(l) ==
  /\ at[l].ph = "start" /\ HasCpu(l)
  /\ at' = [at EXCEPT ![l] = [Idle EXCEPT !.ph = "scan", !.cmd = buf.cmd]]
  /\ last' = buf /\ before' = last
  /\ UNCHANGED <<buf, dq, bus, out, lines, ohm>>

(* The switch on the command number.  All of 0..4 begin with tdreset_process *)
(* and so with latch 0; other numbers, and frames without marks, do nothing. *)
Dispatch(l) ==
  /\ at[l].ph = "start" /\ HasCpu(l)
  /\ IF buf.cmd = 255
     THEN /\ at' = [at EXCEPT ![l] = Idle]
          /\ UNCHANGED <<dq, bus, last, before>>
     ELSE /\ at' = [at EXCEPT ![l] = [Idle EXCEPT !.ph = "up", !.cmd = buf.cmd,
                                                  !.clearing = TRUE]]
          /\ PutZero(0)
          /\ last' = buf /\ before' = last
  /\ UNCHANGED <<buf, out, lines, ohm>>

(* The clock edge: latch n takes over what is on the bus now.               *)
Clock(l) ==
  /\ at[l].ph = "up" /\ HasCpu(l)
  /\ out' = (out \ RelaysAt(at[l].n))
              \cup {r \in RelaysAt(at[l].n) : BitOf(r) \in bus}
  /\ at' = [at EXCEPT ![l].ph = "down"]
  /\ UNCHANGED <<buf, dq, bus, lines, ohm, last, before>>

(* tdreset_process: the next latch ...                                      *)
ClearNext(l) ==
  /\ at[l].ph = "down" /\ at[l].clearing /\ HasCpu(l)
  /\ at[l].n < 13
  /\ PutZero(at[l].n + 1)
  /\ at' = [at EXCEPT ![l].ph = "up", ![l].n = @ + 1]
  /\ UNCHANGED <<buf, out, lines, ohm, last, before>>

(* ... and after the last one the control lines and the resistors.          *)
ClearDone(l) ==
  /\ at[l].ph = "down" /\ at[l].clearing /\ HasCpu(l)
  /\ at[l].n = 13
  /\ lines' = {} /\ ohm' = 0
  /\ at' = [at EXCEPT ![l] = IF at[l].cmd = Reset THEN Idle
                             ELSE [@ EXCEPT !.ph = "scan", !.clearing = FALSE]]
  /\ UNCHANGED <<buf, dq, bus, out, last, before>>

-----------------------------------------------------------------------------
(* The latch writes of fuhegz_set, kstdgz_set, ksldmn_set and ddlgz_set.    *)
Writes(cmd, c, v) ==
  IF cmd \in {1, 2} THEN <<Close(Relay(c, 0)), Close(Relay(c, 1)), Close(Relay(c, 2))>>
  ELSE IF v \in (IF cmd = 0 THEN 2..5 ELSE 2..3)
       THEN <<Close(Relay(c, 0)), Close(Relay(c, 1))>>
  ELSE <<Close(Relay(c, 0))>>

(* ksldmn_two_set: two ECUs connected over the bus.                         *)
WritesEcuEcu(a, b) ==
  <<Close(Relay(a, 0)), Close(Relay(a, 1)), Rewrite(Relay(b, 0)), Close(Relay(b, 2))>>

(* The writes the next round of the loop leads to, with the channel it      *)
(* stops at; none when the loop runs to its end.  Leakage knows the values  *)
(* 0..5 and 7, and 6 if exactly two channels are selected (the code picks   *)
(* that branch once, before its loop; here it is picked in every round,     *)
(* which differs only if another link changes the command 2 in between).    *)
NextWrites(l) ==
  LET left == {c \in buf.chans : c >= at[l].chan}
      ecu  == at[l].cmd = 2 /\ buf.byte12 = 6
  IN  IF left = {} \/ (at[l].cmd = 2 /\ buf.byte12 \notin 0..7)
         \/ (ecu /\ (at[l].chan > 0 \/ Cardinality(left) # 2))
      THEN [chan |-> 72, ops |-> <<>>]
      ELSE IF ecu THEN [chan |-> 72, ops |-> WritesEcuEcu(Min(left), Max(left))]
      ELSE [chan |-> Min(left) + 1, ops |-> Writes(at[l].cmd, Min(left), buf.byte12)]

Scan(l) ==
  /\ at[l].ph = "scan" /\ HasCpu(l)
  /\ LET nw == NextWrites(l)
     IN  IF nw.ops = <<>>
         THEN /\ at' = [at EXCEPT ![l] = Idle]
              /\ buf' = NoFrame        \* the frame copy is wiped
              /\ UNCHANGED <<dq, bus>>
         ELSE /\ PutOnBus(Head(nw.ops))
              /\ at' = [at EXCEPT ![l] = [@ EXCEPT !.ph = "up", !.n = Head(nw.ops).n,
                                          !.chan = nw.chan, !.val = buf.byte12,
                                          !.todo = Tail(nw.ops)]]
              /\ UNCHANGED buf
  /\ UNCHANGED <<out, lines, ohm, last, before>>

(* The next latch of the same channel.                                      *)
WriteNext(l) ==
  /\ at[l].ph = "down" /\ ~at[l].clearing /\ HasCpu(l)
  /\ at[l].todo # <<>>
  /\ PutOnBus(Head(at[l].todo))
  /\ at' = [at EXCEPT ![l] = [@ EXCEPT !.ph = "up", !.n = Head(at[l].todo).n,
                                       !.todo = Tail(at[l].todo)]]
  /\ UNCHANGED <<buf, out, lines, ohm, last, before>>

(* The setting of the control lines at the end of a channel, if any.        *)
HvSetting(cmd, v) ==
  IF cmd = 0 THEN IF v \in 2..5 THEN v - 1 ELSE 0
  ELSE IF v \in 2..5 THEN v + 3
  ELSE IF cmd = 1 THEN IF v = 1 THEN 9 ELSE 0
  ELSE IF v \in {1, 6} THEN 10 ELSE IF v = 7 THEN 11 ELSE 0

(* Slip: the call of Resistance_select is missing.                        *)
Connect_NoResistance(l) ==
  LET v == at[l].val
      h == HvSetting(at[l].cmd, v)
  IN  /\ at[l].ph = "down" /\ ~at[l].clearing /\ HasCpu(l)
      /\ at[l].todo = <<>>
      /\ lines' = IF at[l].cmd # 3 THEN (IF h # 0 THEN HV_FunRelay_Set(h) ELSE lines)
                  ELSE IF v \in {2, 3} THEN HI_FunRelay_Set(v - 1) ELSE lines
      /\ at' = [at EXCEPT ![l].ph = "scan"]
      /\ UNCHANGED <<buf, dq, bus, out, ohm, last, before>>

(* All latches of the channel are written: the supply, and for leakage the  *)
(* resistance, is put on the bus.                                           *)
Connect(l) ==
  LET v == at[l].val
      h == HvSetting(at[l].cmd, v)
  IN  /\ at[l].ph = "down" /\ ~at[l].clearing /\ HasCpu(l)
      /\ at[l].todo = <<>>
      /\ lines' = IF at[l].cmd # 3 THEN (IF h # 0 THEN HV_FunRelay_Set(h) ELSE lines)
                  ELSE IF v \in {2, 3} THEN HI_FunRelay_Set(v - 1) ELSE lines
      /\ ohm' = IF at[l].cmd = 2 /\ h # 0 THEN Resistance_select(buf.res) ELSE ohm
      /\ at' = [at EXCEPT ![l].ph = "scan"]
      /\ UNCHANGED <<buf, dq, bus, out, last, before>>

FiuCom_Process(l) ==
  \/ Dispatch(l) \/ Clock(l) \/ ClearNext(l) \/ ClearDone(l)
  \/ Scan(l) \/ WriteNext(l) \/ Connect(l)

Next == \E l \in Links : (\E f \in Frames : Begin(l, f)) \/ FiuCom_Process(l)

Spec == Init /\ [][Next]_vars

-----------------------------------------------------------------------------
Phases == {"idle", "start", "up", "down", "scan"}

(* Relay numbers stay below the 14 * 16 outputs, line numbers below 18.    *)
TypeOK ==
  /\ \A l \in Links : at[l].ph \in Phases /\ at[l].n \in Latches /\ at[l].chan \in 0..72
  /\ buf \in Frames \cup {NoFrame}
  /\ dq \subseteq 0..215 /\ out \subseteq 0..215
  /\ bus \subseteq 0..15
  /\ lines \subseteq 1..17
  /\ ohm \in 0..(128 * 256 - 1)

(* readme.txt splits byte 12: the load in bits 7-4, the fault type in bits *)
(* 3-0.                                                                    *)
FaultType(f) == f.byte12 % 16
WithLoad(f)  == f.byte12 \div 16 # 0

(* The fault types readme.txt lists for each command, and type 7 of the    *)
(* leakage command, which it does not know (FiuProcess.c: ECU-LOAD current).*)
Listed(f) ==
  \/ f.cmd = Reset
  \/ f.cmd \in 0..3 /\ f.chans = {}
  \/ f.cmd \in 0..3 /\ FaultType(f) \in 1..<<5, 5, 7, 3>>[f.cmd + 1]

(* The relays a frame asks for by its fault type: open circuit opens ECU   *)
(* to load; a short also connects the ECU to the bus; the fast and leakage *)
(* faults put ECU and load on the bus; ECU-ECU joins the ECU of one        *)
(* channel and the load of another.  For a type that is not listed this is *)
(* the most that may be closed.                                            *)
Asked(f) ==
  LET all(ks) == {Relay(c, k) : c \in f.chans, k \in ks}
  IN  IF f.cmd = 0 THEN all(IF FaultType(f) \in 2..5 THEN {0, 1} ELSE {0})
      ELSE IF f.cmd = 3 THEN all(IF FaultType(f) \in 2..3 THEN {0, 1} ELSE {0})
      ELSE IF f.cmd = 1 THEN all(0..2)
      ELSE IF f.cmd # 2 \/ FaultType(f) > 7 THEN {}
      ELSE IF FaultType(f) # 6 THEN all(0..2)
      ELSE IF Cardinality(f.chans) = 2
           THEN {Relay(Min(f.chans), 0), Relay(Min(f.chans), 1), Relay(Max(f.chans), 2)}
      ELSE {}

(* The resistance a frame asks for: that of a leakage fault that is driven *)
(* and within the limit of Resistance_select.                              *)
AskedOhm(f) ==
  IF /\ f.cmd = 2 /\ FaultType(f) \in 1..7 /\ f.res < 128 * 256
     /\ IF FaultType(f) = 6 THEN Cardinality(f.chans) = 2 ELSE f.chans # {}
  THEN f.res ELSE 0

AllIdle == \A l \in Links : at[l].ph = "idle"

(* When FiuCom_Process has returned, no relay is closed that its frame     *)
(* does not ask for, whichever latches they share, and the shadow copy     *)
(* agrees with the hardware, so the next frame starts from the truth.  All *)
(* relays asked for are closed if the fault type is a listed one and comes *)
(* without load.  With load the code's comparison of the whole byte 12     *)
(* leaves some of them open (FiuProcess.c:723), which is not promised here. *)
RelaysAsAsked ==
  AllIdle => /\ dq = out /\ out \subseteq Asked(last)
             /\ Listed(last) /\ ~WithLoad(last) => out = Asked(last)

(* Break before make: while one frame replaces another the relays that are *)
(* closed belong to one of the two, never to both together, and no third   *)
(* relay closes on the way.                                                *)
BreakBeforeMake == out \subseteq Asked(before) \/ out \subseteq Asked(last)

(* After FiuCom_Process no resistance of an earlier frame is left in the   *)
(* circuit, and the one asked for is, if it comes without load.            *)
ResistanceAsAsked ==
  AllIdle => /\ ohm \in {0, AskedOhm(last)}
             /\ Listed(last) /\ ~WithLoad(last) => ohm = AskedOhm(last)

-----------------------------------------------------------------------------
(* readme.txt: bytes 0 to 8 of the frame contents are the channel numbers. *)
(* A relay that no frame of the host selects is never closed.              *)
OnlySelected == out \subseteq UNION {Asked(f) : f \in Frames}
=============================================================================
