----------------------------- MODULE FiuConfig -----------------------------
(***************************************************************************)
(* The configuration half of the FIU command interpreter                   *)
(* (HARDWARE/Fiu/FiuHostDataAnalysis.c).  The host describes a fault with  *)
(* a session of configuration commands (0x00..0x04); each is checked       *)
(* against the session so far and staged in the registers P0, P1 and P4_0. *)
(* Command 0x05 closes the session and packs the registers into the        *)
(* 17-byte frame that 0x10 later hands to the relay driver.                *)
(*                                                                         *)
(* A handler runs to completion here, except that command 0x05 over CAN    *)
(* tests g_Error and builds the frame in two steps: the CAN task has the   *)
(* lowest priority, and led_task (which sets g_Error) and a UDP command    *)
(* may come between the two.  Elsewhere an error raised inside a handler   *)
(* has the effect of one raised before or after it.  What 0x10 and 0x11 do *)
(* to the timers, the PWM and the relays is the subject of FaultTimer;     *)
(* 0x10 changes none of the variables below.                               *)
(*                                                                         *)
(* The 64-bit registers are the sets of their bits that are 1.             *)
(***************************************************************************)
EXTENDS Integers, FiniteSets

CONSTANTS
  FaultMsgs,  \* the commands 0x00..0x03 the host may send
  LooseMsgs,  \* the commands 0x04 (loose contact, leak resistance) it may send
  TimeBytes   \* the byte pairs <<byte 2, byte 3>> of a command 0x05

CHANNUMBER == 72
MaxTime    == 65500           \* the longest activation time 0x05 accepts
Byte       == 0..255
Word16     == 0..(256 * 256 - 1)

(***************************************************************************)
(* A pin of command 3 between 18 and 63 is left out: nCurPinNum - 64 wraps *)
(* to 210..255 and McuFault64BitValuePinSet then writes over its caller's  *)
(* saved registers, after which no C-level state describes the program.    *)
(***************************************************************************)
ASSUME FaultMsgsAssumption ==
  /\ FaultMsgs \subseteq [cmd : 0..3, pin : Byte, type : Byte, load : Byte]
  /\ \A m \in FaultMsgs : m.cmd = 3 => m.pin \notin 18..63

ASSUME LooseMsgsAssumption ==
  LooseMsgs \subseteq [sw : Byte, freq : Byte, duty : Byte, rsw : Byte, res : Word16]

ASSUME TimeBytesAssumption == TimeBytes \subseteq Byte \X Byte

VARIABLES
  ses,      \* the FIU_Cmd* flags: what the open session already holds
  px,       \* what P_init clears: P0, P1, P4_0, g_Ptime, g_Pfreq, g_Pduty
  bLoose,   \* g_bLoose
  frame,    \* g_FiuByte17Data
  gError,   \* g_Error
  can,      \* the CAN task: "checked" between the test and the build of 0x05
  staged,   \* history: fault commands accepted since the registers were cleared
  session,  \* history: fault commands accepted since the session was opened
  late      \* history: fault frames built since g_Error was set

vars == <<ses, px, bLoose, frame, gError, can, staged, session, late>>

-----------------------------------------------------------------------------
(* Result codes: 0 is g_HostConfigPass, Err(i) is g_HostConfigErr[i].       *)
Pass   == 0
Err(i) == i + 129

(* What FIU_Cmd0_CurPinFlag_init and P_init leave behind.                   *)
NoSession ==
  [curCmd |-> 255, errType |-> -1, pinFlag |-> {}, cmd1 |-> 0, cmd2 |-> 0,
   type0Cnt |-> 0, type0Flag |-> 0, cmd3 |-> 0, type3Cnt |-> 0, type3Flag |-> 0]

Cleared == [P0 |-> {}, P1 |-> {}, P4_0 |-> 0, time |-> 0, freq |-> 0, duty |-> 0]

(* g_FiuByte17Data before any frame was built: no start and end marks.      *)
BlankFrame == [marked |-> FALSE, cmd |-> 0, chans |-> {}, code |-> 0, load |-> 0, res |-> 0]

Init ==
  /\ ses = NoSession
  /\ px = Cleared
  /\ bLoose = 0
  /\ frame = BlankFrame
  /\ gError = 0
  /\ can = "idle"
  /\ staged = {}
  /\ session = {}
  /\ late = 0

-----------------------------------------------------------------------------
(* HostConfigCheck, one operator per command.  Each returns the result code *)
(* and the session flags it leaves.  The g_WorkMode byte is always 0, so    *)
(* the test for byte 1 > 16 (Err 23) cannot fire.                           *)

Refuse(i)  == [res |-> Err(i), ses |-> NoSession]
Accept(s)  == [res |-> Pass, ses |-> s]

(* Compound fault.  A command whose type differs from the session's is not  *)
(* refused: the test of FIU_Cmd0_CurErrorType fails and control reaches the *)
(* last line of the function, which returns g_HostConfigPass.               *)
CheckCmd0(m, s) ==
  IF m.pin > CHANNUMBER THEN Refuse(IF m.type = 0 THEN 29 ELSE 27)
  ELSE IF m.type > 4 THEN Refuse(25)
  ELSE IF m.type # 0 /\ s.errType \notin {-1, m.type} THEN Accept(s)
  ELSE IF m.pin \in s.pinFlag THEN Refuse(IF m.type = 0 THEN 30 ELSE 28)
  ELSE Accept([s EXCEPT !.pinFlag = @ \cup {m.pin},
                        !.errType = IF m.type = 0 THEN @ ELSE m.type])

(* Fast channel fault: one per session.                                     *)
CheckCmd1(m, s) ==
  IF m.type = 0 /\ m.load # 0 THEN Refuse(26)
  ELSE IF m.type # 0 /\ m.load > 1 THEN Refuse(50)
  ELSE IF m.pin > CHANNUMBER THEN Refuse(31)
  ELSE IF s.cmd1 # 0 THEN Refuse(32)
  ELSE Accept([s EXCEPT !.cmd1 = 1])

(* Slip: the count of ECU-LOAD channels is compared with 3.                *)
CheckCmd2_OffByOne(m, s) ==
  IF m.type # 0 \/ m.load > 1 \/ m.pin > CHANNUMBER \/ s.type0Flag # 0 THEN Refuse(36)
  ELSE Accept([s EXCEPT !.cmd2 = 1, !.type0Cnt = @ + 1,
                        !.type0Flag = IF s.type0Cnt + 1 >= 3 THEN 1 ELSE @])

(* Leakage: two commands of type 0 (ECU-LOAD), or one of another type.      *)
CheckCmd2(m, s) ==
  IF m.type = 0 THEN
    IF m.load > 1 THEN Refuse(51)
    ELSE IF m.pin > CHANNUMBER THEN Refuse(35)
    ELSE IF s.type0Flag # 0 THEN Refuse(36)
    ELSE Accept([s EXCEPT !.cmd2 = 1, !.type0Cnt = @ + 1,
                          !.type0Flag = IF s.type0Cnt + 1 >= 2 THEN 1 ELSE @])
  ELSE
    IF m.type = 6 /\ m.load # 0 THEN Refuse(53)
    ELSE IF m.type # 6 /\ m.load > 1 THEN Refuse(54)
    ELSE IF m.pin > CHANNUMBER THEN Refuse(33)
    ELSE IF s.cmd2 # 0 THEN Refuse(34)
    ELSE Accept([s EXCEPT !.cmd2 = 1])

(* High current: one per session; type 3 is counted but staged by nobody.   *)
CheckCmd3(m, s) ==
  IF m.type = 3 THEN
    IF m.load > 1 THEN Refuse(55)
    ELSE IF s.type3Flag # 0 THEN Refuse(39)
    ELSE Accept([s EXCEPT !.cmd3 = 1, !.type3Cnt = @ + 1,
                          !.type3Flag = IF s.type3Cnt + 1 >= 2 THEN 1 ELSE @])
  ELSE
    IF m.type = 0 /\ m.load # 0 THEN Refuse(56)
    ELSE IF m.type # 0 /\ m.load > 1 THEN Refuse(57)
    ELSE IF m.pin > CHANNUMBER THEN Refuse(37)
    ELSE IF s.cmd3 # 0 THEN Refuse(38)
    ELSE Accept([s EXCEPT !.cmd3 = 1])

(* Slip: a command of another number is let into the open session.         *)
CheckFault_AnyCommand(m) ==
  LET s == [ses EXCEPT !.curCmd = m.cmd]
  IN  IF m.cmd = 0 THEN CheckCmd0(m, s)
      ELSE IF m.cmd = 1 THEN CheckCmd1(m, s)
      ELSE IF m.cmd = 2 THEN CheckCmd2(m, s)
      ELSE CheckCmd3(m, s)

(* A session holds one command; Err 24 otherwise.                           *)
CheckFault(m) ==
  LET s == [ses EXCEPT !.curCmd = m.cmd]
  IN  IF ses.curCmd \notin {255, m.cmd} THEN Refuse(24)
      ELSE IF m.cmd = 0 THEN CheckCmd0(m, s)
      ELSE IF m.cmd = 1 THEN CheckCmd1(m, s)
      ELSE IF m.cmd = 2 THEN CheckCmd2(m, s)
      ELSE CheckCmd3(m, s)

(* Command 4.  FIU_Cmd4_ResistanceFlag is never set, so Err 45 cannot occur.*)
(* A switch byte other than 0 and 1 escapes the range checks.               *)
CheckLoose(m) ==
  IF m.sw = 1 /\ m.freq \notin 2..99 THEN Err(40)
  ELSE IF m.sw = 1 /\ m.freq = 2 /\ m.duty \notin 30..50 THEN Err(42)
  ELSE IF m.sw = 1 /\ m.freq # 2 /\ m.duty \notin 1..99 THEN Err(43)
  ELSE IF m.rsw = 1 /\ m.res > 32000 THEN Err(44)
  ELSE Pass

-----------------------------------------------------------------------------
(* McuGetHostConfigInfo: staging a checked command in the registers.        *)

(* McuFault64BitValuePinSet.  The bit is set in an 8-byte array on the      *)
(* stack; numbers 64..71 fall on the variable tmp behind the array, which   *)
(* the memcpy then overwrites, so the value is returned unchanged.          *)
PinSet(v, n) == IF n < 64 THEN v \cup {n} ELSE v

(* Host type t is code t + 1 in bits 8..10 of P1.                           *)
TypeBits(t) == <<{8}, {9}, {8, 9}, {10}, {8, 10}, {9, 10}, {8, 9, 10}>>[t + 1]

LastType(c) == <<4, 4, 6, 2>>[c + 1]

(* Open circuit carries no load byte (commands 0, 1 and 3).                 *)
CarriesLoad(m) == m.type # 0 \/ m.cmd = 2

StageError(m) ==
  IF m.type > LastType(m.cmd)
  THEN IF m.cmd = 0 THEN Err(6)
       ELSE IF m.cmd = 1 THEN Err(11)
       ELSE IF m.cmd = 2 THEN Err(17)
       ELSE IF m.type = 3 THEN Err(2) ELSE Err(19)
  ELSE IF m.cmd = 0 /\ CarriesLoad(m) /\ m.load > 1 THEN Err(m.type + 1)
  ELSE Pass  \* for commands 1..3 the check has refused a load byte above 1

(* The load bit 12: set, cleared or left alone; command 2 type 1 is always  *)
(* with load.                                                               *)
LoadBit(m, v) ==
  IF ~CarriesLoad(m) THEN v
  ELSE IF m.load = 1 \/ (m.cmd = 2 /\ m.type = 1) THEN v \cup {12}
  ELSE v \ {12}

ChannelLimit(m) == IF m.cmd = 3 THEN 18 ELSE CHANNUMBER

Stage(m, p) ==
  LET low == m.pin < ChannelLimit(m)
      p1  == IF low THEN p.P1 ELSE PinSet(p.P1, m.pin - 64)
  IN  [p EXCEPT !.P0 = IF low THEN PinSet(@, m.pin) ELSE @,
                !.P1 = LoadBit(m, p1 \cup TypeBits(m.type))]

(* The frame DataAtPxToFiuBytes17 builds: channels from P0 and the low byte *)
(* of P1, fault code and load from its second byte, resistance from P4_0.   *)
FrameOf(p, c) ==
  [marked |-> TRUE, cmd |-> c,
   chans  |-> p.P0 \cup {64 + b : b \in p.P1 \cap 0..7},
   code   |-> (IF 8 \in p.P1 THEN 1 ELSE 0) + (IF 9 \in p.P1 THEN 2 ELSE 0)
              + (IF 10 \in p.P1 THEN 4 ELSE 0),
   load   |-> IF 12 \in p.P1 THEN 1 ELSE 0,
   res    |-> p.P4_0]

-----------------------------------------------------------------------------
(* Slip: P1 is not cleared with P0.                                        *)
P_init_KeepsP1 == px' = [Cleared EXCEPT !.P1 = px.P1] /\ staged' = {}

(* P_init, with the history it ends.                                        *)
P_init == px' = Cleared /\ staged' = {}

(* Slip: the loop that clears FIU_Cmd0_CurPinFlag is missing.              *)
SessionInit_KeepsPins ==
  ses' = [NoSession EXCEPT !.pinFlag = ses.pinFlag] /\ session' = {}

(* FIU_Cmd0_CurPinFlag_init, with the history it ends.                      *)
SessionInit == ses' = NoSession /\ session' = {}

(* Commands 0x00..0x03.  A failed check clears everything (GlobalDataInit); *)
(* a failed staging clears the registers, and the handler then clears the   *)
(* session unless g_Error is set.                                           *)
ConfigFault(m) ==
  LET chk == CheckFault(m)
  IN  /\ \/ /\ chk.res # Pass
            /\ P_init
            /\ SessionInit
         \/ /\ chk.res = Pass
            /\ StageError(m) # Pass
            /\ P_init
            /\ IF gError = 0 THEN SessionInit
               ELSE ses' = chk.ses /\ UNCHANGED session
         \/ /\ chk.res = Pass
            /\ StageError(m) = Pass
            /\ ses' = chk.ses
            /\ px' = Stage(m, px)
            /\ staged' = staged \cup {m}
            /\ session' = session \cup {m}
      /\ UNCHANGED <<bLoose, frame, gError, can, late>>

(* Command 0x04.  Switching the loose contact off also clears g_Ptime, and  *)
(* leaves g_bLoose as it is.                                                *)
ConfigLoose(m) ==
  /\ \/ /\ CheckLoose(m) # Pass
        /\ P_init
        /\ SessionInit
        /\ UNCHANGED bLoose
     \/ /\ CheckLoose(m) = Pass
        /\ bLoose' = IF m.sw # 0 THEN 1 ELSE bLoose
        /\ px' = [px EXCEPT !.freq = IF m.sw # 0 THEN m.freq ELSE 0,
                            !.duty = IF m.sw # 0 THEN m.duty ELSE 0,
                            !.time = IF m.sw # 0 THEN @ ELSE 0,
                            !.P4_0 = IF m.rsw # 0 THEN m.res ELSE @]
        /\ UNCHANGED <<ses, staged, session>>
  /\ UNCHANGED <<frame, gError, can, late>>

(* The activation time: low byte first over UDP, high byte first over CAN.  *)
Ptime(link, b) == IF link = "udp" THEN b[2] * 256 + b[1] ELSE b[1] * 256 + b[2]

(* DataAtPxToFiuBytes17, then the end of the session.  The registers keep   *)
(* their contents.                                                          *)
BuildFrame ==
  /\ frame' = FrameOf(px, ses.curCmd)
  /\ SessionInit
  /\ late' = IF gError = 0 THEN late ELSE late + 1

(* An activation time above 65500.                                          *)
TimeRefused ==
  /\ P_init
  /\ SessionInit
  /\ UNCHANGED <<frame, late>>

(* Slip: the frame is built without looking at g_Error.                    *)
ConfigDone_Unguarded(b) ==
  /\ px' = [px EXCEPT !.time = Ptime("udp", b)]
  /\ BuildFrame
  /\ UNCHANGED <<bLoose, gError, can, staged>>

(* Command 0x05 over UDP, in a thread that led_task cannot interrupt.       *)
ConfigDone(b) ==
  LET t == Ptime("udp", b)
  IN  /\ \/ /\ gError # 0
            /\ px' = [px EXCEPT !.time = t]
            /\ UNCHANGED <<ses, frame, staged, session, late>>
         \/ /\ gError = 0
            /\ t > MaxTime
            /\ TimeRefused
         \/ /\ gError = 0
            /\ t <= MaxTime
            /\ px' = [px EXCEPT !.time = t]
            /\ BuildFrame
            /\ UNCHANGED staged
      /\ UNCHANGED <<bLoose, gError, can>>

(* Command 0x05 over CAN, up to the test of g_Error and of the time.        *)
CanDoneCheck(b) ==
  LET t == Ptime("can", b)
  IN  /\ can = "idle"
      /\ \/ /\ gError = 0
            /\ t > MaxTime
            /\ TimeRefused
            /\ UNCHANGED can
         \/ /\ gError # 0 \/ t <= MaxTime
            /\ px' = [px EXCEPT !.time = t]
            /\ can' = IF gError = 0 THEN "checked" ELSE "idle"
            /\ UNCHANGED <<ses, frame, staged, session, late>>
      /\ UNCHANGED <<bLoose, gError>>

(* Command 0x05 over CAN, from the build on: g_Error is not read again.     *)
CanDoneBuild ==
  /\ can = "checked"
  /\ can' = "idle"
  /\ BuildFrame
  /\ UNCHANGED <<px, bLoose, gError, staged>>

(* Command 0x11: the frame becomes the reset frame, its data bytes stay.    *)
ResetRelay ==
  /\ frame' = [frame EXCEPT !.marked = TRUE, !.cmd = 4]
  /\ \/ gError # 0 /\ UNCHANGED <<ses, px, staged, session>>
     \/ gError = 0 /\ P_init /\ SessionInit
  /\ UNCHANGED <<bLoose, gError, can, late>>

(* Command 0x1A: Fuse_check only reads pins and answers the host.           *)
FuseTest ==
  /\ gError = 0
  /\ P_init
  /\ SessionInit
  /\ UNCHANGED <<bLoose, frame, gError, can, late>>

(* Command 0x1C, and a power cycle.                                         *)
SystemReset ==
  /\ ses' = NoSession
  /\ px' = Cleared
  /\ bLoose' = 0
  /\ frame' = BlankFrame
  /\ gError' = 0
  /\ can' = "idle"
  /\ staged' = {}
  /\ session' = {}
  /\ late' = 0

(* led_task finds a temperature switch open and enters Error_loop.          *)
OverTemperature ==
  /\ gError = 0
  /\ gError' = 1
  /\ UNCHANGED <<ses, px, bLoose, frame, can, staged, session, late>>

Next ==
  \/ \E m \in FaultMsgs : ConfigFault(m)
  \/ \E m \in LooseMsgs : ConfigLoose(m)
  \/ \E b \in TimeBytes : ConfigDone(b)
  \/ \E b \in TimeBytes : CanDoneCheck(b)
  \/ CanDoneBuild
  \/ ResetRelay
  \/ FuseTest
  \/ SystemReset
  \/ OverTemperature

Spec == Init /\ [][Next]_vars

-----------------------------------------------------------------------------
Session ==
  [curCmd : 0..3 \cup {255}, errType : {-1} \cup 1..4, pinFlag : SUBSET (0..CHANNUMBER),
   cmd1 : 0..1, cmd2 : 0..1, type0Cnt : 0..2, type0Flag : 0..1,
   cmd3 : 0..1, type3Cnt : 0..2, type3Flag : 0..1]

Registers ==
  [P0 : SUBSET (0..63), P1 : SUBSET (0..12), P4_0 : Word16, time : Word16,
   freq : Byte, duty : Byte]

Frame ==
  [marked : BOOLEAN, cmd : 0..4 \cup {255}, chans : SUBSET (0..71), code : 0..7,
   load : 0..1, res : Word16]

(* Every variable stays within the width of its C type; in particular the  *)
(* counters of HostConfigCheck never pass 2 and no staged command reaches  *)
(* a bit of P1 above 12.                                                   *)
TypeOK ==
  /\ ses \in Session
  /\ px \in Registers
  /\ bLoose \in 0..1
  /\ frame \in Frame
  /\ gError \in 0..1
  /\ can \in {"idle", "checked"}
  /\ late \in Nat
  /\ staged \subseteq FaultMsgs
  /\ session \subseteq FaultMsgs

(* Bit b of P1 is a bit of the fault code t + 1 of the protocol documents.  *)
CodeBit(t, b) == ((t + 1) \div (IF b = 8 THEN 1 ELSE IF b = 9 THEN 2 ELSE 4)) % 2 = 1

(* The staging registers are a function of the commands that were answered *)
(* with success since P_init: P0 is the set of their pins below 64, the    *)
(* fault code bits of P1 are the bits of host type + 1 of all of them and  *)
(* the bit that pin 72 reaches.  No handler loses, adds or garbles one.    *)
StagedExactly ==
  /\ px.P0 = {m.pin : m \in {x \in staged : x.pin < 64}}
  /\ px.P1 \cap 0..7 = {m.pin - 64 : m \in {x \in staged : x.cmd = 3 /\ x.pin \in 64..71}}
  /\ \A b \in 8..10 :
       b \in px.P1 <=> \E m \in staged :
                         CodeBit(m.type, b) \/ (b = 8 /\ m.pin = 72)
  /\ 11 \notin px.P1

(* While the unit is healthy the duplicate checks and the registers agree: *)
(* every command the open session counts is staged, and every channel that *)
(* would be refused as a duplicate was configured.  An error path that     *)
(* cleared one of the two and not the other would break it.                *)
SessionStaged ==
  gError = 0 =>
    /\ session \subseteq staged
    /\ \A c \in ses.pinFlag : \E m \in session : m.pin = c

(* What one session may hold: a single command number; one fast-channel or *)
(* high-current fault; for leakage at most two ECU-LOAD channels and one   *)
(* of another kind.                                                        *)
SessionQuota ==
  /\ \A m \in session : m.cmd = ses.curCmd
  /\ ses.curCmd \in {1, 3} => Cardinality(session) <= 1
  /\ ses.curCmd = 2 =>
       /\ Cardinality({m \in session : m.type = 0}) <= 2
       /\ Cardinality({m \in session : m.type # 0}) <= 1

(* After an over-temperature error at most one more fault frame is built   *)
(* until the unit restarts: the one of a command 0x05 whose test of g_Error *)
(* the CAN task had passed before led_task set it.  No sequence of commands *)
(* over the two links stretches that window to a second frame.             *)
AtMostOneLateFrame == late <= 1

-----------------------------------------------------------------------------
(* readme.txt, "Byte0-Byte8 : channel number, 72 channels in all": every   *)
(* accepted channel of commands 0..2 reaches the frame.                    *)
EveryChannelStaged ==
  \A m \in staged : m.cmd # 3 /\ m.pin < CHANNUMBER
                      => m.pin \in FrameOf(px, m.cmd).chans
=============================================================================
