-------------------------- MODULE FiuConfigProofs --------------------------
(***************************************************************************)
(* Proofs about FiuConfig, for every set of host messages the assumptions  *)
(* of that module allow.                                                   *)
(***************************************************************************)
EXTENDS FiuConfig, FiniteSetTheorems, TLAPS

(* The counters of HostConfigCheck and the flags that close them.  Without  *)
(* this part TypeOK is not inductive: a counter at 2 with its flag open     *)
(* would be counted up once more.                                           *)
CountersClosed(s) ==
  /\ s.type0Flag = 0 => s.type0Cnt <= 1
  /\ s.type3Flag = 0 => s.type3Cnt <= 1

(* What a passed check says about the command m and the flags it leaves.    *)
Checked(m, s) ==
  /\ s \in Session
  /\ CountersClosed(s)
  /\ s.curCmd = m.cmd
  /\ ses.curCmd \in {255, m.cmd}
  /\ m.pin <= CHANNUMBER \/ (m.cmd = 3 /\ m.type = 3)
  /\ s.pinFlag \subseteq ses.pinFlag \cup {m.pin}
  /\ m.cmd = 1 => ses.cmd1 = 0 /\ s.cmd1 = 1
  /\ m.cmd = 2 => s.cmd2 = 1
  /\ m.cmd = 2 /\ m.type = 0 => s.type0Cnt = ses.type0Cnt + 1
  /\ m.cmd = 2 /\ m.type # 0 => s.type0Cnt = ses.type0Cnt /\ ses.cmd2 = 0
  /\ m.cmd = 3 => s.cmd3 = 1
  /\ m.cmd = 3 /\ m.type # 3 => ses.cmd3 = 0

(* A refused command never carries the result Pass.                         *)
LEMMA RefuseNotPass == ASSUME NEW i \in Nat PROVE Refuse(i).res # Pass
  BY DEF Refuse, Err, Pass

(* HostConfigCheck keeps its flags in range and leaves behind what the      *)
(* later commands of the session rely on.                                   *)
LEMMA CheckFaultFacts ==
  ASSUME TypeOK, CountersClosed(ses), NEW m \in FaultMsgs, CheckFault(m).res = Pass
  PROVE  Checked(m, CheckFault(m).ses)
<1> DEFINE s0 == [ses EXCEPT !.curCmd = m.cmd]
<1>1. /\ ses \in Session
      /\ m \in [cmd : 0..3, pin : Byte, type : Byte, load : Byte]
  BY FaultMsgsAssumption DEF TypeOK
<1>2. ses.curCmd \in {255, m.cmd}
  BY RefuseNotPass DEF CheckFault
<1>3. /\ s0 \in Session
      /\ CountersClosed(s0)
      /\ s0.curCmd = m.cmd
      /\ s0.pinFlag = ses.pinFlag /\ s0.cmd1 = ses.cmd1 /\ s0.cmd2 = ses.cmd2
      /\ s0.cmd3 = ses.cmd3 /\ s0.type0Cnt = ses.type0Cnt
  BY <1>1 DEF Session, CountersClosed
<1> HIDE DEF s0
<1>4. CASE m.cmd = 0
  <2>1. CheckFault(m) = CheckCmd0(m, s0)
    BY <1>2, <1>4 DEF CheckFault, s0
  <2> DEFINE e == IF m.type = 0 THEN s0.errType ELSE m.type
             P == s0.pinFlag \cup {m.pin}
  <2>2. /\ m.pin <= CHANNUMBER /\ m.type <= 4
        /\ \/ CheckFault(m).ses = s0
           \/ CheckFault(m).ses = [s0 EXCEPT !.pinFlag = P, !.errType = e]
    BY <1>1, <2>1 DEF CheckCmd0, Refuse, Accept, Err, Pass, Byte, CHANNUMBER
  <2>3. e \in {-1} \cup 1..4 /\ P \in SUBSET (0..CHANNUMBER)
    BY <1>1, <1>3, <2>2 DEF Session, CHANNUMBER, Byte
  <2> HIDE DEF e, P
  <2>4. [s0 EXCEPT !.pinFlag = P, !.errType = e] \in Session
    BY <1>3, <2>3, ZenonT(30) DEF Session
  <2>5. CheckFault(m).ses \in Session
    BY <1>3, <2>2, <2>4
  <2> DEFINE Same(t) == /\ t.curCmd = s0.curCmd
                        /\ t.type0Flag = s0.type0Flag /\ t.type0Cnt = s0.type0Cnt
                        /\ t.type3Flag = s0.type3Flag /\ t.type3Cnt = s0.type3Cnt
                        /\ t.pinFlag \in {s0.pinFlag, P}
  <2>6. Same([s0 EXCEPT !.pinFlag = P, !.errType = e])
    BY <1>3 DEF Session
  <2>7. Same(CheckFault(m).ses)
    <3>1. Same(s0) OBVIOUS
    <3> HIDE DEF Same
    <3> QED BY <2>2, <2>6, <3>1
  <2> QED
    BY <1>2, <1>3, <1>4, <2>2, <2>5, <2>7 DEF Checked, CountersClosed, P
<1>5. CASE m.cmd = 1
  <2>1. CheckFault(m) = CheckCmd1(m, s0)
    BY <1>2, <1>5 DEF CheckFault, s0
  <2>2. /\ m.pin <= CHANNUMBER /\ s0.cmd1 = 0
        /\ CheckFault(m).ses = [s0 EXCEPT !.cmd1 = 1]
    BY <1>1, <1>3, <2>1 DEF CheckCmd1, Refuse, Accept, Err, Pass, Byte, CHANNUMBER, Session
  <2> QED
    BY <1>1, <1>2, <1>3, <1>5, <2>2 DEF Checked, Session, CountersClosed, CHANNUMBER, Byte
<1>6. CASE m.cmd = 2
  <2>1. CheckFault(m) = CheckCmd2(m, s0)
    BY <1>2, <1>6 DEF CheckFault, s0
  <2>2. CASE m.type = 0
    <3> DEFINE f == IF s0.type0Cnt + 1 >= 2 THEN 1 ELSE s0.type0Flag
            n == s0.type0Cnt + 1
    <3>1. /\ m.pin <= CHANNUMBER /\ s0.type0Flag = 0
          /\ CheckFault(m).ses = [s0 EXCEPT !.cmd2 = 1, !.type0Cnt = n,
                     !.type0Flag = f]
      BY <1>1, <1>3, <2>1, <2>2
         DEF CheckCmd2, Refuse, Accept, Err, Pass, Byte, CHANNUMBER, Session
    <3>2. n \in 0..2
      BY <1>3, <3>1 DEF CountersClosed, Session
    <3>3. f \in 0..1
      BY <1>3 DEF Session
    <3> DEFINE u == [s0 EXCEPT !.cmd2 = 1]
    <3>4. CheckFault(m).ses = [u EXCEPT !.type0Cnt = n, !.type0Flag = f]
      BY <3>1
    <3>5. /\ u \in Session
          /\ u.curCmd = s0.curCmd /\ u.pinFlag = s0.pinFlag /\ u.cmd2 = 1
          /\ u.type3Flag = s0.type3Flag /\ u.type3Cnt = s0.type3Cnt
      BY <1>3 DEF Session
    <3> HIDE DEF f, n, u
    <3>6. [u EXCEPT !.type0Cnt = n, !.type0Flag = f] \in Session
      BY <3>2, <3>3, <3>5 DEF Session
    <3>7. /\ CheckFault(m).ses.curCmd = s0.curCmd
          /\ CheckFault(m).ses.pinFlag = s0.pinFlag
          /\ CheckFault(m).ses.cmd2 = 1
          /\ CheckFault(m).ses.type0Cnt = n
          /\ CheckFault(m).ses.type0Flag = f
          /\ CheckFault(m).ses.type3Flag = s0.type3Flag
          /\ CheckFault(m).ses.type3Cnt = s0.type3Cnt
      BY <3>4, <3>5 DEF Session
    <3>8. CountersClosed(CheckFault(m).ses)
      BY <1>3, <3>7 DEF CountersClosed, Session, f, n
    <3> QED
      BY <1>2, <1>3, <1>6, <2>2, <3>1, <3>4, <3>6, <3>7, <3>8 DEF Checked, n
  <2>3. CASE m.type # 0
    <3>1. /\ m.pin <= CHANNUMBER /\ s0.cmd2 = 0
          /\ CheckFault(m).ses = [s0 EXCEPT !.cmd2 = 1]
      BY <1>1, <1>3, <2>1, <2>3
         DEF CheckCmd2, Refuse, Accept, Err, Pass, Byte, CHANNUMBER, Session
    <3> QED
      BY <1>1, <1>2, <1>3, <1>6, <2>3, <3>1
         DEF Checked, Session, CountersClosed, CHANNUMBER, Byte
  <2> QED BY <2>2, <2>3
<1>7. CASE m.cmd = 3
  <2>1. CheckFault(m) = CheckCmd3(m, s0)
    BY <1>2, <1>7 DEF CheckFault, s0
  <2>2. CASE m.type = 3
    <3> DEFINE f == IF s0.type3Cnt + 1 >= 2 THEN 1 ELSE s0.type3Flag
            n == s0.type3Cnt + 1
    <3>1. /\ s0.type3Flag = 0
          /\ CheckFault(m).ses = [s0 EXCEPT !.cmd3 = 1, !.type3Cnt = n,
                     !.type3Flag = f]
      BY <1>1, <1>3, <2>1, <2>2
         DEF CheckCmd3, Refuse, Accept, Err, Pass, Byte, CHANNUMBER, Session
    <3>2. n \in 0..2
      BY <1>3, <3>1 DEF CountersClosed, Session
    <3>3. f \in 0..1
      BY <1>3 DEF Session
    <3> DEFINE u == [s0 EXCEPT !.cmd3 = 1]
    <3>4. CheckFault(m).ses = [u EXCEPT !.type3Cnt = n, !.type3Flag = f]
      BY <3>1
    <3>5. /\ u \in Session
          /\ u.curCmd = s0.curCmd /\ u.pinFlag = s0.pinFlag /\ u.cmd3 = 1
          /\ u.type0Flag = s0.type0Flag /\ u.type0Cnt = s0.type0Cnt
      BY <1>3 DEF Session
    <3> HIDE DEF f, n, u
    <3>6. [u EXCEPT !.type3Cnt = n, !.type3Flag = f] \in Session
      BY <3>2, <3>3, <3>5 DEF Session
    <3>7. /\ CheckFault(m).ses.curCmd = s0.curCmd
          /\ CheckFault(m).ses.pinFlag = s0.pinFlag
          /\ CheckFault(m).ses.cmd3 = 1
          /\ CheckFault(m).ses.type3Cnt = n
          /\ CheckFault(m).ses.type3Flag = f
          /\ CheckFault(m).ses.type0Flag = s0.type0Flag
          /\ CheckFault(m).ses.type0Cnt = s0.type0Cnt
      BY <3>4, <3>5 DEF Session
    <3>8. CountersClosed(CheckFault(m).ses)
      BY <1>3, <3>7 DEF CountersClosed, Session, f, n
    <3> QED
      BY <1>2, <1>3, <1>7, <2>2, <3>4, <3>6, <3>7, <3>8 DEF Checked, n
  <2>3. CASE m.type # 3
    <3>1. /\ m.pin <= CHANNUMBER /\ s0.cmd3 = 0
          /\ CheckFault(m).ses = [s0 EXCEPT !.cmd3 = 1]
      BY <1>1, <1>3, <2>1, <2>3
         DEF CheckCmd3, Refuse, Accept, Err, Pass, Byte, CHANNUMBER, Session
    <3> QED
      BY <1>1, <1>2, <1>3, <1>7, <2>3, <3>1
         DEF Checked, Session, CountersClosed, CHANNUMBER, Byte
  <2> QED BY <2>2, <2>3
<1> QED BY <1>1, <1>4, <1>5, <1>6, <1>7

-----------------------------------------------------------------------------
(* TypeBits writes the fault code t + 1 in binary.                          *)
LEMMA TypeBitsFacts ==
  ASSUME NEW t \in 0..6
  PROVE  /\ TypeBits(t) \subseteq 8..10
         /\ \A b \in 8..10 : b \in TypeBits(t) <=> CodeBit(t, b)
<1>1. CASE t = 0 BY <1>1 DEF TypeBits, CodeBit
<1>2. CASE t = 1 BY <1>2 DEF TypeBits, CodeBit
<1>3. CASE t = 2 BY <1>3 DEF TypeBits, CodeBit
<1>4. CASE t = 3 BY <1>4 DEF TypeBits, CodeBit
<1>5. CASE t = 4 BY <1>5 DEF TypeBits, CodeBit
<1>6. CASE t = 5 BY <1>6 DEF TypeBits, CodeBit
<1>7. CASE t = 6 BY <1>7 DEF TypeBits, CodeBit
<1> QED BY <1>1, <1>2, <1>3, <1>4, <1>5, <1>6, <1>7

(* A command that stages without error has a type its command number knows, *)
(* and never is the high-current type 3.                                    *)
LEMMA StageErrorFacts ==
  ASSUME NEW m \in FaultMsgs, StageError(m) = Pass
  PROVE  /\ m.type \in 0..6
         /\ m.cmd = 3 => m.type \in 0..2
<1>1. m \in [cmd : 0..3, pin : Byte, type : Byte, load : Byte]
  BY FaultMsgsAssumption
<1>2. m.type <= LastType(m.cmd)
  <2>1. LastType(m.cmd) \in {2, 4, 6} BY <1>1 DEF LastType
  <2> QED BY <1>1, <2>1 DEF StageError, Err, Pass, Byte
<1>3. /\ LastType(m.cmd) \in {2, 4, 6}
      /\ m.cmd = 3 => LastType(m.cmd) = 2
  BY <1>1 DEF LastType
<1> QED BY <1>1, <1>2, <1>3 DEF Byte

(* What McuGetHostConfigInfo does to the registers, bit by bit.             *)
LEMMA StageFacts ==
  ASSUME NEW p \in Registers, NEW m \in FaultMsgs, m.pin <= CHANNUMBER,
         StageError(m) = Pass
  PROVE  /\ Stage(m, p) \in Registers
         /\ \A c : c \in Stage(m, p).P0 <=> c \in p.P0 \/ (c = m.pin /\ m.pin < 64)
         /\ \A b \in 0..7 : b \in Stage(m, p).P1 <=>
               b \in p.P1 \/ (m.cmd = 3 /\ m.pin \in 64..71 /\ b = m.pin - 64)
         /\ \A b \in 8..10 : b \in Stage(m, p).P1 <=>
               b \in p.P1 \/ CodeBit(m.type, b) \/ (b = 8 /\ m.pin = 72)
         /\ 11 \in Stage(m, p).P1 <=> 11 \in p.P1
<1> DEFINE low == m.pin < ChannelLimit(m)
           p0  == IF low THEN PinSet(p.P0, m.pin) ELSE p.P0
           p1  == IF low THEN p.P1 ELSE PinSet(p.P1, m.pin - 64)
           q1  == LoadBit(m, p1 \cup TypeBits(m.type))
<1>1. /\ m \in [cmd : 0..3, pin : Byte, type : Byte, load : Byte]
      /\ m.cmd = 3 => m.pin \notin 18..63
  BY FaultMsgsAssumption
<1>2. /\ TypeBits(m.type) \subseteq 8..10
      /\ \A b \in 8..10 : b \in TypeBits(m.type) <=> CodeBit(m.type, b)
  BY StageErrorFacts, TypeBitsFacts
<1>3. /\ p.P0 \subseteq 0..63 /\ p.P1 \subseteq 0..12
  BY DEF Registers
<1>4. /\ p0 \in SUBSET (0..63)
      /\ \A c : c \in p0 <=> c \in p.P0 \/ (c = m.pin /\ m.pin < 64)
  BY <1>1, <1>3 DEF PinSet, ChannelLimit, CHANNUMBER, Byte
<1>5. /\ p1 \in SUBSET (0..12)
      /\ \A b : b \in p1 <=> \/ b \in p.P1
                             \/ m.cmd = 3 /\ m.pin \in 64..71 /\ b = m.pin - 64
                             \/ b = 8 /\ m.pin = 72
  BY <1>1, <1>3 DEF PinSet, ChannelLimit, CHANNUMBER, Byte
<1>6. /\ q1 \in SUBSET (0..12)
      /\ \A b \in 0..11 : b \in q1 <=> b \in p1 \/ b \in TypeBits(m.type)
  <2> HIDE DEF p1
  <2> DEFINE v == p1 \cup TypeBits(m.type)
  <2>1. q1 = v \/ q1 = v \cup {12} \/ q1 = v \ {12}
    BY DEF LoadBit
  <2>2. v \subseteq 0..12
    <3>1. p1 \subseteq 0..12 BY <1>5
    <3>2. TypeBits(m.type) \subseteq 8..10 BY <1>2
    <3>3. 8..10 \subseteq 0..12 OBVIOUS
    <3> QED BY <3>1, <3>2, <3>3, Zenon
  <2> HIDE DEF q1
  <2> QED BY <2>1, <2>2
<1>7. Stage(m, p) = [p EXCEPT !.P0 = p0, !.P1 = q1]
  BY DEF Stage
<1> HIDE DEF p0, p1, q1
<1>8. /\ Stage(m, p) \in Registers
      /\ Stage(m, p).P0 = p0 /\ Stage(m, p).P1 = q1
  BY <1>4, <1>6, <1>7 DEF Registers
<1>9. /\ \A b \in 0..7 : b \in q1 <=>
            b \in p.P1 \/ (m.cmd = 3 /\ m.pin \in 64..71 /\ b = m.pin - 64)
      /\ \A b \in 8..10 : b \in q1 <=>
            b \in p.P1 \/ CodeBit(m.type, b) \/ (b = 8 /\ m.pin = 72)
      /\ 11 \in q1 <=> 11 \in p.P1
  BY <1>2, <1>5, <1>6
<1> QED BY <1>4, <1>8, <1>9

(* The frame built from well-typed registers is well typed.                 *)
LEMMA FrameOfType ==
  ASSUME NEW p \in Registers, NEW c \in 0..4 \cup {255}
  PROVE  FrameOf(p, c) \in Frame
<1>1. p.P0 \subseteq 0..63 /\ p.P4_0 \in Word16
  BY DEF Registers
<1>2. p.P0 \cup {64 + b : b \in p.P1 \cap 0..7} \subseteq 0..71
  BY <1>1
<1> QED BY <1>1, <1>2 DEF FrameOf, Frame

(* What the initialisers leave is well typed.                               *)
LEMMA InitialTypes ==
  /\ NoSession \in Session /\ CountersClosed(NoSession)
  /\ Cleared \in Registers
  /\ BlankFrame \in Frame
<1>1. NoSession \in Session /\ CountersClosed(NoSession)
  BY DEF NoSession, Session, CountersClosed
<1>2. Cleared \in Registers
  BY DEF Cleared, Registers, Byte, Word16
<1>3. BlankFrame \in Frame
  BY DEF BlankFrame, Frame, Word16
<1> QED BY <1>1, <1>2, <1>3

(* Both byte orders of the activation time give a 16-bit number.            *)
LEMMA PtimeType ==
  ASSUME NEW link, NEW b \in TimeBytes
  PROVE  Ptime(link, b) \in Word16
<1>1. b[1] \in Byte /\ b[2] \in Byte
  BY TimeBytesAssumption
<1>2. ASSUME NEW x \in Byte, NEW y \in Byte PROVE x * 256 + y \in Word16
  <2>1. x \in 0..255 /\ y \in 0..255
    BY DEF Byte
  <2> DEFINE a == x * 256 + y
             top == 256 * 256 - 1
  <2>2. a \in Int /\ top \in Int /\ 0 <= a /\ a <= top
    BY <2>1
  <2>3. SUFFICES a \in 0..top
    BY Zenon DEF Word16
  <2> HIDE DEF a, top
  <2> QED BY ONLY <2>2
<1> QED BY <1>1, <1>2 DEF Ptime

(* The inductive form of the type invariant.                                *)
TypeInv == TypeOK /\ CountersClosed(ses)

(* One step of any handler keeps the variables within their C types.        *)
LEMMA TypeInvStep == TypeInv /\ [Next]_vars => TypeInv'
<1> SUFFICES ASSUME TypeInv, [Next]_vars PROVE TypeInv'
  OBVIOUS
<1> USE DEF TypeInv
<1>1. ASSUME NEW m \in FaultMsgs, ConfigFault(m) PROVE TypeInv'
  <2>1. UNCHANGED <<bLoose, frame, gError, can, late>>
    BY <1>1 DEF ConfigFault
  <2>2. CASE P_init /\ SessionInit
    BY <2>1, <2>2, InitialTypes DEF P_init, SessionInit, TypeOK
  <2>3. CASE CheckFault(m).res = Pass /\ P_init /\ ses' = CheckFault(m).ses
             /\ UNCHANGED session
    BY <2>1, <2>3, CheckFaultFacts, InitialTypes DEF Checked, P_init, TypeOK
  <2>4. CASE /\ CheckFault(m).res = Pass /\ StageError(m) = Pass
             /\ ses' = CheckFault(m).ses /\ px' = Stage(m, px)
             /\ staged' = staged \cup {m} /\ session' = session \cup {m}
    <3>1. Checked(m, CheckFault(m).ses) /\ m.pin <= CHANNUMBER
      BY <2>4, CheckFaultFacts, StageErrorFacts DEF Checked
    <3>2. Stage(m, px) \in Registers
      BY <2>4, <3>1, StageFacts DEF TypeOK
    <3> QED BY <2>1, <2>4, <3>1, <3>2 DEF Checked, TypeOK
  <2> QED BY <1>1, <2>2, <2>3, <2>4 DEF ConfigFault
<1>2. ASSUME NEW m \in LooseMsgs, ConfigLoose(m) PROVE TypeInv'
  <2>1. UNCHANGED <<frame, gError, can, late>>
    BY <1>2 DEF ConfigLoose
  <2>2. CASE P_init /\ SessionInit /\ UNCHANGED bLoose
    BY <2>1, <2>2, InitialTypes DEF P_init, SessionInit, TypeOK
  <2>3. CASE ~(P_init /\ SessionInit /\ UNCHANGED bLoose)
    <3> DEFINE a == IF m.sw # 0 THEN m.freq ELSE 0
               d == IF m.sw # 0 THEN m.duty ELSE 0
               t == IF m.sw # 0 THEN px.time ELSE 0
               r == IF m.rsw # 0 THEN m.res ELSE px.P4_0
               q == [px EXCEPT !.freq = a, !.duty = d]
    <3>1. /\ m \in [sw : Byte, freq : Byte, duty : Byte, rsw : Byte, res : Word16]
          /\ px \in Registers
      BY LooseMsgsAssumption DEF TypeOK
    <3>2. a \in Byte /\ d \in Byte /\ t \in Word16 /\ r \in Word16
      <4>1. 0 \in Byte /\ 0 \in Word16 BY DEF Byte, Word16
      <4>2. px.time \in Word16 /\ px.P4_0 \in Word16 BY <3>1 DEF Registers
      <4> QED BY <3>1, <4>1, <4>2
    <3>3. /\ px' = [q EXCEPT !.time = t, !.P4_0 = r]
          /\ bLoose' \in 0..1
          /\ UNCHANGED <<ses, staged, session>>
      BY <1>2, <2>3, <3>1 DEF ConfigLoose, TypeOK, Registers
    <3> HIDE DEF a, d, t, r
    <3>4. q \in Registers
      BY <3>1, <3>2 DEF Registers
    <3> HIDE DEF q
    <3>5. px' \in Registers
      BY <3>2, <3>3, <3>4 DEF Registers
    <3> QED BY <2>1, <3>3, <3>5 DEF TypeOK, CountersClosed
  <2> QED BY <2>2, <2>3
<1>a. FrameOf(px, ses.curCmd) \in Frame
  BY FrameOfType DEF TypeOK, Session
<1>b. ASSUME BuildFrame
      PROVE  /\ frame' \in Frame /\ late' \in Nat
             /\ ses' = NoSession /\ session' = {}
  BY <1>a, <1>b DEF BuildFrame, SessionInit, TypeOK
<1>3. ASSUME NEW b \in TimeBytes, ConfigDone(b) PROVE TypeInv'
  <2> DEFINE t == Ptime("udp", b)
  <2>1. UNCHANGED <<bLoose, gError, can>>
    BY <1>3 DEF ConfigDone
  <2>2. t \in Word16
    BY PtimeType
  <2> HIDE DEF t
  <2>3. [px EXCEPT !.time = t] \in Registers
    BY <2>2 DEF TypeOK, Registers
  <2>4. CASE BuildFrame /\ px' = [px EXCEPT !.time = t] /\ UNCHANGED staged
    BY <1>b, <2>1, <2>3, <2>4, InitialTypes DEF TypeOK
  <2>5. CASE TimeRefused
    BY <2>1, <2>5, InitialTypes DEF TimeRefused, P_init, SessionInit, TypeOK
  <2>6. CASE px' = [px EXCEPT !.time = t] /\ UNCHANGED <<ses, frame, staged, session, late>>
    BY <2>1, <2>3, <2>6 DEF TypeOK
  <2> QED BY <1>3, <2>4, <2>5, <2>6 DEF ConfigDone, t
<1>9. ASSUME NEW b \in TimeBytes, CanDoneCheck(b) PROVE TypeInv'
  <2> DEFINE t == Ptime("can", b)
  <2>1. UNCHANGED <<bLoose, gError>> /\ can' \in {"idle", "checked"}
    BY <1>9 DEF CanDoneCheck, TypeOK
  <2>2. t \in Word16
    BY PtimeType
  <2> HIDE DEF t
  <2>3. [px EXCEPT !.time = t] \in Registers
    BY <2>2 DEF TypeOK, Registers
  <2>4. CASE TimeRefused
    BY <2>1, <2>4, InitialTypes DEF TimeRefused, P_init, SessionInit, TypeOK
  <2>5. CASE px' = [px EXCEPT !.time = t] /\ UNCHANGED <<ses, frame, staged, session, late>>
    BY <2>1, <2>3, <2>5 DEF TypeOK
  <2> QED BY <1>9, <2>4, <2>5 DEF CanDoneCheck, t
<1>10. CASE CanDoneBuild
  BY <1>b, <1>10, InitialTypes DEF CanDoneBuild, TypeOK
<1>4. CASE ResetRelay
  <2>1. [frame EXCEPT !.marked = TRUE, !.cmd = 4] \in Frame
    <3> DEFINE u == [frame EXCEPT !.marked = TRUE]
    <3>1. frame \in Frame BY DEF TypeOK
    <3>2. u \in Frame BY <3>1 DEF Frame
    <3>3. [frame EXCEPT !.marked = TRUE, !.cmd = 4] = [u EXCEPT !.cmd = 4] OBVIOUS
    <3> HIDE DEF u
    <3>4. [u EXCEPT !.cmd = 4] \in Frame BY <3>2 DEF Frame
    <3> QED BY <3>3, <3>4
  <2> QED BY <1>4, <2>1, InitialTypes DEF ResetRelay, P_init, SessionInit, TypeOK
<1>5. CASE FuseTest
  BY <1>5, InitialTypes DEF FuseTest, P_init, SessionInit, TypeOK
<1>6. CASE SystemReset
  BY <1>6, InitialTypes DEF SystemReset, TypeOK
<1>7. CASE OverTemperature
  BY <1>7 DEF OverTemperature, TypeOK
<1>8. CASE UNCHANGED vars
  BY <1>8 DEF vars, TypeOK
<1> QED
  BY <1>1, <1>2, <1>3, <1>4, <1>5, <1>6, <1>7, <1>8, <1>9, <1>10 DEF Next

(* Whatever the host sends, every variable of the interpreter stays within  *)
(* the width of its C type and the session counters never pass 2.           *)
THEOREM TypeCorrect == Spec => []TypeOK
<1>1. Init => TypeInv
  BY InitialTypes DEF Init, TypeInv, TypeOK
<1>2. TypeInv => TypeOK
  BY DEF TypeInv
<1> QED BY <1>1, <1>2, TypeInvStep, PTL DEF Spec

-----------------------------------------------------------------------------
(* A step that neither touches the channel and type registers nor the       *)
(* history, and a step that clears both, keep StagedExactly.                *)
LEMMA StagedKept ==
  ASSUME StagedExactly, px'.P0 = px.P0, px'.P1 = px.P1, staged' = staged
  PROVE  StagedExactly'
  BY DEF StagedExactly

LEMMA StagedCleared == ASSUME P_init PROVE StagedExactly'
  BY DEF P_init, StagedExactly, Cleared

(* Staging one more command keeps the registers equal to the history.       *)
LEMMA StagedAdded ==
  ASSUME TypeInv, StagedExactly, NEW m \in FaultMsgs, CheckFault(m).res = Pass,
         StageError(m) = Pass, px' = Stage(m, px), staged' = staged \cup {m}
  PROVE  StagedExactly'
<1>1. m.pin <= CHANNUMBER
  BY CheckFaultFacts, StageErrorFacts DEF TypeInv, Checked
<1>2. px \in Registers /\ staged \subseteq FaultMsgs
  BY DEF TypeInv, TypeOK
<1>3. /\ \A c : c \in px'.P0 <=> c \in px.P0 \/ (c = m.pin /\ m.pin < 64)
      /\ \A b \in 0..7 : b \in px'.P1 <=>
            b \in px.P1 \/ (m.cmd = 3 /\ m.pin \in 64..71 /\ b = m.pin - 64)
      /\ \A b \in 8..10 : b \in px'.P1 <=>
            b \in px.P1 \/ CodeBit(m.type, b) \/ (b = 8 /\ m.pin = 72)
      /\ 11 \in px'.P1 <=> 11 \in px.P1
  BY <1>1, <1>2, StageFacts
<1>4. px'.P0 = {n.pin : n \in {x \in staged' : x.pin < 64}}
  BY <1>3 DEF StagedExactly
<1>5. px'.P1 \cap 0..7 =
        {n.pin - 64 : n \in {x \in staged' : x.cmd = 3 /\ x.pin \in 64..71}}
  BY <1>3 DEF StagedExactly
<1>6. \A b \in 8..10 : b \in px'.P1 <=>
        \E n \in staged' : CodeBit(n.type, b) \/ (b = 8 /\ n.pin = 72)
  BY <1>3 DEF StagedExactly
<1>7. 11 \notin px'.P1
  BY <1>3 DEF StagedExactly
<1> QED BY <1>4, <1>5, <1>6, <1>7 DEF StagedExactly

LEMMA StagedStep == TypeInv /\ StagedExactly /\ [Next]_vars => StagedExactly'
<1> SUFFICES ASSUME TypeInv, StagedExactly, [Next]_vars PROVE StagedExactly'
  OBVIOUS
<1>0. px \in Registers
  BY DEF TypeInv, TypeOK
<1>1. ASSUME NEW m \in FaultMsgs, ConfigFault(m) PROVE StagedExactly'
  <2>1. CASE P_init
    BY <2>1, StagedCleared
  <2>2. CASE ~P_init
    BY <1>1, <2>2, StagedAdded DEF ConfigFault
  <2> QED BY <2>1, <2>2
<1>2. ASSUME NEW m \in LooseMsgs, ConfigLoose(m) PROVE StagedExactly'
  <2>1. CASE P_init
    BY <2>1, StagedCleared
  <2>2. CASE ~P_init
    <3>1. px'.P0 = px.P0 /\ px'.P1 = px.P1 /\ staged' = staged
      BY <1>0, <1>2, <2>2 DEF ConfigLoose, Registers
    <3> QED BY <3>1, StagedKept
  <2> QED BY <2>1, <2>2
<1>3. ASSUME NEW b \in TimeBytes, ConfigDone(b) PROVE StagedExactly'
  <2>1. CASE P_init
    BY <2>1, StagedCleared
  <2>2. CASE ~P_init
    <3>1. px'.P0 = px.P0 /\ px'.P1 = px.P1 /\ staged' = staged
      BY <1>0, <1>3, <2>2 DEF ConfigDone, TimeRefused, Registers
    <3> QED BY <3>1, StagedKept
  <2> QED BY <2>1, <2>2
<1>9. ASSUME NEW b \in TimeBytes, CanDoneCheck(b) PROVE StagedExactly'
  <2>1. CASE P_init
    BY <2>1, StagedCleared
  <2>2. CASE ~P_init
    <3>1. px'.P0 = px.P0 /\ px'.P1 = px.P1 /\ staged' = staged
      BY <1>0, <1>9, <2>2 DEF CanDoneCheck, TimeRefused, Registers
    <3> QED BY <3>1, StagedKept
  <2> QED BY <2>1, <2>2
<1>10. CASE CanDoneBuild
  BY <1>10, StagedKept DEF CanDoneBuild
<1>4. CASE ResetRelay
  BY <1>4, StagedCleared, StagedKept DEF ResetRelay
<1>5. CASE FuseTest
  BY <1>5, StagedCleared DEF FuseTest
<1>6. CASE SystemReset
  BY <1>6, StagedCleared DEF SystemReset, P_init
<1>7. CASE OverTemperature
  BY <1>7, StagedKept DEF OverTemperature
<1>8. CASE UNCHANGED vars
  BY <1>8, StagedKept DEF vars
<1> QED
  BY <1>1, <1>2, <1>3, <1>4, <1>5, <1>6, <1>7, <1>8, <1>9, <1>10 DEF Next

(* The registers P0 and P1 hold the channels and the type bits of the       *)
(* accepted commands and nothing else, over every history of handlers.      *)
THEOREM StagedCorrect == Spec => []StagedExactly
<1>1. Init => TypeInv /\ StagedExactly
  BY InitialTypes DEF Init, TypeInv, TypeOK, StagedExactly, Cleared
<1> QED BY <1>1, TypeInvStep, StagedStep, PTL DEF Spec

-----------------------------------------------------------------------------
(* One step keeps the duplicate checks and the registers in agreement.      *)
LEMMA SessionStagedStep == TypeInv /\ SessionStaged /\ [Next]_vars => SessionStaged'
<1> SUFFICES ASSUME TypeInv, SessionStaged, [Next]_vars, gError' = 0
             PROVE  /\ session' \subseteq staged'
                    /\ \A c \in ses'.pinFlag : \E m \in session' : m.pin = c
  BY DEF SessionStaged
<1>0. ASSUME SessionInit
      PROVE  /\ session' \subseteq staged'
             /\ \A c \in ses'.pinFlag : \E m \in session' : m.pin = c
  BY <1>0 DEF SessionInit, NoSession
<1>1. ASSUME NEW m \in FaultMsgs, ConfigFault(m)
      PROVE  /\ session' \subseteq staged'
             /\ \A c \in ses'.pinFlag : \E n \in session' : n.pin = c
  <2>1. gError = 0
    BY <1>1 DEF ConfigFault
  <2>2. CASE SessionInit
    BY <1>0, <2>2
  <2>3. CASE ~SessionInit
    <3>1. /\ CheckFault(m).res = Pass /\ ses' = CheckFault(m).ses
          /\ staged' = staged \cup {m} /\ session' = session \cup {m}
      BY <1>1, <2>1, <2>3 DEF ConfigFault
    <3>2. ses'.pinFlag \subseteq ses.pinFlag \cup {m.pin}
      BY <3>1, CheckFaultFacts DEF TypeInv, Checked
    <3> QED BY <2>1, <3>1, <3>2 DEF SessionStaged
  <2> QED BY <2>2, <2>3
<1>2. ASSUME NEW m \in LooseMsgs, ConfigLoose(m)
      PROVE  /\ session' \subseteq staged'
             /\ \A c \in ses'.pinFlag : \E n \in session' : n.pin = c
  BY <1>0, <1>2 DEF ConfigLoose, SessionStaged
<1>3. ASSUME NEW b \in TimeBytes, ConfigDone(b)
      PROVE  /\ session' \subseteq staged'
             /\ \A c \in ses'.pinFlag : \E n \in session' : n.pin = c
  BY <1>0, <1>3 DEF ConfigDone, TimeRefused, BuildFrame, SessionStaged
<1>9. ASSUME NEW b \in TimeBytes, CanDoneCheck(b)
      PROVE  /\ session' \subseteq staged'
             /\ \A c \in ses'.pinFlag : \E n \in session' : n.pin = c
  BY <1>0, <1>9 DEF CanDoneCheck, TimeRefused, BuildFrame, SessionStaged
<1>10. CASE CanDoneBuild
  BY <1>0, <1>10 DEF CanDoneBuild, BuildFrame
<1>4. CASE ResetRelay
  BY <1>0, <1>4 DEF ResetRelay, SessionStaged
<1>5. CASE FuseTest
  BY <1>0, <1>5 DEF FuseTest
<1>6. CASE SystemReset
  BY <1>0, <1>6 DEF SystemReset, SessionInit
<1>7. CASE OverTemperature
  BY <1>7 DEF OverTemperature
<1>8. CASE UNCHANGED vars
  BY <1>8 DEF vars, SessionStaged
<1> QED
  BY <1>1, <1>2, <1>3, <1>4, <1>5, <1>6, <1>7, <1>8, <1>9, <1>10 DEF Next

(* While the unit is healthy, no error path clears the registers and leaves *)
(* the duplicate checks behind, or the reverse.                             *)
THEOREM SessionStagedCorrect == Spec => []SessionStaged
<1>1. Init => TypeInv /\ SessionStaged
  BY InitialTypes DEF Init, TypeInv, TypeOK, SessionStaged, NoSession
<1> QED BY <1>1, TypeInvStep, SessionStagedStep, PTL DEF Spec

-----------------------------------------------------------------------------
AtMostOne(S) == \A x, y \in S : x = y

LEMMA AtMostOneCardinality ==
  ASSUME NEW S, AtMostOne(S) PROVE Cardinality(S) <= 1
<1>1. CASE S = {}
  BY <1>1, FS_EmptySet
<1>2. CASE S # {}
  <2>1. PICK x : x \in S BY <1>2
  <2>2. S = {x} BY <2>1 DEF AtMostOne
  <2>3. Cardinality({x}) = 1 BY FS_Singleton, Zenon
  <2> QED BY <2>2, <2>3
<1> QED BY <1>1, <1>2

LeakZero  == {m \in session : m.type = 0}
LeakOther == {m \in session : m.type # 0}

(* The flags FIU_Cmd1_Flag, FIU_Cmd2_Flag and FIU_Cmd3_Flag and the counter *)
(* FIU_Cmd2_Type0_Cnt say how much of its quota the session has used.       *)
QuotaInv ==
  /\ \A m \in session : m.cmd = ses.curCmd
  /\ ses.curCmd = 1 => AtMostOne(session) /\ (ses.cmd1 = 0 => session = {})
  /\ ses.curCmd = 3 => AtMostOne(session) /\ (ses.cmd3 = 0 => session = {})
  /\ ses.curCmd = 2 =>
       /\ IsFiniteSet(LeakZero) /\ Cardinality(LeakZero) <= ses.type0Cnt
       /\ AtMostOne(LeakOther) /\ (ses.cmd2 = 0 => LeakOther = {})

LEMMA QuotaInvImplies == TypeInv /\ QuotaInv => SessionQuota
<1> SUFFICES ASSUME TypeInv, QuotaInv PROVE SessionQuota
  OBVIOUS
<1>1. ses.curCmd \in {1, 3} => Cardinality(session) <= 1
  BY AtMostOneCardinality DEF QuotaInv
<1>2. ses.curCmd = 2 => Cardinality(LeakOther) <= 1
  BY AtMostOneCardinality DEF QuotaInv
<1>3. ses.curCmd = 2 => Cardinality(LeakZero) <= 2
  <2> SUFFICES ASSUME ses.curCmd = 2 PROVE Cardinality(LeakZero) <= 2
    OBVIOUS
  <2>1. ses.type0Cnt \in 0..2
    BY DEF TypeInv, TypeOK, Session
  <2>2. Cardinality(LeakZero) \in Nat /\ Cardinality(LeakZero) <= ses.type0Cnt
    BY FS_CardinalityType DEF QuotaInv
  <2> QED BY <2>1, <2>2
<1> QED BY <1>1, <1>2, <1>3 DEF SessionQuota, QuotaInv, LeakZero, LeakOther

(* A passed check, with the command added to the session or (after a failed *)
(* staging in the error state) not added.                                   *)
LEMMA QuotaChecked ==
  ASSUME TypeInv, QuotaInv, NEW m \in FaultMsgs, Checked(m, ses'),
         \/ session' = session
         \/ session' = session \cup {m} /\ (m.cmd = 3 => m.type # 3)
  PROVE  QuotaInv'
<1>1. /\ ses.curCmd \in {255, m.cmd} /\ ses'.curCmd = m.cmd
      /\ m.cmd \in 0..3 /\ m.cmd # 255
  BY FaultMsgsAssumption DEF Checked
<1>2. \A n \in session : n.cmd = m.cmd /\ ses.curCmd = m.cmd
  <2>1. session \subseteq FaultMsgs
    BY DEF TypeInv, TypeOK
  <2>2. \A n \in session : n.cmd \in 0..3 /\ n.cmd # 255
    BY <2>1, FaultMsgsAssumption
  <2> QED BY <1>1, <2>2 DEF QuotaInv
<1>3. \A n \in session' : n.cmd = ses'.curCmd
  BY <1>1, <1>2
<1>4. ses'.curCmd = 1 => AtMostOne(session') /\ (ses'.cmd1 = 0 => session' = {})
  <2> SUFFICES ASSUME m.cmd = 1
               PROVE  AtMostOne(session') /\ ses'.cmd1 = 1
    BY <1>1
  <2>1. ses.cmd1 = 0 /\ ses'.cmd1 = 1
    BY DEF Checked
  <2>2. session = {}
    BY <1>2, <2>1 DEF QuotaInv
  <2> QED BY <2>1, <2>2 DEF AtMostOne
<1>5. ses'.curCmd = 3 => AtMostOne(session') /\ (ses'.cmd3 = 0 => session' = {})
  <2> SUFFICES ASSUME m.cmd = 3
               PROVE  AtMostOne(session') /\ ses'.cmd3 = 1
    BY <1>1
  <2>1. ses'.cmd3 = 1
    BY DEF Checked
  <2>2. CASE session' = session
    BY <1>2, <2>1, <2>2 DEF QuotaInv, AtMostOne
  <2>3. CASE session' # session
    <3>1. m.type # 3 /\ session' = session \cup {m}
      BY <2>3
    <3>2. session = {}
      BY <1>2, <3>1 DEF QuotaInv, Checked
    <3> QED BY <2>1, <3>1, <3>2 DEF AtMostOne
  <2> QED BY <2>2, <2>3
<1>6. ses'.curCmd = 2 =>
        /\ IsFiniteSet(LeakZero') /\ Cardinality(LeakZero') <= ses'.type0Cnt
        /\ AtMostOne(LeakOther') /\ (ses'.cmd2 = 0 => LeakOther' = {})
  <2> SUFFICES ASSUME m.cmd = 2
               PROVE  /\ IsFiniteSet(LeakZero')
                      /\ Cardinality(LeakZero') <= ses'.type0Cnt
                      /\ AtMostOne(LeakOther') /\ ses'.cmd2 = 1
    BY <1>1
  <2>1. /\ IsFiniteSet(LeakZero) /\ Cardinality(LeakZero) <= ses.type0Cnt
        /\ Cardinality(LeakZero) \in Nat
        /\ ses.type0Cnt \in Nat
    <3>1. ses.type0Cnt \in Nat
      BY DEF TypeInv, TypeOK, Session
    <3>2. CASE ses.curCmd = 2
      BY <3>1, <3>2, FS_CardinalityType DEF QuotaInv
    <3>3. CASE ses.curCmd # 2
      <4>1. LeakZero = {}
        BY <1>2, <3>3 DEF LeakZero
      <4> QED BY <3>1, <4>1, FS_EmptySet
    <3> QED BY <3>2, <3>3
  <2>2. AtMostOne(LeakOther)
    BY <1>2 DEF QuotaInv, LeakOther, AtMostOne
  <2>3. ses'.cmd2 = 1
    BY DEF Checked
  <2>4. CASE session' = session
    <3>1. LeakZero' = LeakZero /\ LeakOther' = LeakOther
      BY <2>4 DEF LeakZero, LeakOther
    <3>2. ses'.type0Cnt = ses.type0Cnt \/ ses'.type0Cnt = ses.type0Cnt + 1
      BY DEF Checked
    <3>3. Cardinality(LeakZero) <= ses'.type0Cnt
      BY <2>1, <3>2
    <3> QED BY <2>1, <2>2, <2>3, <3>1, <3>3
  <2>5. CASE session' = session \cup {m} /\ m.type = 0
    <3>1. LeakZero' = LeakZero \cup {m} /\ LeakOther' = LeakOther
      BY <2>5 DEF LeakZero, LeakOther
    <3>2. ses'.type0Cnt = ses.type0Cnt + 1
      BY <2>5 DEF Checked
    <3>3. /\ IsFiniteSet(LeakZero \cup {m})
          /\ \/ Cardinality(LeakZero \cup {m}) = Cardinality(LeakZero)
             \/ Cardinality(LeakZero \cup {m}) = Cardinality(LeakZero) + 1
      BY <2>1, FS_AddElement
    <3>4. Cardinality(LeakZero \cup {m}) <= ses'.type0Cnt
      BY <2>1, <3>2, <3>3
    <3> QED BY <2>2, <2>3, <3>1, <3>3, <3>4
  <2>6. CASE session' = session \cup {m} /\ m.type # 0
    <3>1. LeakZero' = LeakZero /\ LeakOther' = LeakOther \cup {m}
      BY <2>6 DEF LeakZero, LeakOther
    <3>2. ses'.type0Cnt = ses.type0Cnt /\ ses.cmd2 = 0
      BY <2>6 DEF Checked
    <3>3. LeakOther = {}
      BY <1>2, <3>2 DEF QuotaInv, LeakOther
    <3>4. AtMostOne(LeakOther')
      BY <3>1, <3>3 DEF AtMostOne
    <3> QED BY <2>1, <2>3, <3>1, <3>2, <3>4
  <2> QED BY <2>4, <2>5, <2>6
<1> QED BY <1>3, <1>4, <1>5, <1>6 DEF QuotaInv

LEMMA QuotaStep == TypeInv /\ QuotaInv /\ [Next]_vars => QuotaInv'
<1> SUFFICES ASSUME TypeInv, QuotaInv, [Next]_vars PROVE QuotaInv'
  OBVIOUS
<1>a. ASSUME SessionInit PROVE QuotaInv'
  BY <1>a DEF SessionInit, NoSession, QuotaInv
<1>b. ASSUME UNCHANGED <<ses, session>> PROVE QuotaInv'
  BY <1>b DEF QuotaInv, LeakZero, LeakOther
<1>1. ASSUME NEW m \in FaultMsgs, ConfigFault(m) PROVE QuotaInv'
  <2>1. CASE SessionInit
    BY <1>a, <2>1
  <2>2. CASE ~SessionInit
    <3>1. /\ CheckFault(m).res = Pass /\ ses' = CheckFault(m).ses
          /\ \/ session' = session
             \/ session' = session \cup {m} /\ StageError(m) = Pass
      BY <1>1, <2>2 DEF ConfigFault
    <3>2. Checked(m, ses')
      BY <3>1, CheckFaultFacts DEF TypeInv
    <3>3. StageError(m) = Pass => (m.cmd = 3 => m.type # 3)
      BY StageErrorFacts
    <3> QED BY <3>1, <3>2, <3>3, QuotaChecked
  <2> QED BY <2>1, <2>2
<1>2. ASSUME NEW m \in LooseMsgs, ConfigLoose(m) PROVE QuotaInv'
  BY <1>a, <1>b, <1>2 DEF ConfigLoose
<1>3. ASSUME NEW b \in TimeBytes, ConfigDone(b) PROVE QuotaInv'
  BY <1>a, <1>b, <1>3 DEF ConfigDone, TimeRefused, BuildFrame
<1>9. ASSUME NEW b \in TimeBytes, CanDoneCheck(b) PROVE QuotaInv'
  BY <1>a, <1>b, <1>9 DEF CanDoneCheck, TimeRefused
<1>10. CASE CanDoneBuild
  BY <1>a, <1>10 DEF CanDoneBuild, BuildFrame
<1>4. CASE ResetRelay
  BY <1>a, <1>b, <1>4 DEF ResetRelay
<1>5. CASE FuseTest
  BY <1>a, <1>5 DEF FuseTest
<1>6. CASE SystemReset
  BY <1>a, <1>6 DEF SystemReset, SessionInit
<1>7. CASE OverTemperature
  BY <1>b, <1>7 DEF OverTemperature
<1>8. CASE UNCHANGED vars
  BY <1>b, <1>8 DEF vars
<1> QED
  BY <1>1, <1>2, <1>3, <1>4, <1>5, <1>6, <1>7, <1>8, <1>9, <1>10 DEF Next

(* No order of commands, errors and retries gets more into one session than *)
(* HostConfigCheck means to allow.                                          *)
THEOREM QuotaCorrect == Spec => []SessionQuota
<1>1. Init => TypeInv /\ QuotaInv
  BY InitialTypes DEF Init, TypeInv, TypeOK, QuotaInv, NoSession
<1> QED BY <1>1, TypeInvStep, QuotaStep, QuotaInvImplies, PTL DEF Spec

-----------------------------------------------------------------------------
(* Why a second late frame cannot come: a healthy unit has built none, and  *)
(* once g_Error is set the one frame still possible is that of the 0x05 the *)
(* CAN task has already tested; no further test can pass.                   *)
LateInv ==
  /\ late \in Nat
  /\ gError = 0 => late = 0
  /\ can = "checked" => late = 0
  /\ late <= 1

LEMMA LateStep == LateInv /\ [Next]_vars => LateInv'
<1> SUFFICES ASSUME LateInv, [Next]_vars PROVE LateInv'
  OBVIOUS
<1> USE DEF LateInv
<1>1. ASSUME NEW m \in FaultMsgs, ConfigFault(m) PROVE LateInv'
  BY <1>1 DEF ConfigFault
<1>2. ASSUME NEW m \in LooseMsgs, ConfigLoose(m) PROVE LateInv'
  BY <1>2 DEF ConfigLoose
<1>3. ASSUME NEW b \in TimeBytes, ConfigDone(b) PROVE LateInv'
  BY <1>3 DEF ConfigDone, TimeRefused, BuildFrame
<1>4. CASE ResetRelay
  BY <1>4 DEF ResetRelay
<1>5. CASE FuseTest
  BY <1>5 DEF FuseTest
<1>6. CASE SystemReset
  BY <1>6 DEF SystemReset
<1>7. CASE OverTemperature
  BY <1>7 DEF OverTemperature
<1>8. CASE UNCHANGED vars
  BY <1>8 DEF vars
<1>9. ASSUME NEW b \in TimeBytes, CanDoneCheck(b) PROVE LateInv'
  BY <1>9 DEF CanDoneCheck, TimeRefused
<1>10. CASE CanDoneBuild
  BY <1>10 DEF CanDoneBuild, BuildFrame
<1> QED
  BY <1>1, <1>2, <1>3, <1>4, <1>5, <1>6, <1>7, <1>8, <1>9, <1>10 DEF Next

(* However the two links and led_task interleave, at most one fault frame   *)
(* is built between an over-temperature error and the restart.              *)
THEOREM LateFramesBounded == Spec => []AtMostOneLateFrame
<1>1. Init => LateInv
  BY DEF Init, LateInv
<1>2. LateInv => AtMostOneLateFrame
  BY DEF LateInv, AtMostOneLateFrame
<1> QED BY <1>1, <1>2, LateStep, PTL DEF Spec
=============================================================================
