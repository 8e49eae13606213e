------------------------- MODULE RelayDriverProofs -------------------------
(***************************************************************************)
(* Proofs about RelayDriver, for any frames: the types for any links, and  *)
(* for links that do not overlap that the relays and the resistance are    *)
(* those of the frame.                                                     *)
(***************************************************************************)
EXTENDS RelayDriver, FiniteSetTheorems, WellFoundedInduction, TLAPS

(* A latch write is about relays of that latch.                             *)
Op == {o \in [n : Latches, add : SUBSET (0..215)] : o.add \subseteq RelaysAt(o.n)}

LinkState == [ph : Phases, cmd : 0..4 \cup {255}, n : Latches, clearing : BOOLEAN,
              chan : 0..72, val : 0..31, todo : Seq(Op)]

(* The values of a frame's resistance and of the resistor network.          *)
ResRange == 0..(256 * 256 - 1)
OhmRange == 0..(128 * 256 - 1)

AnyFrame == [cmd : 0..4 \cup {255}, chans : SUBSET Channels, byte12 : 0..31,
             res : ResRange]

TypeInv ==
  /\ at \in [Links -> LinkState]
  /\ buf \in Frames \cup {NoFrame}
  /\ last \in AnyFrame /\ before \in AnyFrame
  /\ dq \subseteq 0..215 /\ out \subseteq 0..223
  /\ bus \subseteq 0..15
  /\ lines \subseteq 1..17
  /\ ohm \in OhmRange

-----------------------------------------------------------------------------
(* How a frame is driven: it joins two ECUs, or is a leakage that the code  *)
(* does not know, or closes the same coils of each of its channels.         *)
Ecu(f)    == f.cmd = 2 /\ f.byte12 = 6
Silent(f) == f.cmd = 2 /\ f.byte12 \notin 0..7

Coils(f) ==
  IF f.cmd \in {1, 2} THEN 0..2
  ELSE IF f.byte12 \in (IF f.cmd = 0 THEN 2..5 ELSE 2..3) THEN {0, 1} ELSE {0}

(* The frame drives something at all.                                       *)
Drives(f) == f.chans # {} /\ ~Silent(f) /\ (Ecu(f) => Cardinality(f.chans) = 2)

EcuPair(f) == {Relay(Min(f.chans), 0), Relay(Min(f.chans), 1), Relay(Max(f.chans), 2)}

(* The relays the code closes for a frame, from the whole byte 12.          *)
Driven(f) ==
  IF f.cmd \notin 0..3 \/ Silent(f) THEN {}
  ELSE IF Ecu(f) THEN IF Cardinality(f.chans) = 2 THEN EcuPair(f) ELSE {}
  ELSE {Relay(c, k) : c \in f.chans, k \in Coils(f)}

(* The relays of the channels below c.                                      *)
Below(f, c) == {Relay(d, k) : d \in {e \in f.chans : e < c}, k \in Coils(f)}

(* The relays closed when the loop over the channels has come to c.         *)
Done(f, c) ==
  IF Silent(f) THEN {}
  ELSE IF Ecu(f) THEN IF c = 0 THEN {} ELSE EcuPair(f)
  ELSE Below(f, c)

(* The resistance once a channel is connected.                              *)
OhmOf(f) == IF f.cmd = 2 /\ f.byte12 \in 1..7 /\ f.res < 128 * 256 THEN f.res ELSE 0

Pending(todo) == UNION {todo[i].add : i \in 1..Len(todo)}

-----------------------------------------------------------------------------
(* The inductive invariant for link l while it is alone.                    *)
RestInv(l) ==
  at[l].ph \in {"idle", "start"} =>
    out = Driven(last) /\ dq = out /\ ohm = IF Drives(last) THEN OhmOf(last) ELSE 0

DriveInv(l) ==
  at[l].ph \in {"up", "down", "scan"} =>
    /\ buf = last /\ at[l].cmd = last.cmd /\ last.cmd # 255
    /\ ~at[l].clearing => last.cmd # Reset

(* tdreset_process has cleared the latches up to n.                         *)
ClearInv(l) ==
  at[l].ph \in {"up", "down"} /\ at[l].clearing =>
    /\ bus = {} /\ at[l].chan = 0
    /\ out \subseteq Driven(before)
    /\ \A r \in dq : r >= LatchWidth * (at[l].n + 1)
    /\ \A r \in out : r >= LatchWidth * (at[l].n + (IF at[l].ph = "up" THEN 0 ELSE 1))

(* A channel is being written: the shadow copy is one latch ahead.          *)
WriteInv(l) ==
  at[l].ph \in {"up", "down"} /\ ~at[l].clearing =>
    /\ at[l].chan > 0 /\ at[l].val = last.byte12 /\ Drives(last)
    /\ dq \cup Pending(at[l].todo) = Done(last, at[l].chan)
    /\ ohm \in {0, OhmOf(last)}
    /\ IF at[l].ph = "down" THEN out = dq
       ELSE /\ out \subseteq dq /\ dq \ RelaysAt(at[l].n) \subseteq out
            /\ bus = {BitOf(r) : r \in dq \cap RelaysAt(at[l].n)}

LoopInv(l) ==
  at[l].ph = "scan" =>
    /\ ~at[l].clearing
    /\ out = Done(last, at[l].chan) /\ dq = out
    /\ at[l].chan > 0 => Drives(last)
    /\ ohm = IF at[l].chan = 0 THEN 0 ELSE OhmOf(last)

LinkInv(l) == RestInv(l) /\ DriveInv(l) /\ ClearInv(l) /\ WriteInv(l) /\ LoopInv(l)

(* No link enters FiuCom_Process while another one is inside.               *)
OneAtATime == \A k, l \in Links : k = l \/ at[k].ph = "idle" \/ at[l].ph = "idle"

(* The invariant holds for the link that is alone inside.                   *)
UnitInv ==
  \A l \in Links : (\A k \in Links \ {l} : at[k].ph = "idle") => LinkInv(l)

-----------------------------------------------------------------------------
(* The operators of the model.                                              *)

(* A set of channels has a smallest and a largest one: the initial and the  *)
(* final segments of 0..71 are well ordered by inclusion.                   *)
LEMMA SegmentMin ==
  ASSUME NEW T \in SUBSET SUBSET Channels, T # {}
  PROVE  \E x \in T : \A y \in T : y \subseteq x => y = x
<1>0. 0 \in Int /\ 71 \in Int
  OBVIOUS
<1>1. IsFiniteSet(0..71)
  BY ONLY <1>0, FS_Interval
<1>2. IsWellFoundedOn(StrictSubsetOrdering(Channels), SUBSET Channels)
  BY <1>1, FS_StrictSubsetOrderingWellFounded, FS_FiniteSubsetsOfFinite DEF Channels
<1>3. PICK x \in T : \A y \in T : ~(<<y, x>> \in StrictSubsetOrdering(Channels))
  BY <1>2, WFMin
<1>4. \A y \in T : y \subseteq x => y = x
  BY <1>3 DEF StrictSubsetOrdering
<1> QED BY <1>4

LEMMA MinFacts ==
  ASSUME NEW S \in SUBSET Channels, S # {}
  PROVE  Min(S) \in S /\ \A c \in S : Min(S) <= c
<1> DEFINE T == {0..c : c \in S}
<1>0. \A c \in S : (0..c) \in SUBSET Channels
  BY DEF Channels
<1>1. T \in SUBSET SUBSET Channels /\ T # {}
  BY <1>0
<1>2. PICK x \in T : \A y \in T : y \subseteq x => y = x
  BY <1>1, SegmentMin
<1>3. PICK m \in S : x = 0..m
  OBVIOUS
<1>4. ASSUME NEW c \in S PROVE m <= c
  <2>1. m \in 0..71 /\ c \in 0..71
    BY DEF Channels
  <2>2. (0..c) \in T
    OBVIOUS
  <2>3. CASE c < m
    <3>1. (0..c) \subseteq 0..m /\ m \in 0..m /\ m \notin 0..c
      BY <2>1, <2>3
    <3> QED BY <1>2, <1>3, <2>2, <3>1
  <2> QED BY <2>1, <2>3
<1> QED BY <1>4 DEF Min

LEMMA MaxFacts ==
  ASSUME NEW S \in SUBSET Channels, S # {}
  PROVE  Max(S) \in S /\ \A c \in S : c <= Max(S)
<1> DEFINE T == {c..71 : c \in S}
<1>0. \A c \in S : (c..71) \in SUBSET Channels
  BY DEF Channels
<1>1. T \in SUBSET SUBSET Channels /\ T # {}
  BY <1>0
<1>2. PICK x \in T : \A y \in T : y \subseteq x => y = x
  BY <1>1, SegmentMin
<1>3. PICK m \in S : x = m..71
  OBVIOUS
<1>4. ASSUME NEW c \in S PROVE m >= c
  <2>1. m \in 0..71 /\ c \in 0..71
    BY DEF Channels
  <2>2. (c..71) \in T
    OBVIOUS
  <2>3. CASE c > m
    <3>1. (c..71) \subseteq m..71 /\ m \in m..71 /\ m \notin c..71
      BY <2>1, <2>3
    <3> QED BY <1>2, <1>3, <2>2, <3>1
  <2> QED BY <2>1, <2>3
<1>5. \A c \in S : c \in Int
  BY DEF Channels
<1>6. Max(S) \in S /\ \A c \in S : Max(S) >= c
  BY <1>4 DEF Max
<1> QED BY <1>5, <1>6

LEMMA RelayFacts ==
  ASSUME NEW c \in Channels, NEW k \in 0..2
  PROVE  Relay(c, k) \in 0..215
BY DEF Channels, Relay

(* Close and Rewrite write the latch that has their relay.                  *)
LEMMA OpFacts ==
  ASSUME NEW r \in 0..215
  PROVE  Close(r) \in Op /\ Rewrite(r) \in Op
<1>1. LatchOf(r) \in 0..13 /\ r \in RelaysAt(LatchOf(r))
  BY DEF LatchOf, RelaysAt, LatchWidth
<1> QED BY <1>1 DEF Close, Rewrite, Op, Latches

(* The bits of one latch are its relays.                                    *)
LEMMA BitFacts ==
  ASSUME NEW n \in Latches
  PROVE  /\ \A r \in RelaysAt(n) : BitOf(r) \in 0..15
         /\ \A r, s \in RelaysAt(n) : BitOf(r) = BitOf(s) => r = s
<1>1. ASSUME NEW r \in RelaysAt(n) PROVE BitOf(r) = r - 16 * n /\ r \in Int
  BY <1>1 DEF RelaysAt, BitOf, LatchWidth, Latches
<1>2. \A r \in RelaysAt(n) : r - 16 * n \in 0..15
  BY DEF RelaysAt, LatchWidth, Latches
<1> QED BY <1>1, <1>2 DEF Latches

(* What is left to write is the next latch and the rest.                    *)
LEMMA PendingFacts ==
  ASSUME NEW s \in Seq(Op), s # <<>>
  PROVE  /\ Head(s) \in Op /\ Tail(s) \in Seq(Op)
         /\ Pending(s) = Head(s).add \cup Pending(Tail(s))
<1>1. Head(s) \in Op /\ Tail(s) \in Seq(Op)
  OBVIOUS
<1>2. Len(s) \in Nat /\ Len(s) >= 1 /\ Head(s) = s[1] /\ Len(Tail(s)) = Len(s) - 1
  OBVIOUS
<1>3. \A i \in 1..Len(Tail(s)) : Tail(s)[i] = s[i + 1]
  OBVIOUS
<1>4. ASSUME NEW r \in Pending(s) PROVE r \in Head(s).add \cup Pending(Tail(s))
  <2>1. PICK i \in 1..Len(s) : r \in s[i].add
    BY DEF Pending
  <2>2. CASE i = 1
    BY <1>2, <2>1, <2>2
  <2>3. CASE i # 1
    <3>1. i - 1 \in 1..Len(Tail(s)) /\ Tail(s)[i - 1] = s[i]
      BY <1>2, <1>3, <2>3
    <3> QED BY <2>1, <3>1 DEF Pending
  <2> QED BY <2>2, <2>3
<1>5. ASSUME NEW r \in Pending(Tail(s)) PROVE r \in Pending(s)
  <2>1. PICK i \in 1..Len(Tail(s)) : r \in Tail(s)[i].add
    BY DEF Pending
  <2>2. i + 1 \in 1..Len(s) /\ Tail(s)[i] = s[i + 1]
    BY <1>2, <1>3
  <2> QED BY <2>1, <2>2 DEF Pending
<1>6. Head(s).add \subseteq Pending(s)
  BY <1>2 DEF Pending
<1> QED BY <1>1, <1>4, <1>5, <1>6

LEMMA PendingEmpty == Pending(<<>>) = {}
BY DEF Pending

(* The latch writes of a channel close its coils.                           *)
LEMMA WritesFacts ==
  ASSUME NEW f \in AnyFrame, NEW c \in Channels
  PROVE  /\ Writes(f.cmd, c, f.byte12) \in Seq(Op)
         /\ Writes(f.cmd, c, f.byte12) # <<>>
         /\ Pending(Writes(f.cmd, c, f.byte12)) = {Relay(c, k) : k \in Coils(f)}
<1> DEFINE R(k) == Relay(c, k)
           C(k) == Close(R(k))
<1>1. /\ C(0) \in Op /\ C(1) \in Op /\ C(2) \in Op
      /\ \A k : C(k).add = {R(k)}
  <2>1. R(0) \in 0..215 /\ R(1) \in 0..215 /\ R(2) \in 0..215
    BY RelayFacts
  <2>2. \A k : C(k).add = {R(k)}
    BY DEF Close
  <2> QED BY <2>1, <2>2, OpFacts
<1> HIDE DEF R, C
<1>2. /\ Pending(<<C(0), C(1), C(2)>>) = {R(0), R(1), R(2)}
      /\ Pending(<<C(0), C(1)>>) = {R(0), R(1)}
      /\ Pending(<<C(0)>>) = {R(0)}
  <2> DEFINE s3 == <<C(0), C(1), C(2)>>
             s2 == <<C(0), C(1)>>
             s1 == <<C(0)>>
  <2>1. Len(s3) = 3 /\ s3[1] = C(0) /\ s3[2] = C(1) /\ s3[3] = C(2)
    OBVIOUS
  <2>2. Len(s2) = 2 /\ s2[1] = C(0) /\ s2[2] = C(1)
    OBVIOUS
  <2>3. Len(s1) = 1 /\ s1[1] = C(0)
    OBVIOUS
  <2> HIDE DEF s3, s2, s1
  <2>4. 1..3 = {1, 2, 3} /\ 1..2 = {1, 2} /\ 1..1 = {1}
    OBVIOUS
  <2>5. Pending(s3) = {R(0), R(1), R(2)}
    BY <1>1, <2>1, <2>4 DEF Pending
  <2>6. Pending(s2) = {R(0), R(1)}
    BY <1>1, <2>2, <2>4 DEF Pending
  <2>7. Pending(s1) = {R(0)}
    BY <1>1, <2>3, <2>4 DEF Pending
  <2> QED BY <2>5, <2>6, <2>7 DEF s3, s2, s1
<1>3. /\ {R(k) : k \in 0..2} = {R(0), R(1), R(2)}
      /\ {R(k) : k \in {0, 1}} = {R(0), R(1)}
      /\ {R(k) : k \in {0}} = {R(0)}
  <2>1. 0..2 = {0, 1, 2}
    OBVIOUS
  <2> QED BY <2>1
<1>4. \/ Coils(f) = 0..2 /\ Writes(f.cmd, c, f.byte12) = <<C(0), C(1), C(2)>>
      \/ Coils(f) = {0, 1} /\ Writes(f.cmd, c, f.byte12) = <<C(0), C(1)>>
      \/ Coils(f) = {0} /\ Writes(f.cmd, c, f.byte12) = <<C(0)>>
  <2> DEFINE short == f.byte12 \in (IF f.cmd = 0 THEN 2..5 ELSE 2..3)
  <2>1. CASE f.cmd \in {1, 2}
    BY <2>1 DEF Coils, Writes, R, C
  <2>2. CASE f.cmd \notin {1, 2} /\ short
    BY <2>2 DEF Coils, Writes, R, C
  <2>3. CASE f.cmd \notin {1, 2} /\ ~short
    BY <2>3 DEF Coils, Writes, R, C
  <2> QED BY <2>1, <2>2, <2>3
<1>5. {Relay(c, k) : k \in Coils(f)} = {R(k) : k \in Coils(f)}
  BY DEF R
<1>6. /\ <<C(0), C(1), C(2)>> \in Seq(Op) /\ <<C(0), C(1), C(2)>> # <<>>
      /\ <<C(0), C(1)>> \in Seq(Op) /\ <<C(0), C(1)>> # <<>>
      /\ <<C(0)>> \in Seq(Op) /\ <<C(0)>> # <<>>
  BY <1>1
<1> QED BY <1>2, <1>3, <1>4, <1>5, <1>6

LEMMA EcuFacts ==
  ASSUME NEW a \in Channels, NEW b \in Channels
  PROVE  /\ WritesEcuEcu(a, b) \in Seq(Op) /\ WritesEcuEcu(a, b) # <<>>
         /\ Pending(WritesEcuEcu(a, b)) = {Relay(a, 0), Relay(a, 1), Relay(b, 2)}
<1> DEFINE c0 == Close(Relay(a, 0))
           c1 == Close(Relay(a, 1))
           c2 == Rewrite(Relay(b, 0))
           c3 == Close(Relay(b, 2))
           s  == <<c0, c1, c2, c3>>
<1>1. /\ c0 \in Op /\ c1 \in Op /\ c2 \in Op /\ c3 \in Op
      /\ c0.add = {Relay(a, 0)} /\ c1.add = {Relay(a, 1)}
      /\ c2.add = {} /\ c3.add = {Relay(b, 2)}
  <2>1. /\ Relay(a, 0) \in 0..215 /\ Relay(a, 1) \in 0..215
        /\ Relay(b, 0) \in 0..215 /\ Relay(b, 2) \in 0..215
    BY RelayFacts
  <2> QED BY <2>1, OpFacts DEF Close, Rewrite
<1> HIDE DEF c0, c1, c2, c3
<1>2. s \in Seq(Op) /\ s # <<>> /\ Len(s) = 4 /\ s[1] = c0 /\ s[2] = c1 /\ s[3] = c2 /\ s[4] = c3
  BY <1>1
<1>3. WritesEcuEcu(a, b) = s
  BY DEF WritesEcuEcu, c0, c1, c2, c3
<1> HIDE DEF s
<1>4. 1..4 = {1, 2, 3, 4}
  OBVIOUS
<1>5. Pending(s) = {Relay(a, 0), Relay(a, 1), Relay(b, 2)}
  BY <1>1, <1>2, <1>4 DEF Pending
<1> QED BY <1>2, <1>3, <1>5

(* The settings of HV_FunRelay_Set and the lines they switch.               *)
LEMMA HvFacts ==
  /\ \A cmd, v : v \in 0..31 => HvSetting(cmd, v) \in 0..11
  /\ \A h \in 1..11 : HvOn(h) \subseteq 1..17
<1>1. \A cmd, v : v \in 0..31 => HvSetting(cmd, v) \in 0..11
  BY DEF HvSetting
<1>2. ASSUME NEW h \in 1..11 PROVE HvOn(h) \subseteq 1..17
  <2>1. h \in {1, 2, 3, 4, 5, 6, 7, 8, 9, 10, 11}
    OBVIOUS
  <2> QED BY <2>1 DEF HvOn
<1> QED BY <1>1, <1>2

-----------------------------------------------------------------------------
(* The types, for any links.                                                *)

LEMMA BufType ==
  ASSUME TypeInv
  PROVE  buf \in AnyFrame
<1>1. Frames \subseteq AnyFrame
  BY FramesAssumption DEF AnyFrame, ResRange
<1>2. NoFrame \in AnyFrame
  BY DEF NoFrame, AnyFrame, ResRange
<1> QED BY <1>1, <1>2 DEF TypeInv

LEMMA IdleType == Idle \in LinkState
BY DEF Idle, LinkState, Phases, Latches

(* What a round of the loop leads to, whatever the buffer holds by now.     *)
LEMMA NextWritesType ==
  ASSUME TypeInv, NEW l \in Links
  PROVE  NextWrites(l).chan \in 0..72 /\ NextWrites(l).ops \in Seq(Op)
<1> DEFINE left == {c \in buf.chans : c >= at[l].chan}
           g == [cmd |-> at[l].cmd, chans |-> {}, byte12 |-> buf.byte12, res |-> 0]
<1>1. buf \in AnyFrame /\ at[l] \in LinkState
  BY BufType DEF TypeInv
<1>2. left \in SUBSET Channels
  BY <1>1 DEF AnyFrame
<1>3. g \in AnyFrame
  <2>1. at[l].cmd \in 0..4 \cup {255} /\ buf.byte12 \in 0..31
    BY <1>1 DEF AnyFrame, LinkState
  <2>2. 0 \in ResRange
    BY DEF ResRange
  <2> QED BY <2>1, <2>2 DEF AnyFrame
<1>4. CASE left = {}
  <2>1. NextWrites(l) = [chan |-> 72, ops |-> <<>>]
    BY <1>4 DEF NextWrites
  <2> QED BY <2>1
<1>5. CASE left # {}
  <2>1. Min(left) \in Channels /\ Max(left) \in Channels
    BY <1>2, <1>5, MinFacts, MaxFacts
  <2>2. Writes(at[l].cmd, Min(left), buf.byte12) \in Seq(Op)
    <3>1. Writes(g.cmd, Min(left), g.byte12) \in Seq(Op)
      BY <1>3, <2>1, WritesFacts
    <3> QED BY <3>1
  <2>3. WritesEcuEcu(Min(left), Max(left)) \in Seq(Op)
    BY <2>1, EcuFacts
  <2>4. Min(left) + 1 \in 0..72
    <3> HIDE DEF left
    <3> QED BY <2>1 DEF Channels
  <2>5. \/ NextWrites(l) = [chan |-> 72, ops |-> <<>>]
        \/ NextWrites(l) = [chan |-> 72, ops |-> WritesEcuEcu(Min(left), Max(left))]
        \/ NextWrites(l) = [chan |-> Min(left) + 1,
                            ops |-> Writes(at[l].cmd, Min(left), buf.byte12)]
    BY DEF NextWrites
  <2>6. <<>> \in Seq(Op) /\ 72 \in 0..72
    OBVIOUS
  <2> HIDE DEF left
  <2>7. ASSUME NEW c \in 0..72, NEW o \in Seq(Op), NextWrites(l) = [chan |-> c, ops |-> o]
        PROVE  NextWrites(l).chan \in 0..72 /\ NextWrites(l).ops \in Seq(Op)
    BY <2>7
  <2> QED BY <2>2, <2>3, <2>4, <2>5, <2>6, <2>7
<1> QED BY <1>4, <1>5

LEMMA PutOnBusType ==
  ASSUME TypeInv, NEW o \in Op, PutOnBus(o)
  PROVE  dq' \subseteq 0..215 /\ bus' \subseteq 0..15
<1>1. o.n \in Latches /\ o.add \subseteq 0..215
  BY DEF Op
<1>2. dq' \subseteq 0..215
  BY <1>1 DEF PutOnBus, TypeInv
<1>3. bus' \subseteq 0..15
  BY <1>1, BitFacts DEF PutOnBus
<1> QED BY <1>2, <1>3

LEMMA PhaseType ==
  ASSUME at \in [Links -> LinkState], NEW l \in Links, NEW p \in Phases
  PROVE  [at EXCEPT ![l].ph = p] \in [Links -> LinkState]
<1>1. at[l] \in LinkState
  OBVIOUS
<1>2. [at[l] EXCEPT !.ph = p] \in LinkState
  BY <1>1 DEF LinkState
<1>3. [at EXCEPT ![l].ph = p] = [at EXCEPT ![l] = [at[l] EXCEPT !.ph = p]]
  OBVIOUS
<1> QED BY <1>2, <1>3

LEMMA TypeBegin ==
  ASSUME TypeInv, NEW l \in Links, NEW f \in Frames, Begin(l, f)
  PROVE  TypeInv'
<1>1. at' \in [Links -> LinkState]
  BY PhaseType DEF Begin, TypeInv, Phases
<1> QED BY <1>1 DEF Begin, TypeInv

LEMMA TypeDispatch ==
  ASSUME TypeInv, NEW l \in Links, Dispatch(l)
  PROVE  TypeInv'
<1>1. buf \in AnyFrame
  BY BufType
<1>2. [Idle EXCEPT !.ph = "up", !.cmd = buf.cmd, !.clearing = TRUE] \in LinkState
  <2>1. buf.cmd \in 0..4 \cup {255}
    BY <1>1 DEF AnyFrame
  <2>2. "up" \in Phases
    BY DEF Phases
  <2> QED BY <2>1, <2>2, IdleType DEF LinkState
<1>3. at' \in [Links -> LinkState]
  BY <1>2, IdleType DEF Dispatch, TypeInv
<1>4. /\ dq' \subseteq 0..215 /\ bus' \subseteq 0..15
      /\ last' \in AnyFrame /\ before' \in AnyFrame
  BY <1>1 DEF Dispatch, TypeInv, PutZero
<1> QED BY <1>3, <1>4 DEF Dispatch, TypeInv

LEMMA TypeClock ==
  ASSUME TypeInv, NEW l \in Links, Clock(l)
  PROVE  TypeInv'
<1>1. at' \in [Links -> LinkState]
  BY PhaseType DEF Clock, TypeInv, Phases
<1>2. at[l].n \in 0..13
  BY DEF TypeInv, LinkState, Latches
<1>3. RelaysAt(at[l].n) \subseteq 0..223
  BY <1>2 DEF RelaysAt, LatchWidth
<1>4. out' \subseteq 0..223
  BY <1>3 DEF Clock, TypeInv
<1> QED BY <1>1, <1>4 DEF Clock, TypeInv

LEMMA TypeClearNext ==
  ASSUME TypeInv, NEW l \in Links, ClearNext(l)
  PROVE  TypeInv'
<1>1. at[l] \in LinkState /\ at[l].n \in 0..13 /\ at[l].n < 13
  BY DEF ClearNext, TypeInv, LinkState, Latches
<1>2. at[l].n + 1 \in Latches
  BY <1>1 DEF Latches
<1>3. [at[l] EXCEPT !.ph = "up", !.n = @ + 1] \in LinkState
  BY <1>1, <1>2 DEF LinkState, Phases
<1>4. at' = [at EXCEPT ![l] = [at[l] EXCEPT !.ph = "up", !.n = @ + 1]]
  BY <1>1 DEF ClearNext, TypeInv
<1>5. at' \in [Links -> LinkState]
  BY <1>3, <1>4 DEF TypeInv
<1>6. dq' \subseteq 0..215 /\ bus' \subseteq 0..15
  BY DEF ClearNext, PutZero, TypeInv
<1> QED BY <1>5, <1>6 DEF ClearNext, TypeInv

LEMMA TypeClearDone ==
  ASSUME TypeInv, NEW l \in Links, ClearDone(l)
  PROVE  TypeInv'
<1>1. at[l] \in LinkState
  BY DEF TypeInv
<1>2. [at[l] EXCEPT !.ph = "scan", !.clearing = FALSE] \in LinkState
  BY <1>1 DEF LinkState, Phases
<1>3. at' = [at EXCEPT ![l] = IF at[l].cmd = Reset THEN Idle
                              ELSE [at[l] EXCEPT !.ph = "scan", !.clearing = FALSE]]
  BY DEF ClearDone, TypeInv
<1>4. at' \in [Links -> LinkState]
  <2> DEFINE next == IF at[l].cmd = Reset THEN Idle
                     ELSE [at[l] EXCEPT !.ph = "scan", !.clearing = FALSE]
  <2>1. next \in LinkState
    BY <1>2, IdleType, Zenon
  <2> HIDE DEF next
  <2>2. at' = [at EXCEPT ![l] = next] /\ at \in [Links -> LinkState]
    BY <1>3, Zenon DEF TypeInv, next
  <2> QED BY <2>1, <2>2
<1>5. 0 \in OhmRange
  BY DEF OhmRange
<1> QED BY <1>4, <1>5 DEF ClearDone, TypeInv

LEMMA TypeScan ==
  ASSUME TypeInv, NEW l \in Links, Scan(l)
  PROVE  TypeInv'
<1> DEFINE nw == NextWrites(l)
<1>1. nw.chan \in 0..72 /\ nw.ops \in Seq(Op)
  BY NextWritesType
<1>2. at[l] \in LinkState /\ buf.byte12 \in 0..31
  BY BufType DEF TypeInv, AnyFrame
<1>3. CASE nw.ops = <<>>
  <2>1. /\ at' = [at EXCEPT ![l] = Idle] /\ buf' = NoFrame
        /\ UNCHANGED <<dq, bus, out, lines, ohm, last, before>>
    BY <1>3 DEF Scan
  <2>2. at' \in [Links -> LinkState]
    BY <2>1, IdleType DEF TypeInv
  <2> QED BY <2>1, <2>2 DEF TypeInv
<1>4. CASE nw.ops # <<>>
  <2> HIDE DEF nw
  <2>1. Head(nw.ops) \in Op /\ Tail(nw.ops) \in Seq(Op)
    BY <1>1, <1>4, PendingFacts
  <2>2. Head(nw.ops).n \in Latches
    BY <2>1 DEF Op
  <2>3. [at[l] EXCEPT !.ph = "up", !.n = Head(nw.ops).n, !.chan = nw.chan,
                      !.val = buf.byte12, !.todo = Tail(nw.ops)] \in LinkState
    BY <1>1, <1>2, <2>1, <2>2 DEF LinkState, Phases
  <2>4. /\ at' = [at EXCEPT ![l] = [at[l] EXCEPT !.ph = "up", !.n = Head(nw.ops).n,
                     !.chan = nw.chan, !.val = buf.byte12, !.todo = Tail(nw.ops)]]
        /\ PutOnBus(Head(nw.ops))
        /\ UNCHANGED <<buf, out, lines, ohm, last, before>>
    BY <1>4 DEF Scan, nw
  <2>5. at' \in [Links -> LinkState]
    BY <2>3, <2>4 DEF TypeInv
  <2>6. dq' \subseteq 0..215 /\ bus' \subseteq 0..15
    BY <2>1, <2>4, PutOnBusType
  <2> QED BY <2>4, <2>5, <2>6 DEF TypeInv
<1> QED BY <1>3, <1>4

LEMMA TypeWriteNext ==
  ASSUME TypeInv, NEW l \in Links, WriteNext(l)
  PROVE  TypeInv'
<1> DEFINE todo == at[l].todo
<1>1. at[l] \in LinkState /\ todo \in Seq(Op) /\ todo # <<>>
  BY DEF WriteNext, TypeInv, LinkState
<1>2. Head(todo) \in Op /\ Tail(todo) \in Seq(Op)
  BY <1>1, PendingFacts
<1>3. Head(todo).n \in Latches
  BY <1>2 DEF Op
<1>4. [at[l] EXCEPT !.ph = "up", !.n = Head(todo).n, !.todo = Tail(todo)] \in LinkState
  BY <1>1, <1>2, <1>3 DEF LinkState, Phases
<1>5. at' = [at EXCEPT ![l] = [at[l] EXCEPT !.ph = "up", !.n = Head(todo).n,
                                            !.todo = Tail(todo)]]
  BY DEF WriteNext
<1>6. at' \in [Links -> LinkState]
  BY <1>4, <1>5 DEF TypeInv
<1>7. dq' \subseteq 0..215 /\ bus' \subseteq 0..15
  BY <1>2, PutOnBusType DEF WriteNext
<1> QED BY <1>6, <1>7 DEF WriteNext, TypeInv

LEMMA ResistanceType ==
  ASSUME NEW v \in ResRange, ohm \in OhmRange
  PROVE  Resistance_select(v) \in OhmRange
<1> DEFINE a == 128 * 256
           b == 256 * 256
<1>1. a \in Int /\ b \in Int
  BY ONLY TRUE
<1>2. v \in 0..(b - 1)
  BY Zenon DEF ResRange
<1>3. ohm \in 0..(a - 1)
  BY Zenon DEF OhmRange
<1>4. Resistance_select(v) = IF v < a THEN v ELSE ohm
  BY DEF Resistance_select
<1>5. SUFFICES Resistance_select(v) \in 0..(a - 1)
  BY Zenon DEF OhmRange
<1> HIDE DEF a, b
<1>6. CASE v < a
  BY ONLY <1>1, <1>2, <1>4, <1>6
<1>7. CASE ~(v < a)
  BY ONLY <1>3, <1>4, <1>7
<1> QED BY <1>6, <1>7

LEMMA TypeConnect ==
  ASSUME TypeInv, NEW l \in Links, Connect(l)
  PROVE  TypeInv'
<1> DEFINE h == HvSetting(at[l].cmd, at[l].val)
<1>1. at' \in [Links -> LinkState]
  BY PhaseType DEF Connect, TypeInv, Phases
<1>2. h \in 0..11
  <2>1. at[l].val \in 0..31
    BY DEF TypeInv, LinkState
  <2> QED BY <2>1, HvFacts
<1>3. lines' \subseteq 1..17
  <2>1. h # 0 => HV_FunRelay_Set(h) \subseteq 1..17
    <3> SUFFICES ASSUME h # 0 PROVE HV_FunRelay_Set(h) \subseteq 1..17
      OBVIOUS
    <3>1. h \in 1..11
      BY <1>2
    <3> HIDE DEF h
    <3>2. HvOn(h) \subseteq 1..17
      BY <3>1, HvFacts
    <3>3. lines \subseteq 1..17
      BY DEF TypeInv
    <3> QED BY <3>2, <3>3, Zenon DEF HV_FunRelay_Set
  <2>2. \A v : HI_FunRelay_Set(v) \subseteq 1..17
    BY DEF HI_FunRelay_Set, TypeInv
  <2>3. \/ lines' = lines
        \/ h # 0 /\ lines' = HV_FunRelay_Set(h)
        \/ lines' = HI_FunRelay_Set(at[l].val - 1)
    BY DEF Connect
  <2> HIDE DEF h
  <2>4. CASE lines' = lines
    BY <2>4 DEF TypeInv
  <2>5. CASE h # 0 /\ lines' = HV_FunRelay_Set(h)
    BY <2>1, <2>5
  <2>6. CASE lines' = HI_FunRelay_Set(at[l].val - 1)
    BY <2>2, <2>6
  <2> QED BY <2>3, <2>4, <2>5, <2>6
<1>4. ohm' \in OhmRange
  <2>1. buf.res \in ResRange
    BY BufType DEF AnyFrame
  <2>2. ohm' = ohm \/ ohm' = Resistance_select(buf.res)
    BY DEF Connect
  <2>3. ohm \in OhmRange
    BY DEF TypeInv
  <2>4. Resistance_select(buf.res) \in OhmRange
    BY <2>1, <2>3, ResistanceType
  <2> QED BY <2>2, <2>3, <2>4
<1> QED BY <1>1, <1>3, <1>4 DEF Connect, TypeInv

LEMMA TypeInit == Init => TypeInv
<1>1. [NoFrame EXCEPT !.cmd = Reset] \in AnyFrame
  <2>1. [NoFrame EXCEPT !.cmd = Reset] = [cmd |-> 4, chans |-> {}, byte12 |-> 0, res |-> 0]
    BY DEF NoFrame, Reset
  <2>2. [cmd |-> 4, chans |-> {}, byte12 |-> 0, res |-> 0] \in AnyFrame
    BY DEF AnyFrame, ResRange
  <2> QED BY <2>1, <2>2
<1>2. 0 \in OhmRange
  BY DEF OhmRange
<1> QED BY <1>1, <1>2, IdleType DEF Init, TypeInv

LEMMA TypeStep == TypeInv /\ [Next]_vars => TypeInv'
<1> SUFFICES ASSUME TypeInv, [Next]_vars PROVE TypeInv'
  OBVIOUS
<1>1. ASSUME NEW l \in Links, NEW f \in Frames, Begin(l, f) PROVE TypeInv'
  BY <1>1, TypeBegin
<1>2. ASSUME NEW l \in Links, FiuCom_Process(l) PROVE TypeInv'
  BY <1>2, TypeDispatch, TypeClock, TypeClearNext, TypeClearDone, TypeScan, TypeWriteNext,
     TypeConnect DEF FiuCom_Process
<1>3. CASE UNCHANGED vars
  BY <1>3 DEF vars, TypeInv
<1> QED BY <1>1, <1>2, <1>3 DEF Next

-----------------------------------------------------------------------------
(* The relays a frame asks for, and how the loop comes to them.             *)

LEMMA CoilsFacts ==
  ASSUME NEW f
  PROVE  Coils(f) \subseteq 0..2
BY DEF Coils

(* What the code closes, in the terms of the loop.                          *)
LEMMA DrivenFacts ==
  ASSUME NEW f \in AnyFrame
  PROVE  /\ f.cmd \in {4, 255} => Driven(f) = {}
         /\ Silent(f) => Driven(f) = {}
         /\ Ecu(f) => Driven(f) = IF Cardinality(f.chans) = 2 THEN EcuPair(f) ELSE {}
         /\ f.cmd \in 0..3 /\ ~Silent(f) /\ ~Ecu(f) =>
              Driven(f) = {Relay(c, k) : c \in f.chans, k \in Coils(f)}
<1>1. Ecu(f) => f.cmd \in 0..3 /\ ~Silent(f)
  BY DEF Ecu, Silent
<1>2. f.cmd \in {4, 255} => f.cmd \notin 0..3
  OBVIOUS
<1> QED BY <1>1, <1>2 DEF Driven

(* The whole byte 12 against its fault type.                                *)
LEMMA ByteFacts ==
  ASSUME NEW f \in AnyFrame
  PROVE  /\ FaultType(f) \in 0..15
         /\ f.byte12 \in 0..15 => FaultType(f) = f.byte12
         /\ ~WithLoad(f) => f.byte12 \in 0..15
<1>1. f.byte12 \in 0..31
  BY DEF AnyFrame
<1> QED BY <1>1 DEF FaultType, WithLoad

(* The code closes no relay that the documents do not ask for, and with a   *)
(* listed type and no load all of them.                                     *)
LEMMA DrivenAsked ==
  ASSUME NEW f \in AnyFrame
  PROVE  /\ Driven(f) \subseteq Asked(f)
         /\ Listed(f) /\ ~WithLoad(f) => Driven(f) = Asked(f)
<1> DEFINE all(ks) == {Relay(c, k) : c \in f.chans, k \in ks}
           t == FaultType(f)
           b == f.byte12
<1>1. /\ f.cmd \in {0, 1, 2, 3, 4, 255} /\ b \in 0..31 /\ t \in 0..15
      /\ (b \in 0..15 => t = b) /\ (~WithLoad(f) => t = b)
  BY ByteFacts DEF AnyFrame
<1> HIDE DEF t, b
<1>2. CASE f.cmd \in {4, 255}
  BY <1>2 DEF Driven, Asked
<1>3. CASE f.cmd = 0
  <2>1. /\ Driven(f) = all(IF b \in 2..5 THEN {0, 1} ELSE {0})
        /\ Asked(f) = all(IF t \in 2..5 THEN {0, 1} ELSE {0})
    BY <1>3 DEF Driven, Asked, Silent, Ecu, Coils, t, b
  <2>2. b \in 2..5 => t \in 2..5
    BY <1>1
  <2> QED BY <1>1, <2>1, <2>2
<1>4. CASE f.cmd = 3
  <2>1. /\ Driven(f) = all(IF b \in 2..3 THEN {0, 1} ELSE {0})
        /\ Asked(f) = all(IF t \in 2..3 THEN {0, 1} ELSE {0})
    BY <1>4 DEF Driven, Asked, Silent, Ecu, Coils, t, b
  <2>2. b \in 2..3 => t \in 2..3
    BY <1>1
  <2> QED BY <1>1, <2>1, <2>2
<1>5. CASE f.cmd = 1
  BY <1>5 DEF Driven, Asked, Silent, Ecu, Coils
<1>6. CASE f.cmd = 2
  <2>1. /\ Driven(f) = IF b \notin 0..7 THEN {}
                       ELSE IF b # 6 THEN all(0..2)
                       ELSE IF Cardinality(f.chans) = 2 THEN EcuPair(f) ELSE {}
        /\ Asked(f) = IF t > 7 THEN {}
                      ELSE IF t # 6 THEN all(0..2)
                      ELSE IF Cardinality(f.chans) = 2 THEN EcuPair(f) ELSE {}
    BY <1>6 DEF Driven, Asked, Silent, Ecu, Coils, EcuPair, t, b
  <2>2. /\ (b \in 0..7 => t = b)
        /\ (t > 7 => b \notin 0..7) /\ (~WithLoad(f) => t = b /\ (t > 7 <=> b \notin 0..7))
    BY <1>1
  <2> HIDE DEF all
  <2>3. CASE b \notin 0..7
    BY <2>1, <2>2, <2>3
  <2>4. CASE b \in 0..7
    BY <1>1, <2>1, <2>2, <2>4
  <2> QED BY <2>3, <2>4
<1> QED BY <1>1, <1>2, <1>3, <1>4, <1>5, <1>6

LEMMA CardZero == Cardinality({}) = 0
BY FS_EmptySet

LEMMA EcuPairType ==
  ASSUME NEW f \in AnyFrame, Cardinality(f.chans) = 2
  PROVE  EcuPair(f) \subseteq 0..215
<1>1. f.chans \in SUBSET Channels /\ f.chans # {}
  <2>1. f.chans \in SUBSET Channels
    BY DEF AnyFrame
  <2>2. f.chans # {}
    BY CardZero
  <2> QED BY <2>1, <2>2
<1>2. Min(f.chans) \in Channels /\ Max(f.chans) \in Channels
  BY <1>1, MinFacts, MaxFacts
<1> QED BY <1>2, RelayFacts DEF EcuPair

LEMMA DrivenType ==
  ASSUME NEW f \in AnyFrame
  PROVE  Driven(f) \subseteq 0..215
<1>1. f.cmd \in 0..3 \cup {4, 255} /\ f.chans \subseteq Channels
  <2>1. f.cmd \in 0..4 \cup {255} /\ f.chans \in SUBSET Channels
    BY DEF AnyFrame
  <2> QED BY <2>1
<1>2. {Relay(c, k) : c \in f.chans, k \in Coils(f)} \subseteq 0..215
  BY <1>1, RelayFacts, CoilsFacts
<1>3. CASE f.cmd \in {4, 255} \/ Silent(f)
  BY <1>3, DrivenFacts
<1>4. CASE Ecu(f)
  BY <1>4, DrivenFacts, EcuPairType
<1>5. CASE f.cmd \in 0..3 /\ ~Silent(f) /\ ~Ecu(f)
  BY <1>2, <1>5, DrivenFacts
<1> QED BY <1>1, <1>3, <1>4, <1>5

(* Before the loop no relay is closed.                                      *)
LEMMA DoneZero ==
  ASSUME NEW f \in AnyFrame
  PROVE  Done(f, 0) = {}
<1>1. f.chans \subseteq 0..71
  BY DEF AnyFrame, Channels
<1>2. {e \in f.chans : e < 0} = {}
  BY <1>1
<1> QED BY <1>2 DEF Done, Below

(* On the way, none that the frame does not ask for.                        *)
LEMMA DoneDriven ==
  ASSUME NEW f \in AnyFrame, f.cmd \in 0..3, NEW c \in 0..72, c > 0 => Drives(f)
  PROVE  Done(f, c) \subseteq Driven(f)
<1>1. CASE Silent(f)
  BY <1>1 DEF Done
<1>2. CASE Ecu(f) /\ ~Silent(f)
  <2>1. c = 0 \/ Cardinality(f.chans) = 2
    BY <1>2 DEF Drives
  <2> QED BY <1>2, <2>1, DrivenFacts DEF Done
<1>3. CASE ~Ecu(f) /\ ~Silent(f)
  BY <1>3, DrivenFacts DEF Done, Below
<1> QED BY <1>1, <1>2, <1>3

(* A round of the loop adds the coils of the first channel that is left.    *)
LEMMA DoneStep ==
  ASSUME NEW f \in AnyFrame, ~Silent(f), ~Ecu(f), NEW c \in 0..72, NEW m \in f.chans,
         m >= c, \A d \in f.chans : d >= c => m <= d
  PROVE  Done(f, m + 1) = Done(f, c) \cup {Relay(m, k) : k \in Coils(f)}
<1>1. f.chans \subseteq 0..71
  BY DEF AnyFrame, Channels
<1>2. {e \in f.chans : e < m + 1} = {e \in f.chans : e < c} \cup {m}
  <2>1. ASSUME NEW e \in f.chans PROVE e < m + 1 <=> (e < c \/ e = m)
    <3>1. e \in 0..71 /\ m \in 0..71 /\ (e >= c => m <= e)
      BY <1>1, Zenon
    <3> QED BY <3>1
  <2> QED BY <2>1, Zenon
<1>3. Below(f, m + 1) = Below(f, c) \cup {Relay(m, k) : k \in Coils(f)}
  BY <1>2 DEF Below
<1> QED BY <1>3 DEF Done

(* At the end all of them are closed.                                       *)
LEMMA DoneEnd ==
  ASSUME NEW f \in AnyFrame, f.cmd \in 0..3, ~Silent(f), ~Ecu(f), NEW c \in 0..72,
         {d \in f.chans : d >= c} = {}
  PROVE  Done(f, c) = Driven(f)
<1>1. f.chans \subseteq 0..71
  BY DEF AnyFrame, Channels
<1>2. {e \in f.chans : e < c} = f.chans
  BY <1>1
<1>3. Below(f, c) = {Relay(d, k) : d \in f.chans, k \in Coils(f)}
  BY <1>2 DEF Below
<1> QED BY <1>3, DrivenFacts DEF Done

(* The resistance network after a channel is connected.                     *)
LEMMA OhmFacts ==
  ASSUME NEW f \in AnyFrame, Drives(f), ohm \in {0, OhmOf(f)}
  PROVE  (IF f.cmd = 2 /\ HvSetting(f.cmd, f.byte12) # 0
          THEN Resistance_select(f.res) ELSE ohm) = OhmOf(f)
<1>1. f.byte12 \in 0..31
  BY DEF AnyFrame
<1>2. CASE f.cmd # 2
  BY <1>2 DEF OhmOf
<1>3. CASE f.cmd = 2
  <2>1. f.byte12 \in 0..7
    BY <1>3 DEF Drives, Silent
  <2>2. HvSetting(2, f.byte12) # 0 <=> f.byte12 \in 1..7
    BY <2>1 DEF HvSetting
  <2>3. CASE f.byte12 \notin 1..7
    BY <1>3, <2>2, <2>3 DEF OhmOf
  <2>4. CASE f.byte12 \in 1..7 /\ f.res < 128 * 256
    BY <1>3, <2>2, <2>4 DEF OhmOf, Resistance_select
  <2>5. CASE f.byte12 \in 1..7 /\ ~(f.res < 128 * 256)
    BY <1>3, <2>2, <2>5 DEF OhmOf, Resistance_select
  <2> QED BY <2>3, <2>4, <2>5
<1> QED BY <1>2, <1>3

-----------------------------------------------------------------------------
(* Each step of a link keeps its own invariant.                             *)

LEMMA PhaseFacts ==
  ASSUME TypeInv, NEW l \in Links, NEW p, at' = [at EXCEPT ![l].ph = p]
  PROVE  /\ at'[l].ph = p /\ at'[l].cmd = at[l].cmd /\ at'[l].n = at[l].n
         /\ at'[l].clearing = at[l].clearing /\ at'[l].chan = at[l].chan
         /\ at'[l].val = at[l].val /\ at'[l].todo = at[l].todo
BY DEF TypeInv, LinkState

LEMMA InitLink ==
  ASSUME Init, NEW l \in Links
  PROVE  LinkInv(l)
<1>1. last.cmd = 4 /\ last.chans = {} /\ last \in AnyFrame
  BY TypeInit DEF Init, NoFrame, Reset, TypeInv
<1>2. at[l].ph = "idle" /\ out = {} /\ dq = {} /\ ohm = 0
  BY DEF Init, Idle
<1>3. Driven(last) = {} /\ ~Drives(last)
  BY <1>1, DrivenFacts DEF Drives
<1> QED BY <1>2, <1>3 DEF LinkInv, RestInv, DriveInv, ClearInv, WriteInv, LoopInv

LEMMA LinkBegin ==
  ASSUME TypeInv, NEW l \in Links, LinkInv(l), NEW f \in Frames, Begin(l, f)
  PROVE  LinkInv(l)'
<1>1. at'[l].ph = "start"
  BY PhaseFacts DEF Begin
<1>2. RestInv(l)'
  BY DEF Begin, LinkInv, RestInv
<1> QED BY <1>1, <1>2 DEF LinkInv, DriveInv, ClearInv, WriteInv, LoopInv

LEMMA LinkDispatch ==
  ASSUME TypeInv, NEW l \in Links, LinkInv(l), Dispatch(l)
  PROVE  LinkInv(l)'
<1>1. /\ at[l].ph = "start" /\ buf' = buf /\ out' = out /\ ohm' = ohm
      /\ out = Driven(last) /\ dq = out
      /\ ohm = IF Drives(last) THEN OhmOf(last) ELSE 0
  BY DEF Dispatch, LinkInv, RestInv
<1>2. CASE buf.cmd = 255
  <2>1. at'[l].ph = "idle" /\ dq' = dq /\ last' = last
    BY <1>2 DEF Dispatch, TypeInv, Idle
  <2>2. RestInv(l)'
    BY <1>1, <2>1 DEF RestInv
  <2> QED BY <2>1, <2>2 DEF LinkInv, DriveInv, ClearInv, WriteInv, LoopInv
<1>3. CASE buf.cmd # 255
  <2>1. /\ at'[l].ph = "up" /\ at'[l].cmd = buf.cmd /\ at'[l].clearing
        /\ at'[l].n = 0 /\ at'[l].chan = 0
    <3>1. at'[l] = [Idle EXCEPT !.ph = "up", !.cmd = buf.cmd, !.clearing = TRUE]
      BY <1>3 DEF Dispatch, TypeInv
    <3> QED BY <3>1 DEF Idle
  <2>2. last' = buf /\ before' = last /\ dq' = dq \ RelaysAt(0) /\ bus' = {}
    BY <1>3 DEF Dispatch, PutZero
  <2>3. \A r \in dq' : r >= 16
    BY <2>2 DEF TypeInv, RelaysAt, LatchWidth
  <2>4. \A r \in out' : r >= 0
    <3>1. out' \subseteq 0..223
      BY <1>1 DEF TypeInv
    <3> QED BY ONLY <3>1
  <2>5. DriveInv(l)'
    BY <1>1, <1>3, <2>1, <2>2 DEF DriveInv
  <2>6. ClearInv(l)'
    BY <1>1, <2>1, <2>2, <2>3, <2>4 DEF ClearInv, LatchWidth
  <2> QED BY <2>1, <2>5, <2>6 DEF LinkInv, RestInv, WriteInv, LoopInv
<1> QED BY <1>2, <1>3

LEMMA LinkClock ==
  ASSUME TypeInv, NEW l \in Links, LinkInv(l), Clock(l)
  PROVE  LinkInv(l)'
<1> DEFINE n == at[l].n
           R == RelaysAt(n)
<1>1. /\ at[l].ph = "up" /\ n \in Latches
      /\ out' = (out \ R) \cup {r \in R : BitOf(r) \in bus}
      /\ UNCHANGED <<buf, dq, bus, lines, ohm, last, before>>
  BY DEF Clock, TypeInv, LinkState
<1>2. /\ at'[l].ph = "down" /\ at'[l].cmd = at[l].cmd /\ at'[l].n = n
      /\ at'[l].clearing = at[l].clearing /\ at'[l].chan = at[l].chan
      /\ at'[l].val = at[l].val /\ at'[l].todo = at[l].todo
  BY PhaseFacts DEF Clock
<1>3. DriveInv(l)'
  BY <1>1, <1>2 DEF LinkInv, DriveInv
<1>4. CASE at[l].clearing
  <2>1. /\ bus = {} /\ at[l].chan = 0 /\ out \subseteq Driven(before)
        /\ \A r \in dq : r >= LatchWidth * (n + 1)
        /\ \A r \in out : r >= LatchWidth * (n + 0)
    BY <1>1, <1>4 DEF LinkInv, ClearInv
  <2>2. out' = out \ R
    BY <1>1, <2>1
  <2>3. ASSUME NEW r \in out' PROVE r >= LatchWidth * (n + 1)
    <3>1. r \in out /\ r \notin R /\ r \in Int
      BY <2>2, <2>3 DEF TypeInv
    <3>2. r >= LatchWidth * (n + 0)
      BY <2>1, <3>1
    <3> HIDE DEF n
    <3> QED BY <1>1, <3>1, <3>2 DEF RelaysAt, LatchWidth, Latches
  <2>4. ClearInv(l)'
    BY <1>1, <1>2, <2>1, <2>2, <2>3 DEF ClearInv
  <2> QED BY <1>2, <1>3, <1>4, <2>4 DEF LinkInv, RestInv, WriteInv, LoopInv
<1>5. CASE ~at[l].clearing
  <2>1. /\ at[l].chan > 0 /\ at[l].val = last.byte12 /\ Drives(last)
        /\ dq \cup Pending(at[l].todo) = Done(last, at[l].chan)
        /\ ohm \in {0, OhmOf(last)}
        /\ out \subseteq dq /\ dq \ R \subseteq out
        /\ bus = {BitOf(r) : r \in dq \cap R}
    BY <1>1, <1>5 DEF LinkInv, WriteInv
  <2>2. \A r \in R : BitOf(r) \in bus <=> r \in dq
    BY <1>1, <2>1, BitFacts
  <2>3. out' = dq
    BY <1>1, <2>1, <2>2
  <2>4. WriteInv(l)'
    BY <1>1, <1>2, <2>1, <2>3 DEF WriteInv
  <2> QED BY <1>2, <1>3, <1>5, <2>4 DEF LinkInv, RestInv, ClearInv, LoopInv
<1> QED BY <1>4, <1>5

LEMMA LinkClearNext ==
  ASSUME TypeInv, NEW l \in Links, LinkInv(l), ClearNext(l)
  PROVE  LinkInv(l)'
<1> DEFINE n == at[l].n
<1>1. /\ at[l].ph = "down" /\ at[l].clearing /\ n \in Latches /\ n < 13
      /\ dq' = dq \ RelaysAt(n + 1) /\ bus' = {}
      /\ UNCHANGED <<buf, out, lines, ohm, last, before>>
  BY DEF ClearNext, PutZero, TypeInv, LinkState
<1>2. /\ at'[l].ph = "up" /\ at'[l].cmd = at[l].cmd /\ at'[l].n = n + 1
      /\ at'[l].clearing = at[l].clearing /\ at'[l].chan = at[l].chan
  <2>1. at'[l] = [at[l] EXCEPT !.ph = "up", !.n = @ + 1] /\ at[l] \in LinkState
    BY DEF ClearNext, TypeInv
  <2> QED BY <2>1 DEF LinkState
<1>3. /\ at[l].chan = 0 /\ out \subseteq Driven(before)
      /\ \A r \in dq : r >= LatchWidth * (n + 1)
      /\ \A r \in out : r >= LatchWidth * (n + 1)
  BY <1>1 DEF LinkInv, ClearInv
<1>4. ASSUME NEW r \in dq' PROVE r >= LatchWidth * ((n + 1) + 1)
  <2>1. r \in dq /\ r \notin RelaysAt(n + 1) /\ r \in Int
    BY <1>1, <1>4 DEF TypeInv
  <2>2. r >= LatchWidth * (n + 1)
    BY <1>3, <2>1
  <2> HIDE DEF n
  <2> QED BY <1>1, <2>1, <2>2 DEF RelaysAt, LatchWidth, Latches
<1>5. ASSUME NEW r \in out' PROVE r >= LatchWidth * ((n + 1) + 0)
  <2>1. r \in out
    BY <1>1, <1>5
  <2>2. r >= LatchWidth * (n + 1)
    BY <1>3, <2>1
  <2> HIDE DEF n
  <2> QED BY <1>1, <2>2 DEF LatchWidth, Latches
<1>6. DriveInv(l)'
  BY <1>1, <1>2 DEF LinkInv, DriveInv
<1>7. ClearInv(l)'
  BY <1>1, <1>2, <1>3, <1>4, <1>5 DEF ClearInv
<1> QED BY <1>1, <1>2, <1>6, <1>7 DEF LinkInv, RestInv, WriteInv, LoopInv

LEMMA LinkClearDone ==
  ASSUME TypeInv, NEW l \in Links, LinkInv(l), ClearDone(l)
  PROVE  LinkInv(l)'
<1>1. /\ at[l].ph = "down" /\ at[l].clearing /\ at[l].n = 13 /\ ohm' = 0
      /\ UNCHANGED <<buf, dq, bus, out, last, before>>
  BY DEF ClearDone
<1>2. /\ at[l].chan = 0 /\ at[l].cmd = last.cmd /\ last.cmd # 255 /\ buf = last
      /\ \A r \in dq : r >= LatchWidth * (13 + 1)
      /\ \A r \in out : r >= LatchWidth * (13 + 1)
  BY <1>1 DEF LinkInv, ClearInv, DriveInv
<1>3. dq = {} /\ out = {}
  <2>1. \A r \in 0..223 : ~(r >= LatchWidth * (13 + 1))
    BY DEF LatchWidth
  <2>2. dq \subseteq 0..223 /\ out \subseteq 0..223
    BY DEF TypeInv
  <2> QED BY <1>2, <2>1, <2>2
<1>4. last \in AnyFrame
  BY DEF TypeInv
<1>5. CASE at[l].cmd = Reset
  <2>1. at'[l].ph = "idle"
    BY <1>5 DEF ClearDone, TypeInv, Idle
  <2>2. Driven(last) = {} /\ OhmOf(last) = 0
    <3>1. last.cmd = 4
      BY <1>2, <1>5 DEF Reset
    <3>2. Driven(last) = {}
      BY <1>4, <3>1, DrivenFacts
    <3> QED BY <3>1, <3>2 DEF OhmOf
  <2>3. RestInv(l)'
    BY <1>1, <1>3, <2>2 DEF RestInv
  <2> QED BY <2>1, <2>3 DEF LinkInv, DriveInv, ClearInv, WriteInv, LoopInv
<1>6. CASE at[l].cmd # Reset
  <2>1. /\ at'[l].ph = "scan" /\ ~at'[l].clearing /\ at'[l].cmd = at[l].cmd
        /\ at'[l].chan = at[l].chan
    BY <1>6 DEF ClearDone, TypeInv, LinkState
  <2>2. DriveInv(l)'
    BY <1>1, <1>2, <1>6, <2>1 DEF DriveInv
  <2>3. Done(last, 0) = {}
    BY <1>4, DoneZero
  <2>4. LoopInv(l)'
    BY <1>1, <1>2, <1>3, <2>1, <2>3 DEF LoopInv
  <2> QED BY <2>1, <2>2, <2>4 DEF LinkInv, RestInv, ClearInv, WriteInv
<1> QED BY <1>5, <1>6

(* A latch write that finds the outputs equal to the shadow copy.           *)
LEMMA PutFacts ==
  ASSUME NEW s \in Seq(Op), s # <<>>, out = dq, PutOnBus(Head(s)), out' = out
  PROVE  /\ dq' \cup Pending(Tail(s)) = dq \cup Pending(s)
         /\ out' \subseteq dq' /\ dq' \ RelaysAt(Head(s).n) \subseteq out'
         /\ bus' = {BitOf(r) : r \in dq' \cap RelaysAt(Head(s).n)}
<1>1. Head(s).add \subseteq RelaysAt(Head(s).n)
  BY PendingFacts DEF Op
<1>2. Pending(s) = Head(s).add \cup Pending(Tail(s))
  BY PendingFacts
<1>3. dq' = dq \cup Head(s).add
  BY DEF PutOnBus
<1>4. bus' = {BitOf(r) : r \in dq' \cap RelaysAt(Head(s).n)}
  BY DEF PutOnBus
<1> QED BY <1>1, <1>2, <1>3, <1>4

LEMMA LinkWriteNext ==
  ASSUME TypeInv, NEW l \in Links, LinkInv(l), WriteNext(l)
  PROVE  LinkInv(l)'
<1> DEFINE todo == at[l].todo
<1>1. /\ at[l].ph = "down" /\ ~at[l].clearing /\ todo # <<>> /\ todo \in Seq(Op)
      /\ PutOnBus(Head(todo))
      /\ UNCHANGED <<buf, out, lines, ohm, last, before>>
  BY DEF WriteNext, TypeInv, LinkState
<1>2. /\ at'[l].ph = "up" /\ at'[l].n = Head(todo).n /\ at'[l].todo = Tail(todo)
      /\ at'[l].cmd = at[l].cmd /\ at'[l].clearing = at[l].clearing
      /\ at'[l].chan = at[l].chan /\ at'[l].val = at[l].val
  <2>1. /\ at'[l] = [at[l] EXCEPT !.ph = "up", !.n = Head(todo).n, !.todo = Tail(todo)]
        /\ at[l] \in LinkState
    BY DEF WriteNext, TypeInv
  <2> HIDE DEF todo
  <2> QED BY <2>1 DEF LinkState
<1>3. /\ at[l].chan > 0 /\ at[l].val = last.byte12 /\ Drives(last)
      /\ dq \cup Pending(todo) = Done(last, at[l].chan)
      /\ ohm \in {0, OhmOf(last)} /\ out = dq
  BY <1>1 DEF LinkInv, WriteInv
<1>4. /\ dq' \cup Pending(Tail(todo)) = dq \cup Pending(todo)
      /\ out' \subseteq dq' /\ dq' \ RelaysAt(Head(todo).n) \subseteq out'
      /\ bus' = {BitOf(r) : r \in dq' \cap RelaysAt(Head(todo).n)}
  <2> HIDE DEF todo
  <2> QED BY <1>1, <1>3, PutFacts
<1>5. DriveInv(l)'
  BY <1>1, <1>2 DEF LinkInv, DriveInv
<1> HIDE DEF todo
<1>6. WriteInv(l)'
  BY <1>1, <1>2, <1>3, <1>4 DEF WriteInv
<1> QED BY <1>1, <1>2, <1>5, <1>6 DEF LinkInv, RestInv, ClearInv, LoopInv

LEMMA LinkConnect ==
  ASSUME TypeInv, NEW l \in Links, LinkInv(l), Connect(l)
  PROVE  LinkInv(l)'
<1>1. /\ at[l].ph = "down" /\ ~at[l].clearing /\ at[l].todo = <<>>
      /\ ohm' = IF at[l].cmd = 2 /\ HvSetting(at[l].cmd, at[l].val) # 0
                THEN Resistance_select(buf.res) ELSE ohm
      /\ UNCHANGED <<buf, dq, bus, out, last, before>>
  BY DEF Connect
<1>2. /\ at'[l].ph = "scan" /\ at'[l].cmd = at[l].cmd
      /\ at'[l].clearing = at[l].clearing /\ at'[l].chan = at[l].chan
  BY PhaseFacts DEF Connect
<1>3. /\ at[l].chan > 0 /\ at[l].val = last.byte12 /\ Drives(last)
      /\ dq = Done(last, at[l].chan)
      /\ ohm \in {0, OhmOf(last)} /\ out = dq
  BY <1>1, PendingEmpty DEF LinkInv, WriteInv
<1>4. buf = last /\ at[l].cmd = last.cmd /\ last \in AnyFrame
  BY <1>1 DEF LinkInv, DriveInv, TypeInv
<1>5. ohm' = OhmOf(last)
  <2>1. (IF last.cmd = 2 /\ HvSetting(last.cmd, last.byte12) # 0
         THEN Resistance_select(last.res) ELSE ohm) = OhmOf(last)
    BY <1>3, <1>4, OhmFacts
  <2> QED BY <1>1, <1>3, <1>4, <2>1
<1>6. DriveInv(l)'
  BY <1>1, <1>2 DEF LinkInv, DriveInv
<1>7. LoopInv(l)'
  <2>1. at[l].chan # 0
    BY <1>3 DEF TypeInv, LinkState
  <2> QED BY <1>1, <1>2, <1>3, <1>5, <2>1 DEF LoopInv
<1> QED BY <1>2, <1>6, <1>7 DEF LinkInv, RestInv, ClearInv, WriteInv

(* The loop stops when the relays of the frame are closed ...               *)
LEMMA LoopEnd ==
  ASSUME NEW f \in AnyFrame, f.cmd \in 0..3, NEW c \in 0..72, c > 0 => Drives(f),
         \/ {d \in f.chans : d >= c} = {} \/ Silent(f)
         \/ Ecu(f) /\ (c > 0 \/ Cardinality({d \in f.chans : d >= c}) # 2)
  PROVE  Done(f, c) = Driven(f) /\ (c = 0 => ~Drives(f))
<1> DEFINE left == {d \in f.chans : d >= c}
<1>1. f.chans \subseteq 0..71
  BY DEF AnyFrame, Channels
<1>2. c = 0 => left = f.chans
  BY <1>1
<1>3. CASE Silent(f)
  BY <1>3, DrivenFacts DEF Done, Drives
<1>4. CASE Ecu(f) /\ ~Silent(f)
  <2>1. CASE c > 0
    <3>1. Cardinality(f.chans) = 2
      BY <1>4, <2>1 DEF Drives
    <3>2. c # 0
      BY <2>1
    <3> QED BY <1>4, <3>1, <3>2, DrivenFacts DEF Done
  <2>2. CASE c = 0
    <3>1. left = {} \/ Cardinality(left) # 2
      BY <1>4, <2>2
    <3>2. Cardinality(f.chans) # 2
      BY <1>2, <2>2, <3>1, CardZero
    <3> QED BY <1>4, <2>2, <3>2, DrivenFacts DEF Done, Drives
  <2> QED BY <2>1, <2>2
<1>5. CASE ~Ecu(f) /\ ~Silent(f)
  <2>1. left = {}
    BY <1>5
  <2>2. c = 0 => ~Drives(f)
    BY <1>2, <2>1 DEF Drives
  <2>3. Done(f, c) = Driven(f)
    BY <1>5, <2>1, DoneEnd
  <2> QED BY <2>2, <2>3
<1> QED BY <1>3, <1>4, <1>5

(* ... and otherwise a round writes what is missing up to the channel where *)
(* it stops.                                                                *)
LEMMA LoopRound ==
  ASSUME TypeInv, NEW l \in Links, buf = last, at[l].cmd = last.cmd,
         last.cmd \in 0..3, NextWrites(l).ops # <<>>
  PROVE  /\ Drives(last) /\ NextWrites(l).chan > 0
         /\ Done(last, at[l].chan) \cup Pending(NextWrites(l).ops)
              = Done(last, NextWrites(l).chan)
<1> DEFINE f == last
           c == at[l].chan
           left == {d \in f.chans : d >= c}
<1>1. f \in AnyFrame /\ c \in 0..72 /\ f.chans \subseteq 0..71
  <2>1. f \in AnyFrame
    BY DEF TypeInv
  <2>2. c \in 0..72
    BY DEF TypeInv, LinkState
  <2>3. f.chans \in SUBSET (0..71)
    BY <2>1 DEF AnyFrame, Channels
  <2> QED BY <2>1, <2>2, <2>3
<1>2. ~(left = {} \/ Silent(f) \/ (Ecu(f) /\ (c > 0 \/ Cardinality(left) # 2)))
  BY DEF NextWrites, Silent, Ecu
<1>3. left \in SUBSET Channels
  BY <1>1 DEF Channels
<1>4. Min(left) \in left /\ (\A d \in left : Min(left) <= d)
  BY <1>2, <1>3, MinFacts
<1>5. Max(left) \in left
  BY <1>2, <1>3, MaxFacts
<1>6. CASE Ecu(f)
  <2>1. c = 0 /\ Cardinality(left) = 2
    <3>1. ~(c > 0) /\ Cardinality(left) = 2
      BY <1>2, <1>6
    <3> HIDE DEF c
    <3> QED BY <1>1, <3>1
  <2>2. left = f.chans
    <3>1. \A d \in 0..71 : d >= 0
      OBVIOUS
    <3>2. \A d \in f.chans : d >= c
      BY <1>1, <2>1, <3>1, Zenon
    <3> QED BY <3>2, Zenon
  <2>3. NextWrites(l) = [chan |-> 72, ops |-> WritesEcuEcu(Min(left), Max(left))]
    BY <1>2, <1>6 DEF NextWrites, Silent, Ecu
  <2>4. Pending(NextWrites(l).ops) = EcuPair(f)
    <3>1. Pending(WritesEcuEcu(Min(left), Max(left)))
            = {Relay(Min(left), 0), Relay(Min(left), 1), Relay(Max(left), 2)}
      BY <1>3, <1>4, <1>5, EcuFacts
    <3>2. NextWrites(l).ops = WritesEcuEcu(Min(left), Max(left))
      BY <2>3
    <3> HIDE DEF left, f
    <3> QED BY <2>2, <3>1, <3>2 DEF EcuPair
  <2>5. Done(f, c) = {} /\ Done(f, 72) = EcuPair(f)
    BY <1>2, <1>6, <2>1 DEF Done
  <2>6. Drives(f)
    BY <1>2, <2>1, <2>2 DEF Drives
  <2>7. NextWrites(l).chan = 72
    BY <2>3
  <2> QED BY <2>4, <2>5, <2>6, <2>7
<1>7. CASE ~Ecu(f)
  <2> DEFINE m == Min(left)
  <2>1. NextWrites(l) = [chan |-> m + 1, ops |-> Writes(f.cmd, m, f.byte12)]
    BY <1>2, <1>7 DEF NextWrites, Silent, Ecu
  <2>2. m \in f.chans /\ m >= c /\ (\A d \in f.chans : d >= c => m <= d) /\ m \in Channels
    BY <1>1, <1>4 DEF Channels
  <2>3. f.chans # {}
    BY <2>2
  <2> HIDE DEF m, left, c
  <2>4. NextWrites(l).chan = m + 1 /\ NextWrites(l).ops = Writes(f.cmd, m, f.byte12)
    BY <2>1
  <2>5. Pending(NextWrites(l).ops) = {Relay(m, k) : k \in Coils(f)}
    BY <1>1, <2>2, <2>4, WritesFacts
  <2>6. Done(f, m + 1) = Done(f, c) \cup {Relay(m, k) : k \in Coils(f)}
    BY <1>1, <1>2, <1>7, <2>2, DoneStep
  <2>7. Drives(f)
    BY <1>2, <1>7, <2>3 DEF Drives
  <2>8. m + 1 > 0
    BY <2>2 DEF Channels
  <2> QED BY <2>4, <2>5, <2>6, <2>7, <2>8 DEF c
<1> QED BY <1>6, <1>7

(* Why a round writes nothing.                                              *)
LEMMA StopReason ==
  ASSUME TypeInv, NEW l \in Links, buf = last, at[l].cmd = last.cmd,
         last.cmd \in 0..3, NextWrites(l).ops = <<>>
  PROVE  \/ {d \in last.chans : d >= at[l].chan} = {} \/ Silent(last)
         \/ Ecu(last) /\ (at[l].chan > 0
                          \/ Cardinality({d \in last.chans : d >= at[l].chan}) # 2)
<1> DEFINE left == {d \in last.chans : d >= at[l].chan}
           stop == \/ left = {} \/ Silent(last)
                   \/ Ecu(last) /\ (at[l].chan > 0 \/ Cardinality(left) # 2)
<1>1. SUFFICES ASSUME ~stop PROVE FALSE
  OBVIOUS
<1>2. last \in AnyFrame /\ left # {}
  BY <1>1 DEF TypeInv
<1>3. left \in SUBSET Channels
  BY <1>2 DEF AnyFrame
<1>4. Min(left) \in Channels /\ Max(left) \in Channels
  BY <1>2, <1>3, MinFacts, MaxFacts
<1>5. NextWrites(l).ops \in {WritesEcuEcu(Min(left), Max(left)),
                            Writes(last.cmd, Min(left), last.byte12)}
  BY <1>1 DEF NextWrites, Silent, Ecu
<1> HIDE DEF left
<1>6. WritesEcuEcu(Min(left), Max(left)) # <<>>
  BY <1>4, EcuFacts
<1>7. Writes(last.cmd, Min(left), last.byte12) # <<>>
  BY <1>2, <1>4, WritesFacts
<1> QED BY <1>5, <1>6, <1>7

LEMMA LinkScan ==
  ASSUME TypeInv, NEW l \in Links, LinkInv(l), Scan(l)
  PROVE  LinkInv(l)'
<1> DEFINE nw == NextWrites(l)
           c  == at[l].chan
<1>1. /\ at[l].ph = "scan" /\ ~at[l].clearing
      /\ out = Done(last, c) /\ dq = out /\ (c > 0 => Drives(last))
      /\ ohm = IF c = 0 THEN 0 ELSE OhmOf(last)
      /\ UNCHANGED <<out, lines, ohm, last, before>>
  BY DEF Scan, LinkInv, LoopInv
<1>2. buf = last /\ at[l].cmd = last.cmd /\ last.cmd # 255 /\ last.cmd # 4
  BY <1>1 DEF LinkInv, DriveInv, Reset
<1>3. last \in AnyFrame /\ c \in 0..72 /\ last.cmd \in 0..3
  <2>1. last \in AnyFrame
    BY DEF TypeInv
  <2>2. c \in 0..72
    BY DEF TypeInv, LinkState
  <2>3. last.cmd \in 0..4 \cup {255}
    BY <2>1 DEF AnyFrame
  <2>4. last.cmd \in 0..3
    BY <1>2, <2>3
  <2> QED BY <2>1, <2>2, <2>4
<1>4. nw.chan \in 0..72 /\ nw.ops \in Seq(Op)
  BY NextWritesType
<1>5. CASE nw.ops = <<>>
  <2>1. at'[l].ph = "idle" /\ dq' = dq
    BY <1>5 DEF Scan, TypeInv, Idle
  <2>2. \/ {d \in last.chans : d >= c} = {} \/ Silent(last)
        \/ Ecu(last) /\ (c > 0 \/ Cardinality({d \in last.chans : d >= c}) # 2)
    BY <1>2, <1>3, <1>5, StopReason
  <2>3. Done(last, c) = Driven(last) /\ (c = 0 => ~Drives(last))
    <3> HIDE DEF c
    <3> QED BY <1>1, <1>3, <2>2, LoopEnd
  <2>4. ohm = IF Drives(last) THEN OhmOf(last) ELSE 0
    <3>1. c = 0 \/ c > 0
      BY <1>3
    <3> HIDE DEF c
    <3> QED BY <1>1, <2>3, <3>1
  <2>5. RestInv(l)'
    BY <1>1, <2>1, <2>3, <2>4 DEF RestInv
  <2> QED BY <2>1, <2>5 DEF LinkInv, DriveInv, ClearInv, WriteInv, LoopInv
<1>6. CASE nw.ops # <<>>
  <2>1. /\ Drives(last) /\ nw.chan > 0
        /\ Done(last, c) \cup Pending(nw.ops) = Done(last, nw.chan)
    BY <1>2, <1>3, <1>6, LoopRound
  <2> HIDE DEF nw
  <2>2. PutOnBus(Head(nw.ops)) /\ buf' = buf
    BY <1>6 DEF Scan, nw
  <2>3. /\ at'[l].ph = "up" /\ at'[l].n = Head(nw.ops).n /\ at'[l].chan = nw.chan
        /\ at'[l].val = buf.byte12 /\ at'[l].todo = Tail(nw.ops)
        /\ at'[l].cmd = at[l].cmd /\ at'[l].clearing = at[l].clearing
    <3>1. at'[l] = [at[l] EXCEPT !.ph = "up", !.n = Head(nw.ops).n, !.chan = nw.chan,
                                 !.val = buf.byte12, !.todo = Tail(nw.ops)]
      BY <1>6 DEF Scan, TypeInv, nw
    <3>2. at[l] \in LinkState
      BY DEF TypeInv
    <3> QED BY <3>1, <3>2 DEF LinkState
  <2>4. /\ dq' \cup Pending(Tail(nw.ops)) = dq \cup Pending(nw.ops)
        /\ out' \subseteq dq' /\ dq' \ RelaysAt(Head(nw.ops).n) \subseteq out'
        /\ bus' = {BitOf(r) : r \in dq' \cap RelaysAt(Head(nw.ops).n)}
    BY <1>1, <1>4, <1>6, <2>2, PutFacts
  <2>5. DriveInv(l)'
    BY <1>1, <2>2, <2>3 DEF LinkInv, DriveInv
  <2>6. ohm' \in {0, OhmOf(last)} /\ last' = last
    BY <1>1
  <2>7. dq' \cup Pending(Tail(nw.ops)) = Done(last, nw.chan)
    BY <1>1, <2>1, <2>4
  <2>8. at'[l].val = last.byte12
    BY <1>2, <2>3
  <2>9. WriteInv(l)'
    BY <2>1, <2>3, <2>4, <2>6, <2>7, <2>8 DEF WriteInv
  <2> QED BY <1>1, <2>3, <2>5, <2>9 DEF LinkInv, RestInv, ClearInv, LoopInv
<1> QED BY <1>5, <1>6

-----------------------------------------------------------------------------
(* Several links that do not overlap.                                       *)

LEMMA LinkStep ==
  ASSUME TypeInv, NEW l \in Links, LinkInv(l),
         (\E f \in Frames : Begin(l, f)) \/ FiuCom_Process(l)
  PROVE  LinkInv(l)'
<1>1. ASSUME NEW f \in Frames, Begin(l, f) PROVE LinkInv(l)'
  BY <1>1, LinkBegin
<1>2. ASSUME FiuCom_Process(l) PROVE LinkInv(l)'
  BY <1>2, LinkDispatch, LinkClock, LinkClearNext, LinkClearDone, LinkScan, LinkWriteNext,
     LinkConnect DEF FiuCom_Process
<1> QED BY <1>1, <1>2

(* A step is one of a link that is inside FiuCom_Process before or after,   *)
(* and leaves the others where they are.                                    *)
LEMMA StepMoves ==
  ASSUME TypeInv, NEW k \in Links, (\E f \in Frames : Begin(k, f)) \/ FiuCom_Process(k)
  PROVE  /\ at[k].ph # "idle" \/ at'[k].ph # "idle"
         /\ \A j \in Links \ {k} : at'[j] = at[j]
<1>1. ASSUME NEW f \in Frames, Begin(k, f)
      PROVE  at'[k].ph = "start" /\ \A j \in Links \ {k} : at'[j] = at[j]
  <2>1. at'[k].ph = "start"
    BY <1>1, PhaseFacts DEF Begin
  <2>2. \A j \in Links \ {k} : at'[j] = at[j]
    BY <1>1 DEF Begin, TypeInv
  <2> QED BY <2>1, <2>2
<1>2. ASSUME FiuCom_Process(k)
      PROVE  at[k].ph # "idle" /\ \A j \in Links \ {k} : at'[j] = at[j]
  <2>1. at[k].ph # "idle"
    BY <1>2 DEF FiuCom_Process, Dispatch, Clock, ClearNext, ClearDone, Scan, WriteNext, Connect
  <2>2. CASE Dispatch(k)
    BY <2>2 DEF Dispatch, TypeInv
  <2>3. CASE Clock(k)
    BY <2>3 DEF Clock, TypeInv
  <2>4. CASE ClearNext(k)
    BY <2>4 DEF ClearNext, TypeInv
  <2>5. CASE ClearDone(k)
    BY <2>5 DEF ClearDone, TypeInv
  <2>6. CASE Scan(k)
    BY <2>6 DEF Scan, TypeInv
  <2>7. CASE WriteNext(k)
    BY <2>7 DEF WriteNext, TypeInv
  <2>8. CASE Connect(k)
    BY <2>8 DEF Connect, TypeInv
  <2>9. \A j \in Links \ {k} : at'[j] = at[j]
    BY <1>2, <2>2, <2>3, <2>4, <2>5, <2>6, <2>7, <2>8 DEF FiuCom_Process
  <2> QED BY <2>1, <2>9
<1>3. CASE \E f \in Frames : Begin(k, f)
  BY <1>1, <1>3
<1>4. CASE FiuCom_Process(k)
  BY <1>2, <1>4
<1> QED BY <1>3, <1>4

LEMMA UnitStep ==
  ASSUME TypeInv, UnitInv, OneAtATime, OneAtATime', [Next]_vars
  PROVE  UnitInv'
<1>1. CASE UNCHANGED vars
  BY <1>1 DEF vars, UnitInv, LinkInv, RestInv, DriveInv, ClearInv, WriteInv, LoopInv
<1>2. ASSUME NEW k \in Links, (\E f \in Frames : Begin(k, f)) \/ FiuCom_Process(k)
      PROVE  UnitInv'
  <2>1. \A j \in Links \ {k} : at'[j] = at[j]
    BY <1>2, StepMoves
  <2>2. \A j \in Links \ {k} : at[j].ph = "idle"
    <3>1. CASE at[k].ph # "idle"
      BY <3>1 DEF OneAtATime
    <3>2. CASE at'[k].ph # "idle"
      BY <2>1, <3>2 DEF OneAtATime
    <3> QED BY <1>2, <3>1, <3>2, StepMoves
  <2>3. LinkInv(k)'
    <3>1. LinkInv(k)
      BY <2>2 DEF UnitInv
    <3> QED BY <1>2, <3>1, LinkStep
  <2>4. ASSUME NEW l \in Links \ {k}, at'[k].ph = "idle" PROVE LinkInv(l)'
    <3>1. at'[l].ph = "idle"
      BY <2>1, <2>2
    <3> QED BY <2>3, <2>4, <3>1 DEF LinkInv, RestInv, DriveInv, ClearInv, WriteInv, LoopInv
  <2> QED BY <2>3, <2>4 DEF UnitInv
<1> QED BY <1>1, <1>2 DEF Next

(* A closed relay belongs to one of two frames.                             *)
LEMMA LinkDriven ==
  ASSUME NEW l \in Links, TypeInv, LinkInv(l)
  PROVE  out \subseteq Driven(before) \/ out \subseteq Driven(last)
<1>1. /\ at[l].ph \in Phases /\ at[l].clearing \in BOOLEAN /\ at[l].chan \in 0..72
      /\ last \in AnyFrame
  BY DEF TypeInv, LinkState
<1>2. ASSUME at[l].ph \in {"up", "down", "scan"}, ~at[l].clearing
      PROVE  last.cmd \in 0..3
  <2>1. last.cmd # 255 /\ last.cmd # 4
    BY <1>2 DEF LinkInv, DriveInv, Reset
  <2>2. last.cmd \in 0..4 \cup {255}
    BY <1>1 DEF AnyFrame
  <2> QED BY <2>1, <2>2
<1>3. CASE at[l].ph \in {"idle", "start"}
  BY <1>3 DEF LinkInv, RestInv
<1>4. CASE at[l].ph \in {"up", "down"} /\ at[l].clearing
  BY <1>4 DEF LinkInv, ClearInv
<1>5. CASE at[l].ph \in {"up", "down"} /\ ~at[l].clearing
  <2>1. Drives(last) /\ out \subseteq Done(last, at[l].chan)
    BY <1>5 DEF LinkInv, WriteInv
  <2>2. Done(last, at[l].chan) \subseteq Driven(last)
    BY <1>1, <1>2, <1>5, <2>1, DoneDriven
  <2> QED BY <2>1, <2>2
<1>6. CASE at[l].ph = "scan"
  <2>1. /\ ~at[l].clearing /\ out = Done(last, at[l].chan)
        /\ (at[l].chan > 0 => Drives(last))
    BY <1>6 DEF LinkInv, LoopInv
  <2>2. Done(last, at[l].chan) \subseteq Driven(last)
    BY <1>1, <1>2, <1>6, <2>1, DoneDriven
  <2> QED BY <2>1, <2>2
<1> QED BY <1>1, <1>3, <1>4, <1>5, <1>6 DEF Phases

LEMMA LinkBreak ==
  ASSUME NEW l \in Links, TypeInv, LinkInv(l)
  PROVE  BreakBeforeMake
<1>1. last \in AnyFrame /\ before \in AnyFrame
  BY DEF TypeInv
<1> QED BY <1>1, LinkDriven, DrivenAsked DEF BreakBeforeMake

LEMMA LinkTypeOK ==
  ASSUME NEW l \in Links, TypeInv, LinkInv(l)
  PROVE  TypeOK
<1>1. out \subseteq 0..215
  <2>1. Driven(last) \subseteq 0..215 /\ Driven(before) \subseteq 0..215
    BY DrivenType DEF TypeInv
  <2> QED BY <2>1, LinkDriven
<1>2. \A k \in Links : at[k].ph \in Phases /\ at[k].n \in Latches /\ at[k].chan \in 0..72
  BY DEF TypeInv, LinkState
<1>3. OhmRange = 0..(128 * 256 - 1)
  BY Zenon DEF OhmRange
<1> QED BY <1>1, <1>2, <1>3 DEF TypeInv, TypeOK

LEMMA LinkRest ==
  ASSUME NEW l \in Links, TypeInv, LinkInv(l)
  PROVE  RelaysAsAsked /\ ResistanceAsAsked
<1> SUFFICES ASSUME AllIdle PROVE RelaysAsAsked /\ ResistanceAsAsked
  BY DEF RelaysAsAsked, ResistanceAsAsked
<1>1. /\ out = Driven(last) /\ dq = out
      /\ ohm = IF Drives(last) THEN OhmOf(last) ELSE 0
  BY DEF AllIdle, LinkInv, RestInv
<1>2. last \in AnyFrame /\ last.byte12 \in 0..31
  BY DEF TypeInv, AnyFrame
<1>3. RelaysAsAsked
  BY <1>1, <1>2, DrivenAsked DEF RelaysAsAsked
<1> DEFINE t == FaultType(last)
           b == last.byte12
           small == last.res < 128 * 256
           two == Cardinality(last.chans) = 2
<1>4. /\ t \in 0..15 /\ (b \in 0..15 => t = b) /\ (~WithLoad(last) => t = b)
      /\ two => last.chans # {}
  BY <1>2, ByteFacts, CardZero
<1>5. /\ AskedOhm(last) = IF last.cmd = 2 /\ t \in 1..7 /\ small
                               /\ (IF t = 6 THEN two ELSE last.chans # {})
                         THEN last.res ELSE 0
      /\ ohm = IF last.cmd = 2 /\ b \in 1..7 /\ small
                   /\ (IF b = 6 THEN two ELSE last.chans # {})
              THEN last.res ELSE 0
  <2>1. AskedOhm(last) = IF last.cmd = 2 /\ t \in 1..7 /\ small
                              /\ (IF t = 6 THEN two ELSE last.chans # {})
                         THEN last.res ELSE 0
    BY DEF AskedOhm
  <2>2. ohm = IF Drives(last) /\ last.cmd = 2 /\ b \in 1..7 /\ small THEN last.res ELSE 0
    BY <1>1 DEF OhmOf
  <2>3. ASSUME last.cmd = 2, b \in 1..7
        PROVE  Drives(last) <=> (IF b = 6 THEN two ELSE last.chans # {})
    BY <1>4, <2>3 DEF Drives, Silent, Ecu
  <2> QED BY <2>1, <2>2, <2>3
<1> HIDE DEF t, b, small, two
<1>6. b \in 1..7 => t = b
  BY <1>4
<1>7. ohm \in {0, AskedOhm(last)} /\ (~WithLoad(last) => ohm = AskedOhm(last))
  <2>1. CASE t = b
    BY <1>5, <2>1
  <2>2. CASE t # b
    BY <1>4, <1>5, <1>6, <2>2
  <2> QED BY <2>1, <2>2
<1> QED BY <1>3, <1>7 DEF ResistanceAsAsked

LEMMA UnitFacts ==
  ASSUME TypeInv, UnitInv, OneAtATime
  PROVE  TypeOK /\ RelaysAsAsked /\ BreakBeforeMake /\ ResistanceAsAsked
<1>1. PICK l \in Links : \A k \in Links \ {l} : at[k].ph = "idle"
  BY RelayLinksAssumption DEF OneAtATime
<1>2. LinkInv(l)
  BY <1>1 DEF UnitInv
<1> QED BY <1>2, LinkTypeOK, LinkRest, LinkBreak

LEMMA OneLink ==
  ASSUME NEW l, Links = {l}
  PROVE  OneAtATime
BY DEF OneAtATime

-----------------------------------------------------------------------------
(* FiuCom_Process and the two clocking routines, called from any links:     *)
(* latch numbers, channel numbers, bus values, control lines and resistance *)
(* stay in range, and a link's pending writes are about relays of the latch *)
(* they clock.                                                              *)
THEOREM RelayTypes == Spec => []TypeInv
<1>1. Init => TypeInv
  BY TypeInit
<1>2. TypeInv /\ [Next]_vars => TypeInv'
  BY TypeStep
<1> QED BY <1>1, <1>2, PTL DEF Spec

(* Frames of any links that come one after the other, as when the host uses *)
(* UDP and CAN in turn: all that is promised of relays, latches, shadow     *)
(* copy and resistance holds at every step of FiuCom_Process.               *)
THEOREM RelaysWithoutOverlap ==
  Spec /\ []OneAtATime => [](TypeOK /\ RelaysAsAsked /\ BreakBeforeMake /\ ResistanceAsAsked)
<1>1. Init => UnitInv
  BY InitLink DEF UnitInv
<1>2. TypeInv /\ UnitInv /\ OneAtATime /\ OneAtATime' /\ [Next]_vars => UnitInv'
  BY UnitStep
<1>3. TypeInv /\ UnitInv /\ OneAtATime =>
        TypeOK /\ RelaysAsAsked /\ BreakBeforeMake /\ ResistanceAsAsked
  BY UnitFacts
<1> QED BY <1>1, <1>2, <1>3, RelayTypes, PTL DEF Spec

(* Called from one link, FiuCom_Process also never closes an output that    *)
(* has no relay.                                                            *)
THEOREM RelayTypeOK ==
  ASSUME NEW l, Links = {l}
  PROVE  Spec => []TypeOK
<1>1. OneAtATime
  BY OneLink
<1> QED BY <1>1, RelaysWithoutOverlap, PTL

(* Called from one link, FiuCom_Process returns with uDqStatus equal to the *)
(* latches and no relay closed that the fault type of its frame does not    *)
(* ask for; all of them are closed if the type is listed and without load.  *)
THEOREM RelaysFollowFrame ==
  ASSUME NEW l, Links = {l}
  PROVE  Spec => []RelaysAsAsked
<1>1. OneAtATime
  BY OneLink
<1> QED BY <1>1, RelaysWithoutOverlap, PTL

(* Called from one link, at every clock edge of tdreset_process and of the  *)
(* set routines the closed relays are those of one frame only.              *)
THEOREM RelaysBreakBeforeMake ==
  ASSUME NEW l, Links = {l}
  PROVE  Spec => []BreakBeforeMake
<1>1. OneAtATime
  BY OneLink
<1> QED BY <1>1, RelaysWithoutOverlap, PTL

(* Called from one link, FiuCom_Process leaves no resistance of an earlier  *)
(* frame behind, and sets that of its own frame if it is without load.      *)
THEOREM ResistanceFollowsFrame ==
  ASSUME NEW l, Links = {l}
  PROVE  Spec => []ResistanceAsAsked
<1>1. OneAtATime
  BY OneLink
<1> QED BY <1>1, RelaysWithoutOverlap, PTL

(* FiuProcess.c:723 compares the whole byte 12: a leakage frame with load,  *)
(* whatever its fault type and channels, leaves every relay open and no     *)
(* resistance in the circuit.  readme.txt has the load in bits 7-4 and the  *)
(* fault type in bits 3-0 of this byte.                                     *)
LeakageLostWithLoad ==
  AllIdle /\ last.cmd = 2 /\ WithLoad(last) => out = {} /\ ohm = 0

(* As long as no two links overlap, every leakage frame with load is lost   *)
(* in this way (ksldmn_process, FiuProcess.c:723).                          *)
THEOREM LoadedLeakageIsLost == Spec /\ []OneAtATime => []LeakageLostWithLoad
<1>1. Init => UnitInv
  BY InitLink DEF UnitInv
<1>2. TypeInv /\ UnitInv /\ OneAtATime /\ OneAtATime' /\ [Next]_vars => UnitInv'
  BY UnitStep
<1>3. TypeInv /\ UnitInv /\ OneAtATime => LeakageLostWithLoad
  <2> SUFFICES ASSUME TypeInv, UnitInv, OneAtATime, AllIdle, last.cmd = 2, WithLoad(last)
               PROVE  out = {} /\ ohm = 0
    BY DEF LeakageLostWithLoad
  <2>1. PICK l \in Links : \A k \in Links \ {l} : at[k].ph = "idle"
    BY RelayLinksAssumption DEF OneAtATime
  <2>2. out = Driven(last) /\ ohm = IF Drives(last) THEN OhmOf(last) ELSE 0
    BY <2>1 DEF UnitInv, LinkInv, RestInv, AllIdle
  <2>3. last \in AnyFrame
    BY DEF TypeInv
  <2>4. last.byte12 \in 0..31 /\ last.byte12 \notin 0..7
    BY <2>3 DEF AnyFrame, WithLoad
  <2>5. Silent(last)
    BY <2>4 DEF Silent
  <2> QED BY <2>2, <2>3, <2>5, DrivenFacts DEF Drives
<1> QED BY <1>1, <1>2, <1>3, RelayTypes, PTL DEF Spec
=============================================================================
