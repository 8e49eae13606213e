-------------------------- MODULE FaultTimerProofs --------------------------
(***************************************************************************)
(* Proofs about FaultTimer, for all activation times and loose-contact     *)
(* settings and any use of the two links: the hardware is left in order,   *)
(* and a fault or reset that no command of the other link overtakes gets   *)
(* its limit, or its quiet, whatever happened before it.                   *)
(***************************************************************************)
EXTENDS FaultTimer, TLAPS

(* The PWM settings fit 16 bits, for a frequency of 0 too.                  *)
LEMMA PwmTypes ==
  ASSUME par \in Parameters
  PROVE  PwmSettings \in Pwm /\ PwmSettings.on /\ PwmOff \in Pwm /\ ~PwmOff.on
<1> DEFINE a == Div(Second, par.freq) % Word16
           c == Div((100 - par.duty) * a, 100) % Word16
<1>1. Word16 \in Nat /\ Word16 > 1
  BY DEF Word16
<1>2. \A x \in Int : x % Word16 \in 0..Word16-1
  BY <1>1
<1>3. par.freq \in Nat /\ par.duty \in Nat
  BY DEF Parameters
<1>4. \A x \in Int, y \in Nat : Div(x, y) \in Int
  <2> SUFFICES ASSUME NEW x \in Int, NEW y \in Nat PROVE Div(x, y) \in Int
    OBVIOUS
  <2>1. CASE y = 0 BY <2>1 DEF Div
  <2>2. CASE y # 0 /\ x >= 0 BY <2>2 DEF Div
  <2>3. CASE y # 0 /\ x < 0
    <3>1. (-x) \in Nat BY <2>3
    <3>2. ((-x) \div y) \in Int BY <2>3, <3>1
    <3> QED BY <2>3, <3>2 DEF Div
  <2> QED BY <2>1, <2>2, <2>3
<1>5. Second \in Int
  BY DEF Second
<1>6. a \in 0..Word16-1
  BY <1>2, <1>3, <1>4, <1>5
<1> HIDE DEF a
<1>7. (100 - par.duty) * a \in Int
  BY <1>1, <1>3, <1>6
<1>8. c \in 0..Word16-1
  BY <1>2, <1>4, <1>7
<1>9. PwmSettings = [on |-> TRUE, arr |-> a, ccr |-> IF c < 1 THEN 1 ELSE c]
  BY DEF PwmSettings, a
<1> HIDE DEF c
<1>10. (IF c < 1 THEN 1 ELSE c) \in 1..Word16-1
  BY <1>1, <1>8
<1>11. PwmSettings \in Pwm /\ PwmSettings.on
  BY <1>6, <1>9, <1>10 DEF Pwm
<1>12. PwmOff \in Pwm /\ ~PwmOff.on
  BY <1>1 DEF PwmOff, Pwm
<1> QED BY <1>11, <1>12

LEMMA Bounds ==
  /\ MaxTime \in Nat
  /\ [time |-> 0, freq |-> 0, duty |-> 0] \in Parameters
<1>1. MaxTime \in Nat
  BY DEF MaxTime
<1> QED BY <1>1 DEF Parameters

(* One step of a handler, a command, the timer or the environment keeps the *)
(* types.                                                                   *)
LEMMA TypeStep == TypeOK /\ [Next]_vars => TypeOK'
<1> SUFFICES ASSUME TypeOK, [Next]_vars PROVE TypeOK'
  OBVIOUS
<1>0. PwmSettings \in Pwm /\ PwmOff \in Pwm
  BY PwmTypes DEF TypeOK
<1>a. pc \in [Links -> Steps] /\ buf \in [Links -> {"blank", "fault", "reset", "unknown", "mixed"}]
  BY DEF TypeOK
<1>b. ASSUME NEW l \in Links, NEW x \in Steps, Goto(l, x) PROVE pc' \in [Links -> Steps]
  BY <1>a, <1>b DEF Goto
<1>c. {"idle", "build", "stop2", "copy", "drive", "pwm", "arm", "stop",
       "rtim", "rpin", "rframe", "rcopy", "reset"} \subseteq Steps
  BY DEF Steps, StartSteps, ResetSteps
<1>d. ASSUME NEW l \in Links, CopyFrame(l, frame)
      PROVE  buf' \in [Links -> {"blank", "fault", "reset", "unknown", "mixed"}]
  BY <1>a, <1>d DEF CopyFrame, TypeOK
<1>1. ASSUME NEW l \in Links, StartFault(l) PROVE TypeOK'
  <2>1. par.time \in 0..MaxTime
    BY DEF TypeOK, Parameters
  <2>2. pc' \in [Links -> Steps]
    BY <1>1, <1>b, <1>c DEF StartFault
  <2> QED BY <1>1, <2>1, <2>2 DEF StartFault, TypeOK, config, hw, Overlap
<1>2. ASSUME NEW l \in Links, StopPwm(l) \/ StopTimer(l) \/ CopyFault(l) PROVE TypeOK'
  <2>1. pc' \in [Links -> Steps]
    BY <1>2, <1>b, <1>c DEF StopPwm, StopTimer, CopyFault
  <2> QED BY <1>0, <1>2, <1>d, <2>1 DEF StopPwm, StopTimer, CopyFault, TypeOK, config, hw, asked
<1>3. ASSUME NEW l \in Links, Drive(l) PROVE TypeOK'
  <2>1. pc' \in [Links -> Steps]
    BY <1>3, <1>b, <1>c DEF Drive
  <2> QED BY <1>3, <2>1 DEF Drive, FiuCom_Process, TypeOK, config, hw, asked
<1>4. ASSUME NEW l \in Links, StartPwm(l) PROVE TypeOK'
  <2>1. pc' \in [Links -> Steps]
    BY <1>4, <1>b, <1>c DEF StartPwm
  <2> QED BY <1>0, <1>4, <2>1 DEF StartPwm, TypeOK, config, asked
<1>5. ASSUME NEW l \in Links, ArmTimer(l) PROVE TypeOK'
  <2>1. pc' \in [Links -> Steps]
    BY <1>5, <1>b, <1>c DEF ArmTimer
  <2> QED BY <1>5, <2>1 DEF ArmTimer, TypeOK, config, asked
<1>6. ASSUME NEW l \in Links, ResetRelay(l) PROVE TypeOK'
  <2>1. pc' \in [Links -> Steps]
    BY <1>6, <1>b, <1>c DEF ResetRelay
  <2> QED BY <1>0, <1>6, <2>1, Bounds DEF ResetRelay, TypeOK, config, Overlap
<1>15. ASSUME NEW l \in Links, ResetTimer(l) \/ ResetPin(l) \/ ResetFrame(l) \/ CopyReset(l)
       PROVE  TypeOK'
  <2>1. pc' \in [Links -> Steps]
    BY <1>15, <1>b, <1>c DEF ResetTimer, ResetPin, ResetFrame, CopyReset
  <2> QED BY <1>15, <1>d, <2>1
          DEF ResetTimer, ResetPin, ResetFrame, CopyReset, TypeOK, config, hw, asked
<1>7. ASSUME NEW l \in Links, ResetDone(l) PROVE TypeOK'
  <2>1. pc' \in [Links -> Steps]
    BY <1>7, <1>b, <1>c DEF ResetDone
  <2> QED BY <1>7, <2>1, Bounds DEF ResetDone, FiuCom_Process, P_init, TypeOK, hw, asked
<1>8. ASSUME NEW l \in Links, NEW t \in Times, ConfigDone(l, t) PROVE TypeOK'
  <2>1. t \in 0..MaxTime
    BY TimesAssumption
  <2>2. [par EXCEPT !.time = t] \in Parameters
    BY <2>1 DEF TypeOK, Parameters
  <2>3. pc' \in [Links -> Steps]
    BY <1>8, <1>a, <1>b, <1>c DEF ConfigDone
  <2> QED BY <1>8, <2>2, <2>3 DEF ConfigDone, TypeOK, hw, Overlap
<1>16. ASSUME NEW l \in Links, BuildFrame(l) PROVE TypeOK'
  <2>1. pc' \in [Links -> Steps]
    BY <1>16, <1>b, <1>c DEF BuildFrame
  <2> QED BY <1>16, <2>1 DEF BuildFrame, TypeOK, hw, asked
<1>9. ASSUME NEW l \in Links, NEW fd \in Loose, LooseOn(l, fd) PROVE TypeOK'
  <2>1. fd[1] \in 0..255 /\ fd[2] \in 0..255
    BY LooseAssumption
  <2>2. [par EXCEPT !.freq = fd[1], !.duty = fd[2]] \in Parameters
    BY <2>1 DEF TypeOK, Parameters
  <2> QED BY <1>9, <2>2 DEF LooseOn, TypeOK, hw, Overlap
<1>10. ASSUME NEW l \in Links, ParametersCleared(l) PROVE TypeOK'
  BY <1>10, Bounds DEF ParametersCleared, P_init, TypeOK, hw, Overlap
<1>11. CASE TIM2_IRQ
  BY <1>0, <1>11, Bounds DEF TIM2_IRQ, FaultEnds, TypeOK, config
<1>12. CASE OverTemperature
  BY <1>12 DEF OverTemperature, TypeOK, hw, asked
<1>13. CASE SystemReset
  <2>1. clash' \in BOOLEAN
    BY <1>13 DEF SystemReset
  <2>2. pc' \in [Links -> Steps]
    BY <1>13, <1>c DEF SystemReset
  <2> QED BY <1>0, <1>13, <2>1, <2>2, Bounds DEF SystemReset, P_init, TypeOK
<1>14. CASE UNCHANGED vars
  BY <1>14 DEF vars, config, hw, TypeOK, asked
<1> QED BY <1>1, <1>2, <1>3, <1>4, <1>5, <1>6, <1>7, <1>8, <1>9, <1>10, <1>11,
           <1>12, <1>13, <1>14, <1>15, <1>16 DEF Next, Command, Handler

LEMMA TypeInit == Init => TypeOK
<1> SUFFICES ASSUME Init PROVE TypeOK
  OBVIOUS
<1>1. par \in Parameters
  BY Bounds DEF Init
<1>2. PwmOff \in Pwm
  BY <1>1, PwmTypes
<1>3. clash \in BOOLEAN
  BY DEF Init
<1>4. pc \in [Links -> Steps]
  BY DEF Init, Steps
<1> QED BY <1>1, <1>2, <1>3, <1>4, Bounds DEF Init, TypeOK

(* Every variable keeps its type over any use of the links; the PWM compare *)
(* value is never programmed as -1.                                         *)
THEOREM TypeCorrect == Spec => []TypeOK
  BY TypeInit, TypeStep, PTL DEF Spec

-----------------------------------------------------------------------------
(* PF6 belongs to TIM10 only for a loose contact, and if TIM10 is stopped   *)
(* then by a handler that has still to start it again or to release PF6.    *)
PinPending == {"stop2", "copy", "drive", "pwm", "rtim", "rpin"}
PinInv ==
  /\ pin = "af" => bLoose = 1
  /\ pin = "af" /\ ~pwm.on => \E l \in Links : pc[l] \in PinPending

LEMMA PinStep == TypeOK /\ PinInv /\ [Next]_vars => PinInv'
<1> SUFFICES ASSUME TypeOK, PinInv, [Next]_vars PROVE PinInv'
  OBVIOUS
<1> USE DEF PinPending
<1>0. PwmSettings.on /\ pc \in [Links -> Steps]
  BY PwmTypes DEF TypeOK
<1>1. ASSUME NEW l \in Links, StartFault(l) PROVE PinInv'
  BY <1>0, <1>1 DEF StartFault, Goto, PinInv, config, hw
<1>2. ASSUME NEW l \in Links, StopPwm(l) \/ StopTimer(l) \/ CopyFault(l) PROVE PinInv'
  <2>1. CASE StopPwm(l)
    BY <1>0, <2>1 DEF StopPwm, Goto, PinInv, config
  <2>2. CASE StopTimer(l)
    BY <1>0, <2>2 DEF StopTimer, Goto, PinInv, config
  <2>3. CASE CopyFault(l)
    BY <1>0, <2>3 DEF CopyFault, Goto, PinInv, config, hw
  <2> QED BY <1>2, <2>1, <2>2, <2>3
<1>3. ASSUME NEW l \in Links, Drive(l) PROVE PinInv'
  BY <1>0, <1>3 DEF Drive, Goto, PinInv, config, hw
<1>4. ASSUME NEW l \in Links, StartPwm(l) PROVE PinInv'
  BY <1>0, <1>4 DEF StartPwm, Goto, PinInv, config
<1>5. ASSUME NEW l \in Links, ArmTimer(l) PROVE PinInv'
  BY <1>0, <1>5 DEF ArmTimer, Goto, PinInv, config
<1>6. ASSUME NEW l \in Links, ResetRelay(l) PROVE PinInv'
  BY <1>0, <1>6 DEF ResetRelay, Goto, PinInv, config
<1>15. ASSUME NEW l \in Links, ResetTimer(l) \/ ResetPin(l) \/ ResetFrame(l) \/ CopyReset(l)
       PROVE  PinInv'
  <2>1. CASE ResetTimer(l)
    BY <1>0, <2>1 DEF ResetTimer, Goto, PinInv, config
  <2>2. CASE ResetPin(l)
    BY <2>2 DEF ResetPin, PinInv
  <2>3. CASE ResetFrame(l)
    BY <1>0, <2>3 DEF ResetFrame, Goto, PinInv, hw
  <2>4. CASE CopyReset(l)
    BY <1>0, <2>4 DEF CopyReset, Goto, PinInv, config, hw
  <2> QED BY <1>15, <2>1, <2>2, <2>3, <2>4
<1>7. ASSUME NEW l \in Links, ResetDone(l) PROVE PinInv'
  BY <1>0, <1>7 DEF ResetDone, Goto, PinInv, hw
<1>8. ASSUME NEW l \in Links, NEW t \in Times, ConfigDone(l, t) PROVE PinInv'
  BY <1>0, <1>8 DEF ConfigDone, Goto, PinInv, hw
<1>16. ASSUME NEW l \in Links, BuildFrame(l) PROVE PinInv'
  BY <1>0, <1>16 DEF BuildFrame, Goto, PinInv, hw
<1>9. ASSUME NEW l \in Links, NEW fd \in Loose, LooseOn(l, fd) PROVE PinInv'
  BY <1>9 DEF LooseOn, PinInv, hw
<1>10. ASSUME NEW l \in Links, ParametersCleared(l) PROVE PinInv'
  BY <1>10 DEF ParametersCleared, PinInv, hw
<1>11. CASE TIM2_IRQ
  BY <1>11 DEF TIM2_IRQ, PinInv
<1>12. CASE OverTemperature
  BY <1>12 DEF OverTemperature, PinInv, hw
<1>13. CASE SystemReset
  BY <1>13 DEF SystemReset, PinInv
<1>14. CASE UNCHANGED vars
  BY <1>14 DEF vars, config, hw, PinInv
<1> QED BY <1>1, <1>2, <1>3, <1>4, <1>5, <1>6, <1>7, <1>8, <1>9, <1>10, <1>11,
           <1>12, <1>13, <1>14, <1>15, <1>16 DEF Next, Command, Handler

(* With any number of links, in every interleaving with the timer, PF6 is a *)
(* low output whenever the PWM is off and no handler runs.                  *)
THEOREM PinCorrect == Spec => []PinReleased
<1>1. Init => PinInv
  BY DEF Init, PinInv
<1>2. TypeOK /\ PinInv => PinReleased
  BY DEF TypeOK, PinInv, PinPending, PinReleased, AllIdle
<1> QED BY <1>1, <1>2, TypeInit, TypeStep, PinStep, PTL DEF Spec

-----------------------------------------------------------------------------
(* As long as no command overtook it, the handler of the fault or reset     *)
(* begun last runs alone.  From StartFault on, the limit asked for is the   *)
(* one in g_Ptime; between StopTimer and ArmTimer the timer is off, so its  *)
(* interrupt cannot end the fault that is being started; a reset is the     *)
(* last word until the next start.  Command 0x05 disturbs nothing of this   *)
(* between its two steps.                                                   *)
Alone == \A l, k \in Links : pc[l] # "idle" /\ pc[k] # "idle" => l = k
LinkInv(l) ==
  /\ pc[l] \in StartSteps => want = par.time /\ last = "0x10"
  /\ pc[l] \in (StartSteps \cup ResetSteps) \ {"stop", "stop2", "rtim"} => tim2 = "off"
  /\ pc[l] \in ResetSteps => ~pwm.on /\ want = 0 /\ last = "0x11"
  /\ pc[l] = "rcopy" => frame = "reset"
  /\ pc[l] = "reset" => buf[l] = "reset"
QuietInv ==
  (\A l \in Links : pc[l] \in {"idle", "build"}) =>
     /\ want > 0 => tim2 = "run"
     /\ last = "0x11" => relays = "open" /\ ~pwm.on /\ tim2 = "off"
OrderInv == ~clash => Alone /\ QuietInv /\ \A l \in Links : LinkInv(l)

LEMMA OrderStep == TypeOK /\ OrderInv /\ [Next]_vars => OrderInv'
<1> SUFFICES ASSUME TypeOK, OrderInv, [Next]_vars, ~clash' PROVE OrderInv'
  BY DEF OrderInv
<1> USE DEF LinkInv, QuietInv, Alone, StartSteps, ResetSteps
<1>0. /\ pc \in [Links -> Steps]
      /\ buf \in [Links -> {"blank", "fault", "reset", "unknown", "mixed"}]
      /\ par.time \in 0..MaxTime /\ ~PwmOff.on
  BY PwmTypes DEF TypeOK, Parameters
<1>1. ASSUME NEW l \in Links, StartFault(l) PROVE OrderInv'
  <2>1. \A k \in Links \ {l} : pc[k] = "idle"
    BY <1>1 DEF StartFault, Overlap
  <2> QED BY <1>0, <1>1, <2>1 DEF StartFault, Goto, OrderInv, config, hw
<1>2. ASSUME NEW l \in Links, StopPwm(l) \/ StopTimer(l) \/ CopyFault(l) PROVE OrderInv'
  <2>1. CASE StopPwm(l)
    BY <1>0, <2>1 DEF StopPwm, Goto, OrderInv, config, asked
  <2>2. CASE StopTimer(l)
    BY <1>0, <2>2 DEF StopTimer, Goto, OrderInv, config, asked
  <2>3. CASE CopyFault(l)
    BY <1>0, <2>3 DEF CopyFault, CopyFrame, Goto, OrderInv, config, hw, asked
  <2> QED BY <1>2, <2>1, <2>2, <2>3
<1>3. ASSUME NEW l \in Links, Drive(l) PROVE OrderInv'
  BY <1>0, <1>3 DEF Drive, Goto, OrderInv, config, hw, asked
<1>4. ASSUME NEW l \in Links, StartPwm(l) PROVE OrderInv'
  BY <1>0, <1>4 DEF StartPwm, Goto, OrderInv, config, asked
<1>5. ASSUME NEW l \in Links, ArmTimer(l) PROVE OrderInv'
  BY <1>0, <1>5, Bounds DEF ArmTimer, Goto, OrderInv, config, asked
<1>6. ASSUME NEW l \in Links, ResetRelay(l) PROVE OrderInv'
  <2>1. \A k \in Links \ {l} : pc[k] = "idle"
    BY <1>6 DEF ResetRelay, Overlap
  <2>2. /\ pc'[l] = "rtim" /\ \A k \in Links \ {l} : pc'[k] = "idle"
        /\ ~pwm'.on /\ want' = 0 /\ last' = "0x11"
    BY <1>0, <1>6, <2>1 DEF ResetRelay, Goto
  <2> QED BY <2>2 DEF OrderInv
<1>15. ASSUME NEW l \in Links, ResetTimer(l) \/ ResetPin(l) \/ ResetFrame(l) \/ CopyReset(l)
       PROVE  OrderInv'
  <2>1. CASE ResetTimer(l)
    BY <1>0, <2>1 DEF ResetTimer, Goto, OrderInv, config, asked
  <2>2. CASE ResetPin(l)
    BY <1>0, <2>2 DEF ResetPin, Goto, OrderInv, config, asked
  <2>3. CASE ResetFrame(l)
    BY <1>0, <2>3 DEF ResetFrame, Goto, OrderInv, hw, asked
  <2>4. CASE CopyReset(l)
    <3>1. /\ pc[l] = "rcopy" /\ pc' = [pc EXCEPT ![l] = "reset"] /\ ~clash
          /\ UNCHANGED <<want, last, tim2, pwm, frame, par>>
      BY <2>4 DEF CopyReset, Goto, config, hw, asked
    <3>2. /\ frame = "reset" /\ ~pwm.on /\ want = 0 /\ last = "0x11" /\ tim2 = "off"
          /\ \A k \in Links \ {l} : pc[k] = "idle"
      BY <3>1 DEF OrderInv
    <3>3. buf'[l] = "reset"
      BY <2>4, <3>2 DEF CopyReset, CopyFrame, Sleeping
    <3>4. pc'[l] = "reset" /\ \A k \in Links \ {l} : pc'[k] = "idle"
      BY <1>0, <3>1, <3>2
    <3> QED BY <3>1, <3>2, <3>3, <3>4 DEF OrderInv
  <2> QED BY <1>15, <2>1, <2>2, <2>3, <2>4
<1>7. ASSUME NEW l \in Links, ResetDone(l) PROVE OrderInv'
  <2>1. /\ pc[l] = "reset" /\ pc' = [pc EXCEPT ![l] = "idle"] /\ ~clash
        /\ UNCHANGED <<want, last, tim2, pwm>>
    BY <1>7 DEF ResetDone, Goto, hw, asked
  <2>2. /\ buf[l] = "reset" /\ ~pwm.on /\ want = 0 /\ tim2 = "off"
        /\ \A k \in Links \ {l} : pc[k] = "idle"
    BY <2>1 DEF OrderInv
  <2>3. relays' = "open"
    BY <1>7, <2>2 DEF ResetDone, FiuCom_Process
  <2>4. \A k \in Links : pc'[k] = "idle"
    BY <1>0, <2>1, <2>2
  <2> QED BY <2>1, <2>2, <2>3, <2>4 DEF OrderInv
<1>8. ASSUME NEW l \in Links, NEW t \in Times, ConfigDone(l, t) PROVE OrderInv'
  <2>1. /\ ~clash /\ \A k \in Links : pc[k] = "idle"
        /\ UNCHANGED <<tim2, pwm, relays, want, last>>
    BY <1>8 DEF ConfigDone, Overlap, hw
  <2>2. /\ pc'[l] \in {"idle", "build"} /\ \A k \in Links \ {l} : pc'[k] = "idle"
    BY <1>0, <1>8, <2>1 DEF ConfigDone, Goto
  <2> QED BY <2>1, <2>2 DEF OrderInv
<1>16. ASSUME NEW l \in Links, BuildFrame(l) PROVE OrderInv'
  <2>1. /\ ~clash /\ pc[l] = "build" /\ pc' = [pc EXCEPT ![l] = "idle"]
        /\ UNCHANGED <<tim2, pwm, relays, want, last>>
    BY <1>16 DEF BuildFrame, Goto, hw, asked
  <2>2. \A k \in Links \ {l} : pc[k] = "idle"
    BY <2>1 DEF OrderInv
  <2>3. \A k \in Links : pc'[k] = "idle"
    BY <1>0, <2>1, <2>2
  <2> QED BY <2>1, <2>2, <2>3 DEF OrderInv
<1>9. ASSUME NEW l \in Links, NEW fd \in Loose, LooseOn(l, fd) PROVE OrderInv'
  <2>1. /\ ~clash /\ \A k \in Links : pc[k] = "idle"
        /\ UNCHANGED <<pc, tim2, pwm, relays, want, last>>
    BY <1>9 DEF LooseOn, Overlap, hw
  <2> QED BY <2>1 DEF OrderInv
<1>10. ASSUME NEW l \in Links, ParametersCleared(l) PROVE OrderInv'
  <2>1. /\ ~clash /\ \A k \in Links : pc[k] = "idle"
        /\ UNCHANGED <<pc, tim2, pwm, relays, want, last>>
    BY <1>10 DEF ParametersCleared, Overlap, hw
  <2> QED BY <2>1 DEF OrderInv
<1>11. CASE TIM2_IRQ
  BY <1>0, <1>11 DEF TIM2_IRQ, FaultEnds, OrderInv, config
<1>12. CASE OverTemperature
  BY <1>12 DEF OverTemperature, OrderInv, hw, asked
<1>13. CASE SystemReset
  BY <1>0, <1>13 DEF SystemReset, OrderInv
<1>14. CASE UNCHANGED vars
  BY <1>14 DEF vars, config, hw, asked, OrderInv
<1> QED BY <1>1, <1>2, <1>3, <1>4, <1>5, <1>6, <1>7, <1>8, <1>9, <1>10, <1>11,
           <1>12, <1>13, <1>14, <1>15, <1>16 DEF Next, Command, Handler

LEMMA OrderInit == Init => OrderInv
  BY DEF Init, OrderInv, Alone, LinkInv, QuietInv, StartSteps, ResetSteps

(* A fault no other command overtook gets the limit it was configured with: *)
(* its timer runs once the handler has finished, whenever the previous      *)
(* timer fired and whatever the links did before.                           *)
THEOREM TimedCorrect == Spec => []TimedFaultIsTimed
<1>1. OrderInv => TimedFaultIsTimed
  BY DEF OrderInv, QuietInv, AllIdle, TimedFaultIsTimed
<1> QED BY <1>1, TypeInit, TypeStep, OrderInit, OrderStep, PTL DEF Spec

(* A reset no other command overtook leaves the unit quiet.                 *)
THEOREM ResetCorrect == Spec => []ResetIsFinal
<1>1. OrderInv => ResetIsFinal
  BY DEF OrderInv, QuietInv, AllIdle, ResetIsFinal
<1> QED BY <1>1, TypeInit, TypeStep, OrderInit, OrderStep, PTL DEF Spec
=============================================================================
