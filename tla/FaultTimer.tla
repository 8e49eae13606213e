----------------------------- MODULE FaultTimer -----------------------------
(***************************************************************************)
(* The activation half of the FIU command interpreter: command 0x10 starts *)
(* the configured fault (startFault), 0x11 resets the relays, timer TIM2   *)
(* ends a fault after g_Ptime ms from its interrupt, and TIM10 drives pin  *)
(* PF6 with a PWM signal for a loose contact.                              *)
(*                                                                         *)
(* The interrupt comes between any two steps of a handler.  FiuCom_Process *)
(* sleeps in delay_ms while it drives the latches, so a handler of the UDP *)
(* thread can be overtaken by the CAN task there, and the CAN task (which  *)
(* has the lower priority) is preempted by the UDP thread anywhere, also   *)
(* between the stop of the PWM and the stop of the timer.  Configuration   *)
(* commands do not sleep; what they put into the frame is the subject of   *)
(* FiuConfig.                                                              *)
(***************************************************************************)
EXTENDS Integers

CONSTANTS
  Links,  \* the links the host uses: "udp", "can" or both
  Times,  \* the activation times of command 0x05, in ms; 0 is no limit
  Loose   \* the pairs <<frequency, duty>> of command 0x04 that pass its check

MaxTime == 65500       \* the longest time 0x05 accepts
Second  == 10000       \* one second in units of 100 us
Word16  == 256 * 256

ASSUME LinksAssumption == Links \subseteq {"udp", "can"} /\ Links # {}
ASSUME TimesAssumption == Times \subseteq 0..MaxTime
ASSUME LooseAssumption == Loose \subseteq (0..255) \X (0..255)

VARIABLES
  pc,      \* per link: "idle", or the next step of its handler
  buf,     \* per link: what its FiuCom_Process has to work on; "mixed" when
           \* the links overwrite each other's copy of the frame
  par,     \* g_Ptime, g_Pfreq, g_Pduty
  bLoose,  \* g_bLoose
  frame,   \* g_FiuByte17Data: "blank", "fault", "reset" or "unknown"
  gError,  \* g_Error
  status,  \* g_workStatus
  tim2,    \* "off" or "run"
  pwm,     \* TIM10: whether it runs, with which auto-reload and compare value
  pin,     \* PF6: "low" (output) or "af" (driven by TIM10)
  relays,  \* "open" since a reset, or "closed" as a fault frame says
  want,    \* history: the limit of the fault started last, 0 once it ended
  last,    \* history: the command begun last, 0x10 or 0x11
  clash    \* history: whether a command came while another link's handler of
           \* the fault or reset begun last was still running

(* The steps of startFault, of command 0x11 and of command 0x05.            *)
StartSteps == {"stop", "stop2", "copy", "drive", "pwm", "arm"}
ResetSteps == {"rtim", "rpin", "rframe", "rcopy", "reset"}
Steps      == {"idle", "build"} \cup StartSteps \cup ResetSteps

hw     == <<tim2, pwm, pin>>
config == <<par, bLoose, frame, gError>>
asked  == <<want, last, clash>>
vars   == <<pc, buf, config, status, hw, relays, asked>>

PwmOff == [on |-> FALSE, arr |-> 0, ccr |-> 1]

Init ==
  /\ pc = [l \in Links |-> "idle"]
  /\ buf = [l \in Links |-> "blank"]
  /\ par = [time |-> 0, freq |-> 0, duty |-> 0]
  /\ bLoose = 0
  /\ frame = "blank"
  /\ gError = 0
  /\ status = 0
  /\ tim2 = "off"
  /\ pwm = PwmOff
  /\ pin = "low"
  /\ relays = "open"
  /\ want = 0
  /\ last = "none"
  /\ clash = FALSE

-----------------------------------------------------------------------------
(* A link sleeps in delay_ms while its FiuCom_Process drives the latches.   *)
Sleeping(l) == pc[l] \in {"drive", "reset"} /\ buf[l] \in {"fault", "reset", "mixed"}

(* The CAN task runs only while the UDP thread is blocked.                  *)
HasCpu(l) == l = "can" => \A k \in Links \ {l} : pc[k] = "idle" \/ Sleeping(k)

Goto(l, label) == pc' = [pc EXCEPT ![l] = label]

(* A command of link l begins; before it the commands had (not) clashed.    *)
Overlap(l, before) == clash' = (before \/ \E k \in Links \ {l} : pc[k] # "idle")

P_init == par' = [time |-> 0, freq |-> 0, duty |-> 0]

(* FiuCom_Process copies the frame f into uFiuCom_buf, of which there is    *)
(* only one: if the other link is in the middle of its FiuCom_Process, the  *)
(* two read, clear and drive the same buffer and latches from here on.      *)
CopyFrame(l, f) ==
  LET others == {k \in Links \ {l} : Sleeping(k)}
  IN  buf' = [k \in Links |->
                IF k \in others THEN "mixed"
                ELSE IF k # l THEN buf[k]
                ELSE IF others # {} /\ f \in {"fault", "reset"} THEN "mixed" ELSE f]

(* What FiuCom_Process does to the relays; a frame without its marks, or    *)
(* with a command number it does not know, changes nothing.                 *)
FiuCom_Process(l) ==
  \/ buf[l] = "fault" /\ relays' = "closed"
  \/ buf[l] = "reset" /\ relays' = "open"
  \/ buf[l] = "mixed" /\ relays' \in {"open", "closed"}
  \/ buf[l] \in {"blank", "unknown"} /\ UNCHANGED relays

(* Integer division as the machine does it: towards 0, and 0 for n / 0.     *)
Div(a, b) == IF b = 0 THEN 0 ELSE IF a >= 0 THEN a \div b ELSE -((-a) \div b)

(* Slip: the compare value is not raised to 1.                             *)
PwmSettings_NoFloor ==
  LET arr == Div(Second, par.freq)
  IN  [on |-> TRUE, arr |-> arr, ccr |-> Div((100 - par.duty) * arr, 100)]

(* The PWM period in units of 100 us and the compare value, both u16.       *)
PwmSettings ==
  LET arr == Div(Second, par.freq) % Word16
      ccr == Div((100 - par.duty) * arr, 100) % Word16
  IN  [on |-> TRUE, arr |-> arr, ccr |-> IF ccr < 1 THEN 1 ELSE ccr]

-----------------------------------------------------------------------------
(* Command 0x10.  startFault marks the unit as working ...                  *)
StartFault(l) ==
  /\ pc[l] = "idle" /\ HasCpu(l)
  /\ status' = 1
  /\ Goto(l, "stop")
  /\ want' = par.time
  /\ last' = "0x10"
  /\ Overlap(l, FALSE)
  /\ UNCHANGED <<buf, config, hw, relays>>

(* ... stops the PWM of the previous fault (the pin stays where it is) ...  *)
StopPwm(l) ==
  /\ pc[l] = "stop" /\ HasCpu(l)
  /\ pwm' = PwmOff
  /\ Goto(l, "stop2")
  /\ UNCHANGED <<buf, config, status, tim2, pin, relays, asked>>

(* ... and its timer ...                                                    *)
StopTimer(l) ==
  /\ pc[l] = "stop2" /\ HasCpu(l)
  /\ tim2' = "off"
  /\ Goto(l, "copy")
  /\ UNCHANGED <<buf, config, status, pwm, pin, relays, asked>>

(* ... FiuCom_Process copies the frame ...                                  *)
CopyFault(l) ==
  /\ pc[l] = "copy" /\ HasCpu(l)
  /\ CopyFrame(l, frame)
  /\ Goto(l, "drive")
  /\ UNCHANGED <<config, status, hw, relays, asked>>

(* ... drives the latches, sleeping between them ...                        *)
Drive(l) ==
  /\ pc[l] = "drive" /\ HasCpu(l)
  /\ FiuCom_Process(l)
  /\ Goto(l, "pwm")
  /\ UNCHANGED <<buf, config, status, hw, asked>>

(* ... starts the PWM of a loose contact ...                                *)
StartPwm(l) ==
  /\ pc[l] = "pwm" /\ HasCpu(l)
  /\ IF bLoose = 1 THEN pwm' = PwmSettings /\ pin' = "af"
     ELSE UNCHANGED <<pwm, pin>>
  /\ Goto(l, "arm")
  /\ UNCHANGED <<buf, config, status, tim2, relays, asked>>

(* Slip: a limit of 1 ms arms no timer.                                    *)
ArmTimer_OffByOne(l) ==
  /\ pc[l] = "arm" /\ HasCpu(l)
  /\ tim2' = IF par.time > 1 THEN "run" ELSE tim2
  /\ Goto(l, "idle")
  /\ UNCHANGED <<buf, config, status, pwm, pin, relays, asked>>

(* ... and arms the timer, if g_Ptime (read only now) sets a limit.         *)
ArmTimer(l) ==
  /\ pc[l] = "arm" /\ HasCpu(l)
  /\ tim2' = IF par.time > 0 THEN "run" ELSE tim2
  /\ Goto(l, "idle")
  /\ UNCHANGED <<buf, config, status, pwm, pin, relays, asked>>

(* Command 0x11: the PWM off ...                                            *)
ResetRelay(l) ==
  /\ pc[l] = "idle" /\ HasCpu(l)
  /\ pwm' = PwmOff
  /\ Goto(l, "rtim")
  /\ want' = 0 /\ last' = "0x11" /\ Overlap(l, FALSE)
  /\ UNCHANGED <<buf, config, status, tim2, pin, relays>>

(* Slip: the timer of the fault keeps running through a reset.             *)
ResetTimer_Kept(l) ==
  /\ pc[l] = "rtim" /\ HasCpu(l)
  /\ Goto(l, "rpin")
  /\ UNCHANGED <<buf, config, status, hw, relays, asked>>

(* ... the timer off (over UDP a second time below, to no effect) ...       *)
ResetTimer(l) ==
  /\ pc[l] = "rtim" /\ HasCpu(l)
  /\ tim2' = "off"
  /\ Goto(l, "rpin")
  /\ UNCHANGED <<buf, config, status, pwm, pin, relays, asked>>

(* ... PF6 an output and low ...                                            *)
ResetPin(l) ==
  /\ pc[l] = "rpin" /\ HasCpu(l)
  /\ pin' = "low"
  /\ Goto(l, "rframe")
  /\ UNCHANGED <<buf, config, status, tim2, pwm, relays, asked>>

(* ... the frame turned into the reset frame ...                            *)
ResetFrame(l) ==
  /\ pc[l] = "rframe" /\ HasCpu(l)
  /\ frame' = "reset"
  /\ Goto(l, "rcopy")
  /\ UNCHANGED <<buf, par, bLoose, gError, status, hw, relays, asked>>

(* ... and copied ...                                                       *)
CopyReset(l) ==
  /\ pc[l] = "rcopy" /\ HasCpu(l)
  /\ CopyFrame(l, frame)
  /\ Goto(l, "reset")
  /\ UNCHANGED <<config, status, hw, relays, asked>>

(* ... the latches driven, and the registers cleared.  g_workStatus stays.  *)
ResetDone(l) ==
  /\ pc[l] = "reset" /\ HasCpu(l)
  /\ FiuCom_Process(l)
  /\ IF gError = 0 THEN P_init ELSE UNCHANGED par
  /\ Goto(l, "idle")
  /\ UNCHANGED <<buf, bLoose, frame, gError, status, hw, asked>>

-----------------------------------------------------------------------------
(* Command 0x05 with time t ...                                             *)
ConfigDone(l, t) ==
  /\ pc[l] = "idle" /\ HasCpu(l)
  /\ par' = [par EXCEPT !.time = t]
  /\ IF gError = 0 THEN Goto(l, "build") ELSE UNCHANGED pc
  /\ Overlap(l, clash)
  /\ UNCHANGED <<buf, bLoose, frame, gError, status, hw, relays, want, last>>

(* ... builds the frame.  Without an open session it gets the command       *)
(* number 255.                                                              *)
BuildFrame(l) ==
  /\ pc[l] = "build" /\ HasCpu(l)
  /\ frame' \in {"fault", "unknown"}
  /\ Goto(l, "idle")
  /\ UNCHANGED <<buf, par, bLoose, gError, status, hw, relays, asked>>

(* Command 0x04 switching the loose contact on.                             *)
LooseOn(l, fd) ==
  /\ pc[l] = "idle" /\ HasCpu(l)
  /\ bLoose' = 1
  /\ par' = [par EXCEPT !.freq = fd[1], !.duty = fd[2]]
  /\ Overlap(l, clash)
  /\ UNCHANGED <<pc, buf, frame, gError, status, hw, relays, want, last>>

(* Command 0x04 switching it off, a refused configuration command, and a    *)
(* fuse test: all clear time, frequency and duty and leave g_bLoose.        *)
ParametersCleared(l) ==
  /\ pc[l] = "idle" /\ HasCpu(l)
  /\ P_init
  /\ Overlap(l, clash)
  /\ UNCHANGED <<pc, buf, bLoose, frame, gError, status, hw, relays, want, last>>

Command(l) ==
  \/ StartFault(l)
  \/ ResetRelay(l)
  \/ \E t \in Times : ConfigDone(l, t)
  \/ \E fd \in Loose : LooseOn(l, fd)
  \/ ParametersCleared(l)

Handler(l) ==
  \/ StopPwm(l) \/ StopTimer(l) \/ CopyFault(l) \/ Drive(l) \/ StartPwm(l) \/ ArmTimer(l)
  \/ ResetTimer(l) \/ ResetPin(l) \/ ResetFrame(l) \/ CopyReset(l) \/ ResetDone(l)
  \/ BuildFrame(l)

-----------------------------------------------------------------------------
(* The timer ends the fault whose handler is no longer about to replace it. *)
FaultEnds == want' = IF \E l \in Links : pc[l] \in {"stop", "stop2"} THEN want ELSE 0

(* Slip: PF6 is left to the stopped PWM.                                   *)
TIM2_IRQ_KeepsPin ==
  /\ tim2 = "run"
  /\ pwm' = IF bLoose = 1 THEN PwmOff ELSE pwm
  /\ tim2' = "off" /\ status' = 0
  /\ FaultEnds
  /\ UNCHANGED <<pc, buf, config, pin, relays, last, clash>>

(* Slip: the PWM is stopped only when no loose contact is configured.      *)
TIM2_IRQ_KeepsPwm ==
  /\ tim2 = "run"
  /\ pwm' = IF bLoose = 1 THEN pwm ELSE PwmOff
  /\ pin' = "low" /\ tim2' = "off" /\ status' = 0
  /\ FaultEnds
  /\ UNCHANGED <<pc, buf, config, relays, last, clash>>

(* The TIM2 interrupt: the PWM off, PF6 low, the timer off.  The relays     *)
(* keep their state.                                                        *)
TIM2_IRQ ==
  /\ tim2 = "run"
  /\ pwm' = IF bLoose = 1 THEN PwmOff ELSE pwm
  /\ pin' = "low" /\ tim2' = "off" /\ status' = 0
  /\ FaultEnds
  /\ UNCHANGED <<pc, buf, config, relays, last, clash>>

(* led_task finds a temperature switch open and enters Error_loop.          *)
OverTemperature ==
  /\ gError = 0
  /\ gError' = 1
  /\ UNCHANGED <<pc, buf, par, bLoose, frame, status, hw, relays, asked>>

(* Command 0x1C, and a power cycle: the boot code opens the relays.         *)
SystemReset ==
  /\ pc' = [l \in Links |-> "idle"]
  /\ buf' = [l \in Links |-> "blank"]
  /\ P_init
  /\ bLoose' = 0
  /\ frame' = "blank"
  /\ gError' = 0
  /\ status' = 0
  /\ tim2' = "off" /\ pwm' = PwmOff /\ pin' = "low"
  /\ relays' = "open"
  /\ want' = 0
  /\ last' = "none"
  /\ clash' = FALSE

Next ==
  \/ \E l \in Links : Command(l) \/ Handler(l)
  \/ TIM2_IRQ
  \/ OverTemperature
  \/ SystemReset

Spec == Init /\ [][Next]_vars

(* A handler that began is carried on: nothing but a delay holds it up.  A  *)
(* running timer expires and its interrupt is taken.                        *)
FairSpec == Spec /\ WF_vars(TIM2_IRQ) /\ \A l \in Links : WF_vars(Handler(l))

-----------------------------------------------------------------------------
Parameters == [time : 0..MaxTime, freq : 0..255, duty : 0..255]
Pwm        == [on : BOOLEAN, arr : 0..Word16-1, ccr : 1..Word16-1]

(* The variables, with the PWM registers as 16-bit numbers of which the    *)
(* compare value is at least 1 (the code programs it as ccr - 1).          *)
TypeOK ==
  /\ pc \in [Links -> Steps]
  /\ buf \in [Links -> {"blank", "fault", "reset", "unknown", "mixed"}]
  /\ par \in Parameters
  /\ bLoose \in 0..1
  /\ frame \in {"blank", "fault", "reset", "unknown"}
  /\ gError \in 0..1
  /\ status \in 0..1
  /\ tim2 \in {"off", "run"}
  /\ pwm \in Pwm
  /\ pin \in {"low", "af"}
  /\ relays \in {"open", "closed"}
  /\ want \in 0..MaxTime
  /\ last \in {"none", "0x10", "0x11"}
  /\ clash \in BOOLEAN

AllIdle == \A l \in Links : pc[l] = "idle"

(* A fault that was configured with a limit has its timer running once its *)
(* handler has finished, until it has ended (timer.c: the timer controls   *)
(* how long a fault is active).  A command that the other link sends while *)
(* startFault sleeps may change g_Ptime, which is read after the sleep, so *)
(* the promise is for the faults no such command overtook.                 *)
TimedFaultIsTimed ==
  AllIdle /\ ~clash /\ want > 0 /\ relays = "closed" => tim2 = "run"

(* After a reset nothing acts on the channels or is still going to: no     *)
(* relay closed, no PWM, no timer left that could fire into a later fault, *)
(* whatever the links did to each other before it.                         *)
ResetIsFinal ==
  AllIdle /\ ~clash /\ last = "0x11" => relays = "open" /\ ~pwm.on /\ tim2 = "off"

(* Whenever the PWM is off and no handler runs, PF6 is a low output again  *)
(* and not left floating on the stopped TIM10.                             *)
PinReleased == AllIdle /\ ~pwm.on => pin = "low"

(* A loose contact with a limit stops toggling sooner or later, unless a   *)
(* start or reset of one link comes into a handler of the other.  (The UDP *)
(* thread may start a timed loose contact between the two stops of a CAN   *)
(* command, which then takes away its timer only.)                         *)
TimedPwmStops == (pwm.on /\ tim2 = "run" /\ ~clash) ~> (~pwm.on \/ clash)
=============================================================================
