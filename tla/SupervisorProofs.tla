-------------------------- MODULE SupervisorProofs --------------------------
(***************************************************************************)
(* Proofs about the supervisor, for any number of starts.                  *)
(***************************************************************************)
EXTENDS Supervisor, TLAPS

(* The tasks run without a network.                                         *)
Unstarted == {"off", "first", "down", "phy", "negotiate", "stack"}

Soft == {"read", "modify", "write"}

(* Where netinit_task is tells how far the stack has been built.            *)
StackInv ==
  /\ main = "boot" => net = "off"
  /\ net \in Unstarted => threads = 0 /\ dma = FALSE
  /\ net = "netif" => threads = 1 /\ dma = FALSE
  /\ net \in {"services", "up"} \cup Soft => threads = 1

(* Whatever is low on the bus, in the latch or in netinit_task's copy comes *)
(* from a switch, as long as no transfer was broken into.                   *)
BusInv ==
  /\ broken => torn
  /\ hot # {} => wasHot
  /\ ~torn /\ (low # {} \/ data # {}) => wasHot

(* netinit_task is at its beep only while the soft reset flag is set; an    *)
(* alarm that is not early finds it cleared, and one of main starts no task.*)
BeepInv ==
  /\ net \in Soft => sftrst = TRUE
  /\ gError = 1 /\ ~early => sftrst = FALSE
  /\ gError = 0 => early = sftrst
  /\ main \in {"boot", "error"} => net = "off" /\ led = "off"
  /\ main = "boot" => gError = 0
  /\ led \in {"start", "poll"} => gError = 0

-----------------------------------------------------------------------------
(* Every variable keeps its type.                                          *)
THEOREM SupervisorTypeOK == Spec => []TypeOK
<1>1. Init => TypeOK
  <2>1. 1 \in 1..MaxBoots /\ 1 \in 1..2 /\ 0 \in 0..1 /\ 0 \in Nat
    BY BootsAssumption
  <2>2. {} \in SUBSET Temps /\ "off" \in NetPoints
    BY DEF NetPoints
  <2> QED
    BY <2>1, <2>2, Zenon DEF Init, TypeOK
<1>2. TypeOK /\ [Next]_vars => TypeOK'
  <2> SUFFICES ASSUME TypeOK, [Next]_vars PROVE TypeOK'
    OBVIOUS
  <2> USE DEF TypeOK, env, board, bus, stack, hist
  <2>0. {"first", "phy", "negotiate", "stack", "down", "netif", "services", "up", "read",
         "modify", "write", "off"} \subseteq NetPoints
    BY DEF NetPoints
  <2>1. CASE MainError
    BY <2>1 DEF MainError, Error_loop
  <2>2. CASE MainStart
    BY <2>0, <2>2 DEF MainStart
  <2>3. CASE LedStart
    BY <2>3 DEF LedStart, PCF8574_WriteBit, TakeBus, Carried, Level
  <2>4. CASE LedPoll
    BY <2>4 DEF LedPoll, TakeBus
  <2>5. CASE LedError
    BY <2>5 DEF LedError, TakeBus, Error_loop
  <2>6. CASE Blink
    BY <2>6 DEF Blink, PCF8574_WriteBit, TakeBus, Carried, Level
  <2>7. CASE LAN8720_Init
    BY <2>0, <2>7 DEF LAN8720_Init, Level
  <2>8. CASE PhyLinked \/ PhyNegotiated \/ PhyTimeout
    BY <2>0, <2>8 DEF PhyLinked, PhyNegotiated, PhyTimeout
  <2>9. CASE tcpip_init \/ netif_add \/ Services
    <3>1. net' \in NetPoints /\ threads' \in Nat
      BY <2>0, <2>9 DEF tcpip_init, netif_add, Services
    <3>2. dma' \in BOOLEAN
      BY <2>9, Zenon DEF tcpip_init, netif_add, Services
    <3> QED
      BY <2>9, <3>1, <3>2, ZenonT(30) DEF tcpip_init, netif_add, Services
  <2>10. CASE SoftRead
    <3>1. net' \in NetPoints
      BY <2>0, <2>10 DEF SoftRead
    <3> QED
      BY <2>10, <3>1, ZenonT(30) DEF SoftRead
  <2>11. CASE SoftReadDone
    BY <2>0, <2>11 DEF SoftReadDone, Carried, Level
  <2>12. CASE SoftWrite
    <3>1. net' \in NetPoints
      BY <2>0, <2>12 DEF SoftWrite
    <3>2. broken' \in BOOLEAN
      BY <2>12, Zenon DEF SoftWrite
    <3> QED
      BY <2>12, <3>1, <3>2 DEF SoftWrite
  <2>13. CASE SoftWriteDone
    <3>1. low' \in SUBSET Temps /\ beep' \in 1..2 /\ net' \in NetPoints
      BY <2>0, <2>13 DEF SoftWriteDone, Carried
    <3>2. sftrst' \in BOOLEAN /\ buzzer' \in {"on", "off"}
      BY <2>13, Zenon DEF SoftWriteDone
    <3>3. early' \in BOOLEAN /\ boots' = boots
      BY <2>13, Zenon DEF SoftWriteDone, Reported
    <3> QED
      BY <2>13, <3>1, <3>2, <3>3, ZenonT(30) DEF SoftWriteDone
  <2>14. CASE Temperature
    BY <2>14 DEF Temperature
  <2>15. CASE Cable
    <3>1. link' \in BOOLEAN
      BY <2>15, Zenon DEF Cable
    <3> QED
      BY <2>15, <3>1 DEF Cable
  <2>16. ASSUME NEW why \in {"power", "soft"}, Restart(why) PROVE TypeOK'
    <3>1. boots' \in 1..MaxBoots /\ beep' \in 1..2 /\ threads' \in Nat /\ gError' \in 0..1
            /\ net' \in NetPoints
      BY <2>0, <2>16, BootsAssumption DEF Restart
    <3>2. sftrst' \in BOOLEAN /\ wasHot' \in BOOLEAN /\ low' \in SUBSET Temps
            /\ data' \in SUBSET Temps
      BY <2>16, Zenon DEF Restart
    <3> QED
      BY <2>16, <3>1, <3>2, Zenon DEF Restart
  <2>17. CASE UNCHANGED vars
    BY <2>17 DEF vars
  <2> QED
    BY <2>1, <2>2, <2>3, <2>4, <2>5, <2>6, <2>7, <2>8, <2>9, <2>10, <2>11, <2>12,
       <2>13, <2>14, <2>15, <2>16, <2>17 DEF Next, led_task, netinit_task
<1> QED
  BY <1>1, <1>2, PTL DEF Spec

-----------------------------------------------------------------------------
(* netinit_task creates the TCP/IP thread at most once, whatever the cable  *)
(* does between its attempts, and starts the DMA only after it.             *)
THEOREM StackStartedOnce == Spec => []OneStack
<1>1. Init => StackInv
  BY DEF Init, StackInv, Unstarted, Soft
<1>2. TypeOK /\ StackInv /\ [Next]_vars => StackInv'
  <2> SUFFICES ASSUME TypeOK, StackInv, [Next]_vars PROVE StackInv'
    OBVIOUS
  <2> USE DEF StackInv, Unstarted, Soft, stack
  <2>1. CASE MainError \/ MainStart \/ led_task \/ Blink
    <3>1. CASE MainStart
      BY <3>1 DEF MainStart
    <3>2. CASE MainError \/ led_task \/ Blink
      BY <3>2 DEF MainError, led_task, LedStart, LedPoll, LedError, Blink
    <3> QED
      BY <2>1, <3>1, <3>2
  <2>2. CASE LAN8720_Init \/ PhyLinked \/ PhyNegotiated \/ PhyTimeout
    BY <2>2 DEF LAN8720_Init, PhyLinked, PhyNegotiated, PhyTimeout
  <2>3. CASE tcpip_init \/ netif_add \/ Services
    BY <2>3 DEF tcpip_init, netif_add, Services
  <2>4. CASE SoftRead \/ SoftReadDone \/ SoftWrite \/ SoftWriteDone
    BY <2>4 DEF SoftRead, SoftReadDone, SoftWrite, SoftWriteDone
  <2>5. CASE Temperature \/ Cable
    BY <2>5 DEF Temperature, Cable
  <2>6. CASE \E why \in {"power", "soft"} : Restart(why)
    BY <2>6 DEF Restart
  <2>7. CASE UNCHANGED vars
    BY <2>7 DEF vars
  <2> QED
    BY <2>1, <2>2, <2>3, <2>4, <2>5, <2>6, <2>7 DEF Next, netinit_task
<1>3. TypeOK /\ StackInv => OneStack
  BY DEF TypeOK, NetPoints, StackInv, OneStack, Unstarted, Soft
<1> QED
  BY <1>1, <1>2, <1>3, SupervisorTypeOK, PTL DEF Spec

-----------------------------------------------------------------------------
(* No access to the expander, by whichever task and in whatever order,      *)
(* raises the alarm without a cause, unless led_task broke into a transfer. *)
THEOREM AlarmHasCause == Spec => []NoFalseAlarm
<1> DEFINE Inv == BusInv /\ NoFalseAlarm
<1>1. Init => Inv
  BY DEF Init, BusInv, NoFalseAlarm
<1>2. TypeOK /\ Inv /\ [Next]_vars => Inv'
  <2> SUFFICES ASSUME TypeOK, Inv, [Next]_vars PROVE Inv'
    OBVIOUS
  <2> USE DEF BusInv, NoFalseAlarm, env, board, bus
  <2>1. CASE MainError
    BY <2>1 DEF MainError, Error_loop, Level
  <2>2. CASE MainStart
    BY <2>2 DEF MainStart
  <2>3. CASE LedStart
    BY <2>3 DEF LedStart, PCF8574_WriteBit, TakeBus, Carried, Level
  <2>4. CASE LedPoll
    BY <2>4 DEF LedPoll, TakeBus
  <2>5. CASE LedError
    BY <2>5 DEF LedError, TakeBus, Error_loop, Carried, Level
  <2>6. CASE Blink
    BY <2>6 DEF Blink, PCF8574_WriteBit, TakeBus, Carried, Level
  <2>7. CASE LAN8720_Init
    BY <2>7 DEF LAN8720_Init, Level
  <2>8. CASE PhyLinked \/ PhyNegotiated \/ PhyTimeout \/ tcpip_init \/ netif_add \/ Services
    BY <2>8 DEF PhyLinked, PhyNegotiated, PhyTimeout, tcpip_init, netif_add, Services
  <2>9. CASE SoftRead \/ SoftReadDone \/ SoftWrite
    BY <2>9 DEF SoftRead, SoftReadDone, SoftWrite, Carried, Level
  <2>10. CASE SoftWriteDone
    BY <2>10 DEF SoftWriteDone, Carried
  <2>11. CASE Temperature
    BY <2>11, Zenon DEF Temperature
  <2>12. CASE Cable
    BY <2>12, Zenon DEF Cable
  <2>13. CASE \E why \in {"power", "soft"} : Restart(why)
    BY <2>13, 0 # 1, Zenon DEF Restart
  <2>14. CASE UNCHANGED vars
    BY <2>14 DEF vars
  <2> QED
    BY <2>1, <2>2, <2>3, <2>4, <2>5, <2>6, <2>7, <2>8, <2>9, <2>10, <2>11, <2>12, <2>13,
       <2>14 DEF Next, led_task, netinit_task
<1> QED
  BY <1>1, <1>2, SupervisorTypeOK, PTL DEF Spec


-----------------------------------------------------------------------------
(* Once the report of a soft reset is over, or when main raised it, nothing *)
(* silences an alarm before the next start.                                 *)
THEOREM AlarmKeepsSounding == Spec => []AlarmSounds
<1> DEFINE Inv == BeepInv /\ AlarmSounds
<1>1. Init => Inv
  <2> SUFFICES ASSUME Init PROVE Inv
    OBVIOUS
  <2>1. early = sftrst
    BY Zenon DEF Init
  <2> QED BY <2>1, 0 # 1, Zenon DEF Init, BeepInv, AlarmSounds, Soft
<1>2. TypeOK /\ Inv /\ [Next]_vars => Inv'
  <2> SUFFICES ASSUME TypeOK, Inv, [Next]_vars PROVE Inv'
    OBVIOUS
  <2> USE DEF BeepInv, AlarmSounds, Soft, board, hist
  <2>0. sftrst \in BOOLEAN /\ early \in BOOLEAN /\ gError \in 0..1
    BY DEF TypeOK
  <2>1. CASE MainError
    BY <2>0, <2>1 DEF MainError, Error_loop
  <2>2. CASE LedError
    BY <2>0, <2>2 DEF LedError, Error_loop
  <2>3. CASE MainStart
    BY <2>3 DEF MainStart
  <2>4. CASE LedStart \/ LedPoll \/ Blink
    BY <2>4 DEF LedStart, LedPoll, Blink
  <2>5. CASE LAN8720_Init \/ PhyLinked \/ PhyNegotiated \/ PhyTimeout
    BY <2>5 DEF LAN8720_Init, PhyLinked, PhyNegotiated, PhyTimeout
  <2>6. CASE tcpip_init \/ netif_add \/ Services
    BY <2>6 DEF tcpip_init, netif_add, Services
  <2>7. CASE SoftRead \/ SoftReadDone \/ SoftWrite
    BY <2>0, <2>7, Zenon DEF SoftRead, SoftReadDone, SoftWrite
  <2>8. CASE SoftWriteDone
    <3>1. net = "write" /\ net' = "up" /\ sftrst = TRUE /\ main \notin {"boot", "error"}
      BY <2>8 DEF SoftWriteDone
    <3>2. UNCHANGED <<main, led, gError>>
      BY <2>8 DEF SoftWriteDone
    <3>3. early = TRUE
      <4>1. gError = 0 \/ gError = 1
        BY <2>0
      <4>2. CASE gError = 0
        BY <3>1, <4>2, Zenon
      <4>3. CASE gError = 1
        BY <2>0, <3>1, <4>3, Zenon
      <4> QED BY <4>1, <4>2, <4>3
    <3>4. gError = 1 => early' = TRUE
      BY <2>8, <3>3 DEF SoftWriteDone, Reported
    <3>5. gError = 0 => early' = sftrst'
      <4>1. CASE beep = 1
        BY <2>8, <3>1, <3>3, <4>1 DEF SoftWriteDone, Reported
      <4>2. CASE beep # 1
        <5>1. sftrst' = FALSE
          BY <2>8, <4>2, Zenon DEF SoftWriteDone
        <5>2. gError = 0 => early' = FALSE
          <6> HAVE gError = 0
          <6>1. ~(gError = 1 \/ beep = 1)
            BY <4>2
          <6> QED BY <2>8, <6>1, Zenon DEF SoftWriteDone, Reported
        <5> QED BY <5>1, <5>2, Zenon
      <4> QED BY <4>1, <4>2
    <3> QED BY <2>0, <3>1, <3>2, <3>4, <3>5
  <2>9. CASE Temperature \/ Cable
    BY <2>9 DEF Temperature, Cable
  <2>10. CASE \E why \in {"power", "soft"} : Restart(why)
    BY <2>10, 0 # 1, Zenon DEF Restart
  <2>11. CASE UNCHANGED vars
    BY <2>11 DEF vars
  <2> QED
    BY <2>1, <2>2, <2>3, <2>4, <2>5, <2>6, <2>7, <2>8, <2>9, <2>10, <2>11
       DEF Next, led_task, netinit_task
<1> QED
  BY <1>1, <1>2, SupervisorTypeOK, PTL DEF Spec
=============================================================================
