----------------------------- MODULE Supervisor -----------------------------
(***************************************************************************)
(* The life of the unit from reset on: main checks fuses and temperature   *)
(* and starts the tasks; led_task polls the temperature switches and ends  *)
(* in Error_loop when one closes; netinit_task brings the network up,      *)
(* trying again until there is a link, and reports a soft reset on LED and *)
(* buzzer.                                                                 *)
(*                                                                         *)
(* The two tasks share the PCF8574 expander on a bit-banged bus without a  *)
(* lock.  Its pins are quasi-bidirectional: a 0 in the latch pulls the pin *)
(* low.  PCF8574_WriteBit reads the pins, changes one bit and writes all   *)
(* of them back, so it latches what the temperature switches pull low at   *)
(* that moment.  The latch bits of the LEDs and of the PHY reset are not   *)
(* modelled, only the writes to them.  led_task has the higher priority    *)
(* and does not block inside PCF8574_WriteBit, so netinit_task never gets  *)
(* in between; the other way round it can, at any point of a transfer.     *)
(***************************************************************************)
EXTENDS Naturals

CONSTANT MaxBoots  \* bound: how often the unit is started

ASSUME BootsAssumption == MaxBoots \in Nat \ {0}

Temps == {"temp1", "temp2"}

(* The points at which netinit_task can be interrupted.                    *)
NetPoints == {"off", "first", "down", "phy", "negotiate", "stack", "netif", "services",
              "up", "read", "modify", "write"}

VARIABLES
  main,     \* "boot", "run" once the tasks are started, or "error"
  led,      \* led_task: "off", "start", "poll" or "error"
  net,      \* netinit_task: "off", "first" before its first attempt, "down"
            \* between attempts, "phy" while it waits for the link,
            \* "negotiate" for the negotiation, "stack" after it, "netif"
            \* after tcpip_init, "services" after netif_add, "up", or in a
            \* write of the soft reset LED at "read", "modify" or "write"
  beep,     \* which of the two writes to the soft reset LED is next
  hot,      \* the temperature switches that are closed
  link,     \* whether the cable has a link
  fuses,    \* whether Fuse_check finds all fuses good
  low,      \* the temperature pins held low by the expander's latch
  data,     \* netinit_task: the temperature pins it read as low
  broken,   \* whether led_task broke into netinit_task's current transfer
  gError,   \* g_Error
  relay,    \* PH3, the protection relay: "on" or "off"
  buzzer,   \* PB12
  threads,  \* tcpip_threads (each with its mailbox) created since the reset
  dma,      \* whether the Ethernet DMA has been started
  sftrst,   \* the soft reset flag of the processor
  wasHot,   \* history: whether a switch was closed since the reset
  torn,     \* history: whether led_task broke into a transfer since the reset
  early,    \* history: whether the report of a soft reset is not over yet, or
            \* was not when Error_loop was entered
  boots     \* history: starts so far

env   == <<hot, link, fuses, wasHot>>
board == <<low, relay, buzzer>>
stack == <<threads, dma>>
bus   == <<data, broken, torn>>
hist  == <<early, boots>>
vars  == <<main, led, net, beep, env, board, bus, gError, stack, sftrst, hist>>

Init ==
  /\ main = "boot" /\ led = "off" /\ net = "off" /\ beep = 1
  /\ hot = {} /\ link \in BOOLEAN /\ fuses \in BOOLEAN
  /\ low = {} /\ data = {} /\ broken = FALSE
  /\ gError = 0 /\ relay = "on" /\ buzzer = "off"
  /\ threads = 0 /\ dma = FALSE
  /\ sftrst = FALSE
  /\ wasHot = FALSE /\ torn = FALSE /\ early = FALSE
  /\ boots = 1

-----------------------------------------------------------------------------
(* The temperature pins that read as 0.                                     *)
Level == hot \cup low

InTransfer == net \in {"read", "write"}

(* What a transfer carries: what it should, or anything once the other task *)
(* has broken into it.                                                      *)
Carried(disturbed, value) == IF disturbed THEN SUBSET Temps ELSE {value}

(* led_task or main uses the bus, in the middle of netinit_task's transfer  *)
(* or not.                                                                  *)
TakeBus ==
  /\ broken' = (broken \/ InTransfer)
  /\ torn' = (torn \/ InTransfer)
  /\ UNCHANGED data

(* Slip: the temperature bits are written as 0.                            *)
PCF8574_WriteBit_Zeroes ==
  /\ low' = Temps
  /\ TakeBus

(* PCF8574_WriteBit in main or led_task, to an output.                      *)
PCF8574_WriteBit ==
  /\ low' \in Carried(InTransfer, Level)
  /\ TakeBus

(* Slip: the protection relay stays on.                                    *)
Error_loop_KeepsRelay ==
  /\ gError' = 1
  /\ buzzer' = "on"
  /\ UNCHANGED <<relay, low>>

(* Error_loop up to its first write to the expander.                        *)
Error_loop ==
  /\ gError' = 1
  /\ relay' = "off"
  /\ buzzer' = "on"
  /\ UNCHANGED low

-----------------------------------------------------------------------------
(* main: a blown fuse or a closed switch ends in Error_loop, before the     *)
(* system is started.                                                       *)
MainError ==
  /\ main = "boot" /\ (~fuses \/ Level # {})
  /\ main' = "error"
  /\ Error_loop
  /\ UNCHANGED <<led, net, beep, env, bus, stack, sftrst, hist>>

MainStart ==
  /\ main = "boot" /\ fuses /\ Level = {}
  /\ main' = "run" /\ led' = "start" /\ net' = "first"
  /\ UNCHANGED <<beep, env, board, bus, gError, stack, sftrst, hist>>

(* led_task switches the run LED on ...                                     *)
LedStart ==
  /\ led = "start"
  /\ PCF8574_WriteBit
  /\ led' = "poll"
  /\ UNCHANGED <<main, net, beep, env, relay, buzzer, gError, stack, sftrst, hist>>

(* ... polls the switches every 500 ms ...                                  *)
LedPoll ==
  /\ led = "poll" /\ {} \in Carried(InTransfer, Level)
  /\ TakeBus
  /\ UNCHANGED <<main, led, net, beep, env, board, gError, stack, sftrst, hist>>

(* ... and enters Error_loop when one reads 0.                              *)
LedError ==
  /\ led = "poll"
  /\ \E seen \in Carried(InTransfer, Level) : seen # {}
  /\ TakeBus
  /\ Error_loop
  /\ led' = "error"
  /\ UNCHANGED <<main, net, beep, env, stack, sftrst, hist>>

(* Error_loop switches its two LEDs for ever.                               *)
Blink ==
  /\ led = "error" \/ main = "error"
  /\ PCF8574_WriteBit
  /\ UNCHANGED <<main, led, net, beep, env, relay, buzzer, gError, stack, sftrst, hist>>

led_task == LedStart \/ LedPoll \/ LedError

-----------------------------------------------------------------------------
(* Slip: netinit_task does not try again.                                  *)
LAN8720_Init_Once ==
  /\ net = "first" /\ led # "start"
  /\ low' = Level
  /\ net' = "phy"
  /\ UNCHANGED <<main, led, beep, env, relay, buzzer, bus, gError, stack, sftrst, hist>>

(* netinit_task, once at the start and then every second while there is no  *)
(* network and the PHY reports a link: LAN8720_Init resets the PHY, writing *)
(* to the expander with interrupts off.  led_task has the priority at the   *)
(* start.                                                                   *)
LAN8720_Init ==
  /\ net = "first" \/ (net = "down" /\ link)
  /\ led # "start"
  /\ low' = Level
  /\ net' = "phy"
  /\ UNCHANGED <<main, led, beep, env, relay, buzzer, bus, gError, stack, sftrst, hist>>

(* HAL_ETH_Init resets the PHY, waits for the link and starts the           *)
(* negotiation ...                                                          *)
PhyLinked ==
  /\ net = "phy" /\ link
  /\ net' = "negotiate"
  /\ UNCHANGED <<main, led, beep, env, board, bus, gError, stack, sftrst, hist>>

(* ... waits for its end and reads the result.                              *)
PhyNegotiated ==
  /\ net = "negotiate" /\ link
  /\ net' = "stack"
  /\ UNCHANGED <<main, led, beep, env, board, bus, gError, stack, sftrst, hist>>

(* Either half can fail, with a link or without: the wait is over, or the   *)
(* PHY does not answer an access to one of its registers.                   *)
PhyTimeout ==
  /\ net \in {"phy", "negotiate"}
  /\ net' = "down"
  /\ UNCHANGED <<main, led, beep, env, board, bus, gError, stack, sftrst, hist>>

(* Slip: tcpip_init does not wait for LAN8720_Init.                        *)
tcpip_init_Early ==
  /\ net \in {"phy", "stack"}
  /\ threads' = threads + 1
  /\ net' = IF net = "phy" THEN "down" ELSE "netif"
  /\ UNCHANGED <<main, led, beep, env, board, bus, gError, dma, sftrst, hist>>

(* tcpip_init creates mailbox and thread ...                                *)
tcpip_init ==
  /\ net = "stack"
  /\ threads' = threads + 1
  /\ net' = "netif"
  /\ UNCHANGED <<main, led, beep, env, board, bus, gError, dma, sftrst, hist>>

(* ... netif_add calls low_level_init, which starts the DMA ...             *)
netif_add ==
  /\ net = "netif"
  /\ dma' = TRUE
  /\ net' = "services"
  /\ UNCHANGED <<main, led, beep, env, board, bus, gError, threads, sftrst, hist>>

(* ... and udpecho_init and Multicast_Config register the services.         *)
Services ==
  /\ net = "services"
  /\ net' = "up"
  /\ UNCHANGED <<main, led, beep, env, board, bus, gError, stack, sftrst, hist>>

-----------------------------------------------------------------------------
(* After a soft reset the running network switches the soft reset LED on:   *)
(* PCF8574_WriteBit reads the pins ...                                      *)
SoftRead ==
  /\ net = "up" /\ sftrst
  /\ net' = "read" /\ broken' = FALSE
  /\ UNCHANGED <<main, led, beep, env, board, data, torn, gError, stack, sftrst, hist>>

SoftReadDone ==
  /\ net = "read"
  /\ data' \in Carried(broken, Level)
  /\ net' = "modify"
  /\ UNCHANGED <<main, led, beep, env, board, broken, torn, gError, stack, sftrst, hist>>

(* ... and sends them back.                                                 *)
SoftWrite ==
  /\ net = "modify"
  /\ net' = "write" /\ broken' = FALSE
  /\ UNCHANGED <<main, led, beep, env, board, data, torn, gError, stack, sftrst, hist>>

(* History: the end of the report is noted unless an alarm came first.      *)
Reported ==
  /\ early' = (early /\ (gError = 1 \/ beep = 1))
  /\ UNCHANGED boots

(* Slip: the count of the writes is not reset.                             *)
SoftWriteDone_NoReset ==
  /\ net = "write"
  /\ low' \in Carried(broken, data)
  /\ beep' = beep + 1
  /\ buzzer' = IF beep = 1 THEN "on" ELSE "off"
  /\ sftrst' = (beep = 1)
  /\ Reported
  /\ net' = "up"
  /\ UNCHANGED <<main, led, env, relay, bus, gError, stack>>

(* Slip: the flag of the soft reset is not cleared.                        *)
SoftWriteDone_KeepsFlag ==
  /\ net = "write"
  /\ low' \in Carried(broken, data)
  /\ IF beep = 1 THEN beep' = 2 /\ buzzer' = "on" ELSE beep' = 1 /\ buzzer' = "off"
  /\ Reported
  /\ net' = "up"
  /\ UNCHANGED <<main, led, env, relay, bus, gError, stack, sftrst>>

(* Then the buzzer is switched, on after the first write and off after the  *)
(* second, half a second later, when the flag is cleared.                   *)
SoftWriteDone ==
  /\ net = "write"
  /\ low' \in Carried(broken, data)
  /\ IF beep = 1
     THEN beep' = 2 /\ buzzer' = "on" /\ UNCHANGED sftrst
     ELSE beep' = 1 /\ buzzer' = "off" /\ sftrst' = FALSE
  /\ Reported
  /\ net' = "up"
  /\ UNCHANGED <<main, led, env, relay, bus, gError, stack>>

netinit_task ==
  \/ LAN8720_Init \/ PhyLinked \/ PhyNegotiated \/ PhyTimeout
  \/ tcpip_init \/ netif_add \/ Services
  \/ SoftRead \/ SoftReadDone \/ SoftWrite \/ SoftWriteDone

-----------------------------------------------------------------------------
(* A switch closes or opens; the link comes or goes.                        *)
Temperature ==
  /\ hot' \in SUBSET Temps
  /\ wasHot' = (wasHot \/ hot' # {})
  /\ UNCHANGED <<main, led, net, beep, link, fuses, board, bus, gError, stack, sftrst, hist>>

Cable ==
  /\ link' = ~link
  /\ UNCHANGED <<main, led, net, beep, hot, fuses, wasHot, board, bus, gError, stack,
                 sftrst, hist>>

(* A soft reset by command once the tasks run, or a power cycle.  main sets *)
(* pins and expander up before it checks anything.                          *)
Restart(why) ==
  /\ boots < MaxBoots
  /\ why = "soft" => main = "run"
  /\ main' = "boot" /\ led' = "off" /\ net' = "off" /\ beep' = 1
  /\ fuses' \in BOOLEAN
  /\ low' = {} /\ data' = {} /\ broken' = FALSE
  /\ gError' = 0 /\ relay' = "on" /\ buzzer' = "off"
  /\ threads' = 0 /\ dma' = FALSE
  /\ sftrst' = (why = "soft")
  /\ wasHot' = (hot # {}) /\ torn' = FALSE /\ early' = (why = "soft")
  /\ boots' = boots + 1
  /\ UNCHANGED <<hot, link>>

Next ==
  \/ MainError \/ MainStart
  \/ led_task \/ Blink
  \/ netinit_task
  \/ Temperature \/ Cable
  \/ \E why \in {"power", "soft"} : Restart(why)

Spec == Init /\ [][Next]_vars

(* main and the tasks are carried on: every task above them blocks again    *)
(* and again.  A poll that sees a closed switch comes, since netinit_task   *)
(* has only four transfers per start to be broken into.  Of the PHY it is   *)
(* assumed, beyond the code, that it does not fail for ever: netinit_task   *)
(* may try as often as it likes, and among attempts that find a link one    *)
(* gets through each half of HAL_ETH_Init.  Nothing is assumed of switches, *)
(* cable and host.                                                          *)
FairSpec ==
  /\ Spec
  /\ WF_vars(MainError \/ MainStart)
  /\ WF_vars(LedStart) /\ WF_vars(LedError)
  /\ WF_vars(netinit_task)
  /\ SF_vars(PhyLinked) /\ SF_vars(PhyNegotiated)

-----------------------------------------------------------------------------
(* Every variable has its type.                                            *)
TypeOK ==
  /\ main \in {"boot", "run", "error"}
  /\ led \in {"off", "start", "poll", "error"}
  /\ net \in NetPoints
  /\ beep \in 1..2
  /\ hot \in SUBSET Temps /\ low \in SUBSET Temps /\ data \in SUBSET Temps
  /\ link \in BOOLEAN /\ fuses \in BOOLEAN /\ dma \in BOOLEAN /\ sftrst \in BOOLEAN
  /\ wasHot \in BOOLEAN /\ broken \in BOOLEAN /\ torn \in BOOLEAN /\ early \in BOOLEAN
  /\ gError \in 0..1 /\ relay \in {"on", "off"} /\ buzzer \in {"on", "off"}
  /\ threads \in Nat /\ boots \in 1..MaxBoots

(* However often netinit_task tries and the cable comes and goes, the TCP/IP *)
(* thread is created at most once, and the DMA that can raise a receive     *)
(* interrupt runs only when the thread's mailbox exists (lwip_comm_init).   *)
OneStack == threads <= 1 /\ (dma => threads = 1)

(* The unit goes into Error_loop only for a blown fuse or a switch that has *)
(* closed since the reset, as long as led_task never broke into a transfer  *)
(* of netinit_task: no read-modify-write of the expander pulls a            *)
(* temperature pin low by itself (PCF8574_WriteBit).                        *)
NoFalseAlarm == gError = 1 /\ ~torn => wasHot \/ ~fuses

(* In Error_loop the buzzer sounds until the next start, if main raised the *)
(* alarm or netinit_task had reported the last soft reset by then, although *)
(* netinit_task goes on and uses the same buzzer.  An alarm that led_task   *)
(* raises before the report is over is silenced with it (main.c:264).       *)
AlarmSounds == gError = 1 /\ (early => main = "error") => buzzer = "on"

(* A switch that stays closed is noticed and the protection relay opened,   *)
(* before the start of the tasks or after it, whatever netinit_task does on *)
(* the shared bus (led_task, Error_loop).                                   *)
HotIsNoticed == hot # {} ~> (hot = {} \/ (gError = 1 /\ relay = "off"))

(* Once the tasks run, a link that stays up leads to a running network,     *)
(* also when it came only after the first attempt had failed and when       *)
(* attempts failed in spite of it (netinit_task).                           *)
NetComesUp ==
  (main = "run" /\ link) ~> (~link \/ main # "run" \/ net \in {"up", "read", "modify", "write"})
=============================================================================
