# FiuNv in TLA+

FiuNv is the firmware of a fault-injection unit (FIU): an STM32F429 board under
uC/OS-II and lwIP 1.4.1 that puts opens, shorts, leakage resistances and loose
contacts on 72 channels between an ECU and its load. A host configures and
starts faults over UDP or over CAN. This directory holds TLA+ models of the
firmware's own logic, TLC configurations for them, and TLAPS proofs.

    tlc -workers 2 -config FiuConfig.cfg MCFiuConfig     one run
    tlapm FiuConfigProofs.tla                            the proofs of a module

The C sources are GBK encoded (`iconv -f gbk -t utf8`). Line numbers below and in
PROJECT.json are those of the files in `src/`.

## 1. Inventory

Execution contexts, highest priority first: the interrupts of Ethernet, CAN1 RX0
and TIM2; `tcpip_thread` (priority 5, runs the UDP callbacks), `led_task` (9),
`start_task` (10), `netinit_task` (11), `CanDataDealTask` (20). The CAN task is a
polling loop that never blocks by itself; all others block in every round.
Nothing in the firmware's own code takes a lock, except for critical sections
around task creation.

| Component | Source | State | Operations | Model |
|---|---|---|---|---|
| Command interpreter, configuration | `HARDWARE/Fiu/FiuHostDataAnalysis.c` | staging registers `P0`, `P1`, `g_Ptime`, `g_Pfreq`, `g_Pduty`; session counters and `FIU_Cmd0_CurPinFlag`; the frame `g_FiuByte17Data`; `g_Error` | commands 0x00-0x05, 0x11, 0x1A, 0x1C, 0x1D; 0x13, 0x15, 0x17, 0x19 | `FiuConfig` |
| Command interpreter, activation | same, `HARDWARE/TIMER/timer.c` | `g_Ptime`, `g_bLoose`, `g_workStatus`, TIM2, TIM10, pin PF6 | 0x10 (`startFault`), 0x11, the TIM2 period callback | `FaultTimer` |
| CAN receive path | `HARDWARE/CAN/can.c`, `FiuHostDataAnalysis.c`, `USER/main.c` | ring `CanBufData`, cursors `g_IntrDataCur` and `g_DealDataCur` | RX interrupt, `CanDataDealTask` | `CanRing`, `FrameQueue` |
| Relay driver | `HARDWARE/Fiu/FiuProcess.c` | `uFiuCom_buf`, `uDqStatus`, the data bus, 14 latches, 17 control lines, resistor network | `FiuCom_Process` | `RelayDriver` |
| Supervisor, I/O expander | `USER/main.c`, `HARDWARE/PCF8574/pcf8574.c`, `HARDWARE/IIC/myiic.c` | tasks, fuse status, `g_Error`, protection relay, buzzer, the expander's latch | boot, `led_task`, `netinit_task` with its retries, `Error_loop`, restarts | `Supervisor` |
| Flash records | `HARDWARE/STMFLASH/stmflash.c`, `FiuHostDataAnalysis.c`, `main.c` | IP, CAN and work-mode records in one sector | read at boot; rewritten by 0x13, 0x15, 0x17, 0x19, `COMM_CMD_IP` and the multicast packet | `FlashConfig` |
| Heap | `MALLOC/malloc.c` | block tables of three pools | `mymalloc`, `myrealloc`, `myfree` | `BlockAlloc` |
| Packet input: Ethernet driver, lwIP port, UDP and multicast services | `HARDWARE/LAN8720/lan8720.c`, `ethernetif.c`, `LWIP/arch/sys_arch.c`, `LWIP/udpecho/*.c` | buffer pool, message structures, mailbox, lwIP timer, tick counter | receive interrupt, tick, fetch with time-out, receive callbacks | `NetInput`, `FrameQueue` |
| Network start | `lwip_comm.c`, `lan8720.c` | PHY, thread and mailbox, DMA | `lwip_comm_init` | `Supervisor` |
| Board support | `SYSTEM/*`, `SDRAM` | registers | setup | hardware access, not modelled |
| uC/OS-II, lwIP, HAL, CMSIS | `UCOSII`, `LWIP/lwip-1.4.1`, `HALLIB`, `CORE` | - | - | third party, not modelled |

Not part of the build: `app_lwip.c`, the copies of source files ("副本"), LCD, KEY,
USMART.

How the parts interact:

- A UDP callback or `CanDataDealTask` hands a command to the interpreter through the
  shared `g_DataFromHost`. Configuration commands are checked (`HostConfigCheck`) and
  staged in `P0`/`P1`. Command 0x05 closes the session and turns the registers into
  the 17-byte frame.
- Command 0x10 hands the frame to `FiuCom_Process`, which sleeps 1 ms before and
  after every latch clock (28 ms for the reset that begins each frame), starts the PWM
  and arms TIM2. Its interrupt ends the fault by itself.
- The CAN interrupt and the CAN task share the ring without a lock.
- The Ethernet interrupt fills buffers of the lwIP pool and posts to the mailbox that
  `tcpip_thread` waits on; a post and the time-out of the wait can meet at one tick.
- `led_task` and `netinit_task` share the expander on a bit-banged bus without a lock. The
  expander has the temperature switches on pins that a write of 0 pulls low.
- Settings reach the next boot only through one flash sector, which is erased as a whole.

What is hard here: the interrupts between any two statements; two links that
may both be inside `FiuCom_Process`, since it sleeps, and share one frame, one buffer
and one data bus; global parameters read after the sleep; cursors of different
widths in two files; session counters that must agree with the registers after
any sequence of accepted and refused commands; limits of channels, times and
frequencies; power loss between any two flash words; a network start that is tried
again while the cable comes and goes and the PHY fails. PROJECT.json lists each of these hazards at its line.

What makes a component correct, in a sentence each:

- configuration: the registers hold exactly what the accepted commands of the session
  asked for; refused commands do not leak into a session; quotas hold; after an error
  no new fault reaches the frame, except for the one a preempted handler was about to build;
- activation: a timed fault ends, a reset leaves nothing active, PF6 is not left on a
  stopped timer;
- CAN ring: no frame lost, duplicated or reordered, each one handled;
- relay driver: the relays that close are those of the frame, on the way as
  well as at the end;
- flash records: after any power cut the boot takes a setting that was sent for that
  record or the default, and a completed setting lasts;
- heap: allocations are disjoint and large enough, and none is refused or lost without
  reason;
- packet input: every buffer has one owner, packets are handled in order and once, the lwIP
  timers are not starved;
- supervisor: overheating always ends in the alarm with the relay open, nothing
  else does, and a lasting link ends in a running network with one stack.

## 2. Models

### FiuConfig: the configuration session
One action per command, since the configuration handlers neither sleep nor wait, with one exception:
the CAN task, of the lowest priority, runs command 0x05 in two steps, the test of `g_Error`
(`CanDoneCheck`) and the build of the frame (`CanDoneBuild`), between which `led_task` can raise the
error and the UDP thread run any command. Over UDP (`ConfigDone`) `led_task` cannot come in between. The state is the registers (as
sets of channels and a code instead of 64-bit words), the parameters, the session
counters, the per-channel flags, the frame and `g_Error`, plus a history variable with
the commands accepted in the session. `HostConfigCheck` is one operator per command that makes the
tests in the order of the source's early returns; a refusal closes the session and
clears the registers, as in the code. Shifts beyond the 64-bit word follow the linked code: channels 64..71 of command
0..2 leave `P0` as it is. Command 3 with pins 18..63 writes outside its array; these
inputs are excluded by `FaultMsgsAssumption`. The commands 0x13, 0x15, 0x17 and 0x19
do not touch this state; they are in `FlashConfig`.

### FaultTimer: starting, timing and resetting a fault
The handlers are cut at every call that changes what they share, since an interrupt or the UDP thread can come
between any two of them: 0x10 is `StartFault`, `StopPwm`, `StopTimer`, `CopyFault`, `Drive`, `StartPwm`,
`ArmTimer`; 0x11 is `ResetRelay`, `ResetTimer`, `ResetPin`, `ResetFrame`, `CopyReset`, `ResetDone`; 0x05 is
`ConfigDone`, `BuildFrame`. The UDP thread has the higher priority, so the CAN task moves
only while it is idle or sleeping (`HasCpu`); the TIM2 interrupt comes anywhere. The contents of the
frame are abstracted to blank, fault, reset or unknown. When both links are inside
`FiuCom_Process`, they work on one buffer: its outcome is then any ("mixed"). PWM period and compare value are computed as the
code does, in 16 bits, with the processor's 0 for a division by 0. The history variable
`clash` records that a command of one link came while a handler of the other was between its
steps; what is promised of a fault's timer, of its PWM and of a reset is promised without a clash
(section 5 says what a clash can do).

### CanRing, FrameQueue: the CAN receive path
`CanRing` has the ring of N slots, the two cursors and the interrupt's full
test exactly as linked: `can.c` declares the 16-bit `g_DealDataCur` as 32 bits, so the test reads the
neighbouring `g_IntrDataCur` as its upper half. `Window` bounds how many unhandled frames
the host keeps outstanding; a window of N or more is a host that does not wait, and then the ring is
overrun as in the code (`FullTestBlind`, `OverrunUnseen`). `FrameQueue` is the abstract specification, a FIFO queue;
`CanRing` implements it under the mapping that reads the slots between the
cursors, and so does `NetInput` under one of its own.

### RelayDriver: from the frame to the relays
`FiuCom_Process` down to every latch write, with the real 72 channels and 14 latches.
A write is two steps, since the code sleeps between putting the value on the bus
and raising the clock, and again after it. `Dispatch` enters `tdreset_process`, which clears the 14
latches (`ClearNext`, `ClearDone`); then `Scan`, `WriteNext` and `Connect` work through
the selected channels. The code compares byte 12 as a whole; the documents split it into load (bits 7-4)
and fault type (bits 3-0), and `Asked` and `AskedOhm` follow the documents. The properties therefore say what the fault
type asks for: nothing else ever closes, and all of it does when the type is listed and without load. With load the code often does nothing
(`LoadedLeakageIsLost`). Relays, latch contents and lines are sets of numbers. Left
out: the fuse test (reads pins only), and variables that are written and never read.

### FlashConfig: the settings in flash
A record is a run of marks, the content word and words nobody reads. A flash word is the set of
its 1 bits: an erase makes it full, programming intersects, which is what mixes two
settings when an erase was skipped. `STMFLASH_Write` is cut at every point where power
can fail: the search for a word that is not blank (`ScanClean`, `EraseSector`, `EraseFails`), and
each programmed word (`Program`, `ProgramFails`). `PowerOff` comes between any two steps, `EraseCut`
leaves any set of words erased. The failing erase follows the HAL: the
error flags are cleared before they are looked at, so the words are programmed over the old
ones. `Boot` is `IpModifiedCheck` and `CanModifiedCheck`; no boot code reads the work mode. All writers
run in `tcpip_thread`, so there is one write at a time. `IpCommand` stores the old content again:
the code puts the new address behind the array it writes (finding 3). The history variable `empty` has the records whose marks
were written, or whose content was erased, without a content: there the boot reads an erased word.

### BlockAlloc: the heap
The block table of one pool, with the search of `my_mem_malloc` one step per block, from the top
down as in the code. `myrealloc` allocates, copies and frees the old run in one request. Callers run one at
a time (`main` before the scheduler starts, `netinit_task` later), so there are no
interleavings. History variables hold what callers were given.

### NetInput: from the receive interrupt to the callbacks
`Receive` is the interrupt with `ethernetif_input`, `tcpip_input` and `OSQPost`; `Tick` counts down the wait
of `tcpip_thread`; the thread fetches with a time limit (`Fetch`, `Fetched`, `FireTimer`) and runs the
callback. Between the time-out and the moment the thread runs, a post hands it the
packet past the queue ("expired" to "ready"). `Waited` is the time `sys_arch_mbox_fetch` reports, in
unsigned arithmetic, with the branch that takes an elapsed time of 0 for a wrapped counter. The two callbacks differ in
what they do with the buffers: the command callback frees them, the multicast
callback never does. The lwIP timers are one timer, the next to come due.

### Supervisor: boot, polling, network start
`main` checks fuses and temperature, then the tasks run. `led_task` preempts `netinit_task`; a
transfer of `netinit_task` on the bit-banged bus is therefore two steps, and one that
`led_task` broke into carries any value. `PCF8574_WriteBit` latches whatever pins read 0 at
that moment. The network start is split at its waits (`PhyLinked`, `PhyNegotiated`), with the cable coming
and going. Either wait can fail (`PhyTimeout`) with the link up or down: `HAL_ETH_Init` also gives up when the PHY does not answer
an access to a register or does not end its negotiation in time. `FiuConfig`, `FaultTimer` and `FlashConfig` see the error as one action.

`MC*.tla` define the values of the constants; each `.cfg` is one run.

## 3. Runs

| Run | Config | Result | Shows |
|---|---|---|---|
| config_session | FiuConfig.cfg | pass, 421,874 states | `StagedExactly`, `SessionStaged`, `SessionQuota`, `AtMostOneLateFrame` in any sequence of commands, errors and restarts, an error between test and build included |
| config_channels | FiuConfigChannels.cfg | violation of `EveryChannelStaged` | channels 64..71 are accepted and never reach the frame |
| can_ring | CanRing.cfg | pass, 3,910 states | with fewer outstanding frames than slots: `RoomWithinWindow`, FIFO refinement `RingIsQueue`, `EventuallyHandled` |
| fault_timer | FaultTimer.cfg | pass, 830,505 states | both links: `TimedFaultIsTimed`, `ResetIsFinal` and the liveness `TimedPwmStops` without a clash, `PinReleased` |
| relay_driver | RelayDriver.cfg | pass, 10,951 states | one link: `RelaysAsAsked`, `BreakBeforeMake`, `ResistanceAsAsked` |
| relay_links | RelayDriverLinks.cfg | violation of `OnlySelected` | both links: a latch takes over the other link's value and closes a relay nobody selected |
| flash_records | FlashConfig.cfg | pass, 1,228,076 states | `ProgramsErased`, `NextBootKnown`, `DurableUntilErase` with power cut anywhere |
| flash_address | FlashAddress.cfg | violation of `AddressChanged` | `COMM_CMD_IP` completes and the record holds the old address |
| heap | BlockAlloc.cfg | pass, 198,308 states | `Disjoint`, `TableExact`, `FailsOnlyWhenFull`, `LargeEnough` for any sequence of calls |
| net_input | NetInput.cfg | pass, 51,136 states | `MailboxHasRoom`, `OneOwner`, FIFO refinement `InputIsQueue`, `PacketsHandled`, `TimersKeepRunning` |
| net_leak | NetLeak.cfg | violation of `PoolRefilled` | the multicast callback keeps its buffers for good |
| supervisor | Supervisor.cfg | pass, 13,340 states | `OneStack`, `NoFalseAlarm`, `AlarmSounds`, and the liveness `HotIsNoticed`, `NetComesUp` |

Every property of a passing run has a mutant in PROJECT.json: a plausible slip in one
definition (the operators marked "Slip") under which TLC finds the property violated.

### Bounds, and why they are enough
- *config_session*: the messages of `MCFiuConfig` have all four fault commands, with channels on
  both sides of each limit, so that acceptance, every kind of refusal, the full quota of commands 1, 2 and 3 and the
  command after it, and a second session all happen. `MaxStaged` = 2 bounds the commands staged between two clears
  (`StagedBound`) by the largest quota; the states after one command more are checked, and not continued from. The theorems hold for all messages and without the bound.
- *can_ring*: N = 4 instead of 25, Window = 3, three distinct frames: the cursors wrap, and
  every position of the wrap against a full and an empty ring occurs. The theorems hold for all N.
- *fault_timer*: the times 0 and 1 (no limit, the smallest; larger ones behave alike)
  and a loose contact that a switch byte of 2 carries past the check. Both links send any sequence of commands.
- *relay_driver*: the size is the real one. The frames cover all commands, each branch on
  byte 12, channels whose relays share a latch and whose relays straddle two, the last channel,
  and the special resistance and ECU-ECU cases. The sequence of frames is unbounded. The theorems
  hold for all frames.
- *flash_records*: two records (a write of one must erase the other), two marks, so that a
  write can be cut inside the marks, two host words that differ in both bits, so that their
  mixture is a third. Words behind the content are left out here: nobody reads them. The
  theorems hold for all four records and any sizes.
- *heap*: six blocks of two bytes, sizes from 0 to almost the pool: runs of one to five blocks, holes of
  every length, refusals. The theorems hold for all pools, block sizes and requests.
- *net_input*: three buffers, frames of one or two, two message structures for a mailbox of
  three: each of the three runs out in some state. The tick counter wraps at 8, and a period is
  a few ticks, so that a fetch spans the wrap.
- *supervisor*: three starts, so that a soft reset follows a power cycle and the reverse;
  everything else is finite.

CHECK_DEADLOCK is on in all runs: a host command is always possible.

### Fairness
- `EventuallyHandled` (CanRing) assumes weak fairness of the task's step. It has the lowest
  priority, but every other task blocks in each round (`OSTimeDlyHMSM`, semaphores, mailboxes),
  so it is delayed and not starved. The interrupt has no fairness.
- `PacketsHandled`, `TimersKeepRunning` (NetInput) assume weak fairness of `tcpip_thread`, the task
  with the highest priority, whose callbacks return, and of the tick. Frames need not come.
- `HotIsNoticed`, `NetComesUp` (Supervisor) assume weak fairness of `main`, of the steps of `netinit_task`,
  and that `led_task` starts and notices a pin that reads 0. A poll can miss a closed switch only while it
  breaks into a transfer, and there are two transfers per write and two writes per start.
  Switches, cable and host have no fairness. `NetComesUp` needs one assumption on the hardware that the code cannot justify, strong
  fairness of `PhyLinked` and `PhyNegotiated`: a PHY with a lasting link may fail many attempts, but not every one for ever.
- `TimedPwmStops` (FaultTimer) assumes weak fairness of the TIM2 interrupt (a running timer expires) and of
  each handler's next step (a handler that began is only delayed). Host
  commands, errors and restarts have none.

## 4. Proofs

All theorems are checked by TLAPS from the definitions the runs use and the named
assumptions on the constants.

**FiuConfigProofs** (any `FaultMsgs`, `LooseMsgs`, `TimeBytes` within the message format).
`TypeCorrect`, `StagedCorrect`, `SessionStagedCorrect`, `QuotaCorrect`, `LateFramesBounded`. `TypeOK`
is not inductive: the counters of commands 2 and 3 stay within 2 only because the flag
that refuses the next command is set together with the last increment. `TypeInv` adds that
(`CountersClosed`). `SessionQuota` bounds what was accepted, the code only looks at its flags:
`QuotaInv` ties the flags and counters to the accepted commands. `LateInv` says that no frame is late while the CAN task is between its test
and its build, so that the one it builds is the first. What `HostConfigCheck` and the staging
return is stated once each (`CheckFaultFacts`, `StageFacts`) and cited in every step lemma.

**CanRingProofs** (any `N >= 2` whose cursors fit 16 bits, any `Frames`). `RingTypeCorrect` holds for any `Window`, overruns
included. `FullTestBlind` says why the ring can be overrun: the full test finds room in every state in which `g_IntrDataCur` is not 0.
`OverrunUnseen` draws the consequence: with one slot left the next frame is accepted, the cursors meet, and the task finds the ring empty.
For `Window < N`: `RoomCorrect`, and `RingImplementsQueue`, the
refinement of `FrameQueue`. `RingInv` says that the distance of the cursors is the number of
outstanding frames, which stays within the window, and that a frame being handled is one of
them; `QueueInv` adds what the slots between the cursors hold. The hard leaves are the
modular arithmetic where a cursor wraps (lemmas `Mod...`) and the sequence read from the slots
(`QueueAppend`, `QueueTail`).

**FaultTimerProofs** (any links, times and settings). `TypeCorrect` and `PinCorrect`: `PinInv` says that PF6 is on a
stopped PWM only while some handler is between stopping and starting it, and that `g_bLoose` is set
whenever PF6 belongs to the PWM (without which the interrupt would not stop it). `TimedCorrect` and `ResetCorrect`:
`OrderInv` says that without a clash at most one handler is under way, and what then holds at each of its program
points of timer, buffer, relays and history.

**FlashConfigProofs** (any records, word width, number of marks, host words). `FlashTypeOK`, `WritesOnErasedFlash`,
`BootTakesKnownValues`, `SettingsDurable`. The invariant adds what the buffer of a write holds (`WriteInv`:
all marks, and a content that was sent for this record or is already in it), where a record can be without content (`EmptyKnown`) and what any
content word in flash can be (`ContentKnown`), also under marks that are not complete: a later write or a
cut erase never completes them around a content nobody sent.

**BlockAllocProofs** (any pool, block size and requests). `HeapTypeOK`, `AllocationsDisjoint`,
`TableDescribesHeap`, `NullOnlyWhenFull`, `AllocationsLargeEnough`. `ScanInv` says that the blocks counted are free, that the count is as long as it can
be, and that no run above the cursor is long enough; the last is what a refusal needs. `SizeInv` says that the run
searched for holds the bytes asked for, by the rounding up in `my_mem_malloc` (`BlocksForEnough`).

**NetInputProofs** (any pool, mailbox with more places than messages, any period and counter width).
`InputTypeOK`, `MailboxNeverFull` (messages are conserved), `BuffersAccounted`, and `InputImplementsQueue`, the refinement of
`FrameQueue`. `WaitInv` says that the thread waits only on an empty mailbox: otherwise a packet handed over
past the queue would overtake others.

**SupervisorProofs** (any number of starts). `SupervisorTypeOK`, `StackStartedOnce`, `AlarmHasCause`, `AlarmKeepsSounding`.
`StackInv` ties the point of `netinit_task` to how much of the stack
exists; `BusInv` says that a 0 in the latch or in a copy of it comes from a switch; `BeepInv` says
that the soft-reset flag is set as long as the report goes on and clear after an alarm that is not `early`, and that `main` raises its
alarm before any task exists.

**RelayDriverProofs** (any frames of the protocol's format). `RelayTypes` holds for any links. `RelaysWithoutOverlap` is the
main result: for any links, as long as none enters `FiuCom_Process` while another is inside (`OneAtATime`), `TypeOK`, `RelaysAsAsked`,
`BreakBeforeMake` and `ResistanceAsAsked` hold at every step. `RelayTypeOK`, `RelaysFollowFrame`, `RelaysBreakBeforeMake` and
`ResistanceFollowsFrame` are its consequences for one link, as in the run. The premise is needed: finding 2 is what happens without it, and
latch 13 may then even close its outputs 216..223, to which no relay is connected (`TypeInv` therefore allows them and
`TypeOK` does not). `LinkInv` is the inductive invariant: at rest latches, shadow copy and resistance are
those of the last frame (`RestInv`); while clearing, no relay below the current latch is left in either copy (`ClearInv`);
while a channel is written, the shadow copy and the pending writes together are the relays of the channels done so far, and
the latches are behind by at most the latch about to be clocked, whose bits are on the bus (`WriteInv`); between channels all
three agree (`LoopInv`). `Done` describes how far the loop has come, `LoopRound` and `LoopEnd` that a round adds the coils of the first
channel left and that the loop ends with `Driven`, the relays the code's compare selects. `DrivenAsked` relates these to `Asked`, the
documents' wording: never more, and the same for a listed type without load. `LoadedLeakageIsLost` is the other side: a leakage with load connects
nothing. Each step of a link keeps its own `LinkInv` whatever `Links` is; `UnitInv` hands it on
from one link to the next when all are idle. `MinFacts` and `MaxFacts` (a set of channels has a smallest and a largest
one) come from the library's theorem that finite sets are well-founded under inclusion, since induction is not available.

Every invariant and every safety property of the passing runs is stated by a theorem. Only model-checked are the liveness
properties `EventuallyHandled`, `TimedPwmStops`, `PacketsHandled`, `TimersKeepRunning`, `HotIsNoticed` and `NetComesUp`: fairness
and ENABLED are outside what TLAPS proves. The violations of section 5 are counterexamples of TLC.

## 5. Findings

PROJECT.json has each with the quoted line.

1. Channels 64..71 are accepted and never staged (`FiuHostDataAnalysis.c:902`), although the
   protocol has 72 channels.
2. Two links on one data bus (`FiuProcess.c:316`) close relays nobody selected.
3. `COMM_CMD_IP` and the multicast packet never store the address they carry
   (`udpecho.c:167`, `mulcast.c:88`).
4. The multicast callback frees its packet on no path (`mulcast.c:31`); the pool runs dry.

Behaviour that the theorems prove, or that the passing runs state as a premise or describe as it is:

- The full test of the CAN ring reads a cursor with the wrong width (`can.c:126`): a host that does not wait overruns the ring unseen
  (`FullTestBlind`, `OverrunUnseen`).
- Byte 12 is compared with its load bits (`FiuProcess.c:723`): leakage with load connects nothing (`LoadedLeakageIsLost`), although readme.txt
  splits the byte into load and fault type.
- `startFault` reads `g_Ptime` after its sleep (`FiuHostDataAnalysis.c:98`): a command on the other link meanwhile, even a refused one,
  leaves a fault with a limit without its timer. This is one of the clashes that `~clash` leaves out.
- `sys_arch_mbox_fetch` reports more than an hour for a wait within one tick (`sys_arch.c:139`), so that lwIP's timers come due early;
  `TimersKeepRunning` only says that they come due.
- After a soft reset `netinit_task` silences an alarm that `led_task` raised before the report was over (`main.c:264`). `AlarmSounds` leaves out
  these alarms (the history variable `early`).
- What the models promise of a fault's timer, of a timed PWM and of a reset, they promise when no command of the other link overlaps
  (`~clash` in `TimedFaultIsTimed`, `TimedPwmStops`, `ResetIsFinal`). For example UDP can start a timed loose contact between the two
  stops of a CAN handler (`FiuHostDataAnalysis.c:787`), which then stops only its timer.
- One fault frame can still be built after an over-temperature error, by a CAN handler past its test (`FiuHostDataAnalysis.c:729`).
- `g_bLoose` is never cleared (`FiuHostDataAnalysis.c:91`), so that the PWM can be started with frequency 0. The model computes
  what the processor does with it, and `TypeOK` of FaultTimer bounds the result.
- Compound types of one session are or-ed (`FiuHostDataAnalysis.c:1414`): the refusal has no `return`. `StagedExactly` describes it.
- A failed erase mixes two settings (`stmflash.c:96`); `NextBootKnown` leaves out the records in `mixed`.
- `COMM_CMD_IP` on a record without content makes the boot take an erased word as the address (`udpecho.c:160`). `NextBootKnown` names
  this as its third case; the trace of flash_address shows it.
- A transfer on the expander that was broken into can latch a temperature pin low and raise a
  false alarm (`pcf8574.c:72`): `NoFalseAlarm` has the premise `~torn`.

## 6. Not modelled

- Register setup and pure I/O (HAL, clock edges of the I2C bus, SDRAM, UART): no protocol state.
- Ethernet DMA descriptors and transmission; the semaphores and the blocking post of the lwIP port, which
  are used only while the network starts; the LED bits of the expander's latch.
- lwIP's own lists: `netinit_task` calls its raw interface (`main.c:251`) beside `tcpip_thread`.
- Restarts of the unit in `NetInput`: they start the module anew.
- The wording of answers and the status report 0x1D: they read state only.
- Undefined behaviour whose outcome the linked code does not fix: command 3 with pins
  18..63 and ECU-ECU with more than four channels write past arrays on the stack. Assumptions exclude
  these inputs; the hazards list names them.
- `COMM_CMD_UID` (`udpecho.c:146`) reads through a pointer that was never assigned.
- The third-party code, which is most of the repository's lines (uC/OS-II, lwIP, HAL, CMSIS headers): a model of the
  firmware stands on what these libraries promise it, and the map names the parts that entered.
- Two links at once inside the other configuration commands, and the shared `g_DataFromHost`: what a handler sees of the
  command that overwrites its own depends on the instruction at which it is preempted.
- `sys_mbox_post`, which spins until the queue has room. `MailboxHasRoom` shows that the receive path never fills the
  queue; that no other poster spins is not shown.

## 7. What could come next

1. *HostCommandRace*: the CAN task preempted by a UDP callback between the filling of
   `g_DataFromHost` and its use.
2. *FiuUnit*: FiuConfig, FaultTimer and RelayDriver composed over the frame.
3. The raw interface of lwIP used from two tasks.

The order is by what a wrong step would cost.
