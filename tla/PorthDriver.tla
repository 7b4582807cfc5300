------------------------------ MODULE PorthDriver ------------------------------
(***************************************************************************)
(* porth::Driver (include/buan/network/driver_interface.hpp): the thread   *)
(* that owns the driver constructs it, transmits and destroys it, while    *)
(* the watchdog's thread samples the laser's temperature and halts the     *)
(* hardware.                                                               *)
(*                                                                         *)
(* Registers, IOMMU and shuttles (PorthDeviceLayout, PorthVFIODevice,      *)
(* PorthShuttle) are external and modelled as the driver uses them: a      *)
(* shuttle is memory with a bounded ring in it, map_dma makes it visible   *)
(* to the device, and whatever can throw may throw.  The process is over   *)
(* ("terminated") where an exception leaves a thread or a destructor, and  *)
(* where the watchdog goes through a null pointer.                         *)
(***************************************************************************)
EXTENDS Naturals, FiniteSets

CONSTANTS
  Channels, \* pdk.get_num_channels()
  RingSize, \* descriptors a shuttle's ring takes
  Limit,    \* m_thermal_limit_mc
  Temps     \* what laser_temp may read

ASSUME DriverAssumption ==
  Channels \in Nat /\ RingSize \in Nat /\ Limit \in Nat /\ Temps \subseteq Nat /\ Temps # {}

VARIABLES
  regs,     \* m_regs # nullptr
  device,   \* m_device_ptr # nullptr: the physical constructor
  pc,       \* where the owner is
  shuttles, \* m_shuttles.size()
  live,     \* shuttles whose memory exists
  mapped,   \* shuttles the IOMMU shows to the device
  dataPtr,  \* register: 0, or the shuttle whose address it holds
  control,  \* register: FALSE once the watchdog wrote 0
  temp,     \* register laser_temp
  rings,    \* descriptors in each shuttle's ring
  wd,       \* where the watchdog is
  sample,   \* temp in watchdog_loop
  ready,    \* m_watchdog_ready
  run,      \* m_run_watchdog
  linked,   \* m_stats # nullptr
  maxTemp,  \* max_temp_mc of the statistics
  breach    \* history: the watchdog has sampled a temperature over the limit

memVars    == <<shuttles, live, mapped, dataPtr>>
ownerVars  == <<regs, device, pc, rings, linked, memVars>>
wdVars     == <<control, wd, sample, ready, maxTemp, breach>>
driverVars == <<ownerVars, wdVars, run, temp>>

Shuttle == 1 .. Channels

DriverInit ==
  /\ regs \in BOOLEAN /\ device \in BOOLEAN /\ pc = "validate"
  /\ shuttles = 0 /\ live = {} /\ mapped = {} /\ dataPtr = 0
  /\ control = TRUE /\ temp \in Temps /\ rings = [k \in Shuttle |-> 0]
  /\ wd = "none" /\ sample = 0 /\ ready = FALSE /\ run = TRUE
  /\ linked = FALSE /\ maxTemp = 0 /\ breach = FALSE

--------------------------------------------------------------------------------
(* The constructor.                                                        *)

(* An exception destroys the members; there is no ~Driver to unmap them.   *)
Throws == pc' = "threw" /\ live' = {} /\ UNCHANGED <<shuttles, mapped, dataPtr>>

NextShuttle == IF shuttles' < Channels THEN "shuttle" ELSE "thread"

Validate ==                      \* validate_against_pdk, if there is a device
  /\ pc = "validate"
  /\ \/ device /\ Throws
     \/ UNCHANGED memVars /\ pc' = NextShuttle
  /\ UNCHANGED <<regs, device, rings, linked, wdVars, run, temp>>

(* One pass of the loop: the shuttle, its mapping if there is a device,    *)
(* and data_ptr for the first one.  Where the memory or the mapping cannot *)
(* be had, the shuttle in the making is destroyed unmapped.                *)
AddShuttle ==
  /\ pc = "shuttle"
  /\ \/ Throws
     \/ /\ shuttles' = shuttles + 1 /\ live' = live \cup {shuttles'}
        /\ mapped' = IF device THEN mapped \cup {shuttles'} ELSE mapped
        /\ dataPtr' = IF shuttles = 0 /\ regs THEN 1 ELSE dataPtr
        /\ pc' = NextShuttle
  /\ UNCHANGED <<regs, device, rings, linked, wdVars, run, temp>>

StartWatchdog ==
  /\ pc = "thread"
  /\ \/ Throws /\ UNCHANGED wd
     \/ wd' = "begin" /\ pc' = "await" /\ UNCHANGED memVars
  /\ UNCHANGED <<regs, device, rings, linked, control, sample, ready, maxTemp, breach, run, temp>>

AwaitReady ==
  /\ pc = "await" /\ ready
  /\ pc' = "announce"
  /\ UNCHANGED <<regs, device, rings, linked, memVars, wdVars, run, temp>>

(* The message may throw: the thread's handle is then destroyed joinable.  *)
Announce ==
  /\ pc = "announce"
  /\ pc' \in {"up", "terminated"}
  /\ UNCHANGED <<regs, device, rings, linked, memVars, wdVars, run, temp>>

--------------------------------------------------------------------------------
(* The operations of the owner.                                            *)

SetStatsLink ==                  \* to statistics, or to nullptr
  /\ pc = "up" /\ linked' \in BOOLEAN
  /\ UNCHANGED <<regs, device, pc, rings, memVars, wdVars, run, temp>>

(* A full ring and a channel that is none answer FULL and change nothing   *)
(* but a counter; nor does the watchdog's halt change the answer.          *)
Transmit(k) ==
  /\ pc = "up" /\ k <= shuttles /\ rings[k] < RingSize
  /\ rings' = [rings EXCEPT ![k] = @ + 1]
  /\ UNCHANGED <<regs, device, pc, linked, memVars, wdVars, run, temp>>

Receive(k) ==
  /\ pc = "up" /\ k <= shuttles /\ rings[k] > 0
  /\ rings' = [rings EXCEPT ![k] = @ - 1]
  /\ UNCHANGED <<regs, device, pc, linked, memVars, wdVars, run, temp>>

--------------------------------------------------------------------------------
(* ~Driver, and the destruction of the members after it.                   *)

MutUnmapFirst ==                 \* data_ptr still set while the shuttles go
  /\ pc = "up"
  /\ mapped' = {} /\ pc' = "stop"
  /\ UNCHANGED <<regs, device, rings, linked, shuttles, live, dataPtr, wdVars, run, temp>>

ClearDataPtr ==
  /\ pc = "up"
  /\ dataPtr' = IF regs THEN 0 ELSE dataPtr
  /\ pc' = IF regs /\ device THEN "unmap" ELSE "stop"
  /\ UNCHANGED <<regs, device, rings, linked, shuttles, live, mapped, wdVars, run, temp>>

(* One pass of the loop.  A destructor is noexcept: what unmap_dma throws  *)
(* ends the process.                                                       *)
UnmapDma ==
  /\ pc = "unmap" /\ mapped # {}
  /\ \/ pc' = "terminated" /\ UNCHANGED mapped
     \/ \E k \in mapped : /\ \A j \in mapped : k <= j
                          /\ mapped' = mapped \ {k} /\ UNCHANGED pc
  /\ UNCHANGED <<regs, device, rings, linked, shuttles, live, dataPtr, wdVars, run, temp>>

UnmapEnds ==
  /\ pc = "unmap" /\ mapped = {}
  /\ pc' = "stop"
  /\ UNCHANGED <<regs, device, rings, linked, memVars, wdVars, run, temp>>

MutStopForgotten ==              \* joins without m_run_watchdog.store(false)
  /\ pc = "stop" /\ pc' = "join"
  /\ UNCHANGED <<regs, device, rings, linked, memVars, wdVars, run, temp>>

StopWatchdog ==
  /\ pc = "stop"
  /\ run' = FALSE /\ pc' = "join"
  /\ UNCHANGED <<regs, device, rings, linked, memVars, wdVars, temp>>

MutDetach ==                     \* detach instead of join
  /\ pc = "join" /\ pc' = "free"
  /\ UNCHANGED <<regs, device, rings, linked, memVars, wdVars, run, temp>>

JoinWatchdog ==
  /\ pc = "join" /\ wd = "done"
  /\ pc' = "free"
  /\ UNCHANGED <<regs, device, rings, linked, memVars, wdVars, run, temp>>

FreeShuttles ==
  /\ pc = "free"
  /\ live' = {} /\ pc' = "gone"
  /\ UNCHANGED <<regs, device, rings, linked, shuttles, mapped, dataPtr, wdVars, run, temp>>

--------------------------------------------------------------------------------
(* watchdog_loop, on its own thread; std::terminate ends that one too.     *)
WatchdogAt(label) == wd = label /\ pc # "terminated"

WatchdogBegin ==                 \* without registers it is over at once
  /\ WatchdogAt("begin")
  /\ ready' = regs
  /\ wd' = IF regs THEN "test" ELSE "done"
  /\ UNCHANGED <<ownerVars, control, sample, maxTemp, breach, run, temp>>

WatchdogTest ==
  /\ WatchdogAt("test")
  /\ wd' = IF run THEN "sample" ELSE "done"
  /\ UNCHANGED <<ownerVars, control, sample, ready, maxTemp, breach, run, temp>>

WatchdogSample ==
  /\ WatchdogAt("sample")
  /\ sample' = temp /\ breach' = (breach \/ temp > Limit)
  /\ wd' = "link"
  /\ UNCHANGED <<ownerVars, control, ready, maxTemp, run, temp>>

WatchdogLink ==                  \* m_stats # nullptr
  /\ WatchdogAt("link")
  /\ wd' = IF linked THEN "publish" ELSE "judge"
  /\ UNCHANGED <<ownerVars, control, sample, ready, maxTemp, breach, run, temp>>

(* set_stats_link may have been called since the test, and the race on     *)
(* m_stats leaves open what the watchdog reads again: the statistics it    *)
(* tested, or nullptr.                                                     *)
WatchdogPublish ==
  /\ WatchdogAt("publish")
  /\ \/ /\ maxTemp' = IF sample > maxTemp THEN sample ELSE maxTemp
        /\ wd' = "judge" /\ UNCHANGED pc
     \/ ~linked /\ pc' = "terminated" /\ UNCHANGED <<wd, maxTemp>>
  /\ UNCHANGED <<regs, device, rings, linked, memVars, control, sample, ready, breach, run, temp>>

MutJudgeRegister ==              \* judges a second reading of laser_temp
  /\ WatchdogAt("judge")
  /\ wd' = IF temp > Limit THEN "message" ELSE "test"
  /\ UNCHANGED <<ownerVars, control, sample, ready, maxTemp, breach, run, temp>>

MutAtLimit ==                    \* off by one: one above the limit passes
  /\ WatchdogAt("judge")
  /\ wd' = IF sample > Limit + 1 THEN "message" ELSE "test"
  /\ UNCHANGED <<ownerVars, control, sample, ready, maxTemp, breach, run, temp>>

WatchdogJudge ==
  /\ WatchdogAt("judge")
  /\ wd' = IF sample > Limit THEN "message" ELSE "test"
  /\ UNCHANGED <<ownerVars, control, sample, ready, maxTemp, breach, run, temp>>

(* The message comes before the halt, and nothing catches what it throws.  *)
WatchdogMessage ==
  /\ WatchdogAt("message")
  /\ \/ wd' = "write" /\ UNCHANGED pc
     \/ pc' = "terminated" /\ UNCHANGED wd
  /\ UNCHANGED <<regs, device, rings, linked, memVars, control, sample, ready, maxTemp, breach,
                 run, temp>>

WatchdogWrite ==
  /\ WatchdogAt("write")
  /\ control' = FALSE /\ wd' = "halt"
  /\ UNCHANGED <<ownerVars, sample, ready, maxTemp, breach, run, temp>>

WatchdogHalt ==
  /\ WatchdogAt("halt")
  /\ run' = FALSE /\ wd' = "done"
  /\ UNCHANGED <<ownerVars, control, sample, ready, maxTemp, breach, temp>>

LaserTemp ==                     \* external
  /\ temp' \in Temps
  /\ UNCHANGED <<ownerVars, wdVars, run>>

--------------------------------------------------------------------------------
Construct == Validate \/ AddShuttle \/ StartWatchdog \/ AwaitReady \/ Announce
Use == SetStatsLink \/ \E k \in Shuttle : Transmit(k) \/ Receive(k)
Destroy == UnmapDma \/ UnmapEnds \/ StopWatchdog \/ JoinWatchdog \/ FreeShuttles
Watchdog == WatchdogBegin \/ WatchdogTest \/ WatchdogSample \/ WatchdogLink \/ WatchdogPublish
              \/ WatchdogJudge \/ WatchdogMessage \/ WatchdogWrite \/ WatchdogHalt

DriverNext == Construct \/ Use \/ ClearDataPtr \/ Destroy \/ Watchdog \/ LaserTemp

DriverSafety == DriverInit /\ [][DriverNext]_driverVars

(* Both threads are scheduled; nothing makes the owner use or destroy the  *)
(* driver.                                                                 *)
DriverSpec == DriverSafety /\ WF_driverVars(Construct) /\ WF_driverVars(Destroy)
                /\ WF_driverVars(Watchdog)

--------------------------------------------------------------------------------
Judging == {"link", "publish", "judge", "message", "write"}
Built == {"announce", "up", "unmap", "stop", "join", "free", "gone"}

(* The values of the variables; the watchdog runs only while there is a    *)
(* driver for it to run on, whenever the owner destroys it and wherever    *)
(* the constructor throws; and no driver without registers gets out of its *)
(* constructor.                                                            *)
DriverInv ==
  /\ pc \in Built \cup {"validate", "shuttle", "thread", "await", "threw", "terminated"}
  /\ shuttles \in 0 .. Channels /\ live \subseteq Shuttle /\ mapped \subseteq Shuttle
  /\ dataPtr \in {0} \cup Shuttle /\ rings \in [Shuttle -> 0 .. RingSize]
  /\ temp \in Temps /\ sample \in {0} \cup Temps /\ maxTemp \in {0} \cup Temps
  /\ regs \in BOOLEAN /\ device \in BOOLEAN /\ control \in BOOLEAN /\ ready \in BOOLEAN
  /\ run \in BOOLEAN /\ linked \in BOOLEAN /\ breach \in BOOLEAN
  /\ wd \in {"none", "begin", "test", "sample", "halt", "done"} \cup Judging
  /\ pc \in {"free", "gone", "threw"} => wd \in {"none", "done"}
  /\ pc \in Built => regs

(* The device never has an address of memory that is gone: data_ptr and    *)
(* the IOMMU name shuttles that exist, data_ptr only one that is mapped,   *)
(* and the destructor takes all of it back before it frees a shuttle.  A   *)
(* constructor that throws is the exception: nobody takes anything back.   *)
DeviceSeesLiveMemory ==
  /\ pc \notin {"threw", "terminated"} =>
       /\ mapped \subseteq live /\ dataPtr \in {0} \cup live
       /\ device /\ dataPtr # 0 => dataPtr \in mapped
  /\ pc \in {"free", "gone"} => mapped = {} /\ dataPtr = 0

(* A breach the watchdog has sampled halts the hardware, though the        *)
(* temperature falls again or the destructor stops the watchdog meanwhile: *)
(* it is halted, or the watchdog is still on its way there, where the      *)
(* process may end (the message throws, or the statistics are gone).  The  *)
(* watchdog never halts the hardware for less, and the telemetry shows no  *)
(* breach that was not sampled.  (~Driver "ensures graceful hardware       *)
(* shutdown", line 174, but writes nothing to control.)                    *)
SampledBreachHalts ==
  /\ breach /\ control => wd \in Judging
  /\ ~control => breach
  /\ maxTemp > Limit => breach

(* As long as nobody stops the watchdog, a temperature over the limit      *)
(* halts the hardware or falls, or the process ends.                       *)
BreachHalts ==
  (wd = "test" /\ run /\ temp > Limit) ~> (~control \/ temp <= Limit \/ ~run \/ pc = "terminated")

(* The constructor returns or throws if there are registers (without them  *)
(* it waits for a watchdog that is already over), and the destructor's     *)
(* join succeeds, unless the process ends.                                 *)
NobodyHangs ==
  /\ (pc = "validate" /\ regs) ~> (pc \in {"up", "threw", "terminated"})
  /\ (pc \in {"unmap", "stop"}) ~> (pc \in {"gone", "terminated"})
================================================================================
