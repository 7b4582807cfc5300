--------------------------- MODULE PorthDriver_proofs ---------------------------
(***************************************************************************)
(* PorthDriver for any number of channels, any rings, limit and            *)
(* temperatures: the watchdog runs on a driver that exists, the device     *)
(* never has an address of memory that is gone, and a breach is never      *)
(* lost on the way from the sample to the halt.                            *)
(***************************************************************************)
EXTENDS PorthDriver, TLAPS

Early == {"validate", "shuttle", "thread"}
Owning == Early \cup {"await", "announce", "up", "unmap", "stop", "join", "free"}

(* The watchdog starts with the constructor's last part but one, and       *)
(* answers only where there are registers.                                 *)
Started == (pc \in Early => wd = "none") /\ (ready => regs)

(* While the constructor makes shuttles there are more to come.  While the *)
(* driver owns its shuttles they are the first ones; those the device sees *)
(* are among them, none without a device, data_ptr is the first, and the   *)
(* destructor has taken them back from "stop" on.                          *)
Memory ==
  /\ pc = "shuttle" => shuttles < Channels
  /\ pc \in Owning => live = 1 .. shuttles
  /\ pc \in Owning /\ pc \notin {"unmap", "stop", "join", "free"} =>
       mapped = IF device THEN 1 .. shuttles ELSE {}
  /\ pc = "unmap" => mapped \subseteq live
  /\ pc \in Owning => dataPtr = 0 \/ (dataPtr = 1 /\ shuttles > 0)
  /\ pc \in {"unmap", "stop", "join", "free", "gone"} => dataPtr = 0
  /\ pc \in {"stop", "join", "free", "gone"} => mapped = {}

(* What the watchdog holds between the sample and the halt.                *)
Sampled ==
  /\ wd \in {"link", "publish", "judge"} =>
       (sample > Limit => breach) /\ (breach => sample > Limit \/ ~control)
  /\ wd \in {"message", "write"} => breach

DriverInd == DriverInv /\ DeviceSeesLiveMemory /\ SampledBreachHalts /\ Started /\ Memory /\ Sampled

--------------------------------------------------------------------------------
LEMMA InitDriverInd == DriverInit => DriverInd
<1> SUFFICES ASSUME DriverInit PROVE DriverInd
  OBVIOUS
<1>1. Memory /\ DeviceSeesLiveMemory
  <2>1. 1 .. 0 = {}
    OBVIOUS
  <2> QED
    BY <2>1 DEF DriverInit, Memory, DeviceSeesLiveMemory
<1>2. SampledBreachHalts /\ Started /\ Sampled
  <2>1. maxTemp = 0 /\ ~(0 > Limit) /\ control = TRUE /\ breach = FALSE /\ wd = "none" /\ ready = FALSE
    BY DriverAssumption DEF DriverInit
  <2> QED
    BY <2>1 DEF SampledBreachHalts, Started, Sampled, Early, Judging
<1>3. DriverInv
  <2>1. rings \in [Shuttle -> 0 .. RingSize] /\ shuttles \in 0 .. Channels
    BY DriverAssumption DEF DriverInit
  <2>2. /\ pc = "validate" /\ live = {} /\ mapped = {} /\ dataPtr = 0 /\ temp \in Temps
        /\ sample = 0 /\ maxTemp = 0 /\ wd = "none"
    BY DEF DriverInit
  <2>3. /\ regs \in BOOLEAN /\ device \in BOOLEAN /\ control \in BOOLEAN /\ ready \in BOOLEAN
        /\ run \in BOOLEAN /\ linked \in BOOLEAN /\ breach \in BOOLEAN
    BY DEF DriverInit
  <2> QED
    BY <2>1, <2>2, <2>3 DEF DriverInv, Built
<1> QED
  BY <1>1, <1>2, <1>3 DEF DriverInd

--------------------------------------------------------------------------------
(* The owner's steps and the memory.                                       *)

MemoryOK ==
  /\ Memory
  /\ shuttles \in 0 .. Channels /\ live \subseteq Shuttle /\ mapped \subseteq Shuttle
  /\ dataPtr \in {0} \cup Shuttle

LEMMA ThrowsKeepsMemory ==
  ASSUME MemoryOK, Throws
  PROVE  MemoryOK'
BY DEF Throws, MemoryOK, Memory, Owning, Early

LEMMA NextShuttleKeepsMemory ==
  ASSUME MemoryOK, pc \in Early, UNCHANGED <<device, memVars>>, pc' = NextShuttle
  PROVE  MemoryOK'
BY DEF NextShuttle, memVars, MemoryOK, Memory, Owning, Early

LEMMA AddShuttleKeepsMemory ==
  ASSUME MemoryOK, AddShuttle
  PROVE  MemoryOK'
<1>1. pc = "shuttle" /\ UNCHANGED device
  BY DEF AddShuttle
<1>2. shuttles \in Nat /\ Channels \in Nat /\ shuttles < Channels
  BY <1>1, DriverAssumption DEF MemoryOK, Memory
<1>3. CASE Throws
  BY <1>3, ThrowsKeepsMemory
<1>4. CASE ~Throws
  <2>1. /\ shuttles' = shuttles + 1 /\ live' = live \cup {shuttles'}
        /\ mapped' = (IF device THEN mapped \cup {shuttles'} ELSE mapped)
        /\ dataPtr' = (IF shuttles = 0 /\ regs THEN 1 ELSE dataPtr)
        /\ pc' = NextShuttle
    BY <1>4 DEF AddShuttle
  <2>2. /\ live = 1 .. shuttles /\ mapped = (IF device THEN 1 .. shuttles ELSE {})
        /\ dataPtr = 0 \/ (dataPtr = 1 /\ shuttles > 0)
    BY <1>1 DEF MemoryOK, Memory, Owning, Early
  <2>3. 1 .. shuttles' = 1 .. shuttles \cup {shuttles'}
    BY <1>2, <2>1
  <2>4. /\ live' = 1 .. shuttles' /\ mapped' = IF device THEN 1 .. shuttles' ELSE {}
        /\ dataPtr' = 0 \/ (dataPtr' = 1 /\ shuttles' > 0)
    <3>1. live' = 1 .. shuttles'
      BY <2>1, <2>2, <2>3
    <3>2. mapped' = IF device THEN 1 .. shuttles' ELSE {}
      BY <2>1, <2>2, <2>3
    <3>3. dataPtr' = 0 \/ (dataPtr' = 1 /\ shuttles' > 0)
      BY <1>2, <2>1, <2>2
    <3> QED
      BY <3>1, <3>2, <3>3
  <2>5. pc' = "thread" \/ (pc' = "shuttle" /\ shuttles' < Channels)
    BY <2>1 DEF NextShuttle
  <2>6. Memory'
    BY <1>1, <2>4, <2>5 DEF Memory, Owning, Early
  <2> QED
    BY <1>2, <2>1, <2>4, <2>6 DEF MemoryOK, Shuttle
<1> QED
  BY <1>3, <1>4

LEMMA StepKeepsMemory ==
  ASSUME DriverInd, DriverNext
  PROVE  MemoryOK'
<1>1. MemoryOK /\ DriverInv
  BY DEF DriverInd, DriverInv, MemoryOK
<1>2. CASE Validate
  BY <1>1, <1>2, ThrowsKeepsMemory, NextShuttleKeepsMemory DEF Validate, Early
<1>3. CASE AddShuttle
  BY <1>1, <1>3, AddShuttleKeepsMemory
<1>4. CASE StartWatchdog
  <2>1. CASE Throws
    BY <1>1, <2>1, ThrowsKeepsMemory
  <2>2. CASE ~Throws
    BY <1>1, <1>4, <2>2 DEF StartWatchdog, memVars, MemoryOK, Memory, Owning, Early
  <2> QED
    BY <2>1, <2>2
<1>5. CASE AwaitReady \/ Announce \/ Use
  BY <1>1, <1>5 DEF AwaitReady, Announce, Use, SetStatsLink, Transmit, Receive, memVars, MemoryOK,
                    Memory, Owning, Early
<1>6. CASE ClearDataPtr
  <2>1. regs /\ dataPtr' = 0 /\ pc' = (IF device THEN "unmap" ELSE "stop")
    BY <1>1, <1>6 DEF ClearDataPtr, DriverInv, Built
  <2> QED
    BY <1>1, <1>6, <2>1 DEF ClearDataPtr, MemoryOK, Memory, Owning, Early
<1>7. CASE UnmapDma \/ UnmapEnds
  BY <1>1, <1>7 DEF UnmapDma, UnmapEnds, memVars, MemoryOK, Memory, Owning, Early
<1>8. CASE StopWatchdog \/ JoinWatchdog \/ FreeShuttles
  BY <1>1, <1>8 DEF StopWatchdog, JoinWatchdog, FreeShuttles, memVars, MemoryOK, Memory, Owning, Early
<1>9. CASE Watchdog \/ LaserTemp
  <2>1. UNCHANGED <<device, memVars>> /\ (UNCHANGED pc \/ pc' = "terminated")
    BY <1>9 DEF Watchdog, LaserTemp, WatchdogBegin, WatchdogTest, WatchdogSample, WatchdogLink,
                WatchdogPublish, WatchdogJudge, WatchdogMessage, WatchdogWrite, WatchdogHalt,
                ownerVars
  <2> QED
    BY <1>1, <2>1 DEF memVars, MemoryOK, Memory, Owning, Early
<1> QED
  BY <1>2, <1>3, <1>4, <1>5, <1>6, <1>7, <1>8, <1>9 DEF DriverNext, Construct, Destroy

--------------------------------------------------------------------------------
(* The watchdog's steps.                                                   *)

WatchdogOK ==
  /\ SampledBreachHalts /\ Started /\ Sampled
  /\ pc \in Built \cup Early \cup {"await", "threw", "terminated"}
  /\ temp \in Temps /\ sample \in {0} \cup Temps /\ maxTemp \in {0} \cup Temps
  /\ regs \in BOOLEAN /\ device \in BOOLEAN /\ control \in BOOLEAN /\ ready \in BOOLEAN
  /\ run \in BOOLEAN /\ linked \in BOOLEAN /\ breach \in BOOLEAN
  /\ wd \in {"none", "begin", "test", "sample", "halt", "done"} \cup Judging
  /\ pc \in {"free", "gone", "threw"} => wd \in {"none", "done"}
  /\ pc \in Built => regs

LEMMA WatchdogKeepsItself ==
  ASSUME WatchdogOK, Watchdog \/ LaserTemp
  PROVE  WatchdogOK'
<1> USE DriverAssumption
        DEF WatchdogOK, SampledBreachHalts, Started, Sampled, Built, Judging, Early, WatchdogAt,
            ownerVars
<1>1. CASE WatchdogBegin
  BY <1>1 DEF WatchdogBegin
<1>2. CASE WatchdogTest
  BY <1>2 DEF WatchdogTest
<1>3. CASE WatchdogSample
  BY <1>3 DEF WatchdogSample
<1>4. CASE WatchdogPublish
  BY <1>4 DEF WatchdogPublish
<1>5. CASE WatchdogJudge
  BY <1>5 DEF WatchdogJudge
<1>6. CASE WatchdogHalt
  BY <1>6 DEF WatchdogHalt
<1>7. CASE LaserTemp
  BY <1>7 DEF LaserTemp, wdVars
<1>8. CASE WatchdogLink
  BY <1>8 DEF WatchdogLink
<1>9. CASE WatchdogMessage
  BY <1>9 DEF WatchdogMessage
<1>10. CASE WatchdogWrite
  BY <1>10 DEF WatchdogWrite
<1> QED
  BY <1>1, <1>2, <1>3, <1>4, <1>5, <1>6, <1>7, <1>8, <1>9, <1>10 DEF Watchdog

LEMMA OwnerKeepsWatchdog ==
  ASSUME WatchdogOK, Construct \/ Use \/ ClearDataPtr \/ Destroy
  PROVE  WatchdogOK'
<1> USE DEF WatchdogOK, SampledBreachHalts, Started, Sampled, Built, Judging, Early, wdVars
<1>1. CASE Validate
  BY <1>1 DEF Validate, Throws, NextShuttle
<1>2. CASE AddShuttle
  BY <1>2 DEF AddShuttle, Throws, NextShuttle
<1>3. CASE StartWatchdog
  BY <1>3 DEF StartWatchdog, Throws
<1>4. CASE AwaitReady
  BY <1>4 DEF AwaitReady
<1>5. CASE Announce
  BY <1>5 DEF Announce
<1>6. CASE Use
  <2>1. CASE SetStatsLink
    BY <2>1 DEF SetStatsLink
  <2>2. ASSUME NEW k \in Shuttle, Transmit(k) \/ Receive(k) PROVE WatchdogOK'
    BY <2>2 DEF Transmit, Receive
  <2> QED
    BY <1>6, <2>1, <2>2 DEF Use
<1>7. CASE ClearDataPtr
  BY <1>7 DEF ClearDataPtr
<1>8. CASE Destroy
  <2>1. CASE UnmapDma \/ UnmapEnds
    BY <2>1 DEF UnmapDma, UnmapEnds
  <2>2. CASE StopWatchdog
    BY <2>2 DEF StopWatchdog
  <2>3. CASE JoinWatchdog
    BY <2>3 DEF JoinWatchdog
  <2>4. CASE FreeShuttles
    BY <2>4 DEF FreeShuttles
  <2> QED
    BY <1>8, <2>1, <2>2, <2>3, <2>4 DEF Destroy
<1> QED
  BY <1>1, <1>2, <1>3, <1>4, <1>5, <1>6, <1>7, <1>8 DEF Construct

LEMMA StepKeepsRings ==
  ASSUME rings \in [Shuttle -> 0 .. RingSize], DriverNext
  PROVE  rings' \in [Shuttle -> 0 .. RingSize]
<1>1. ASSUME NEW k \in Shuttle, Transmit(k) \/ Receive(k)
      PROVE  rings' \in [Shuttle -> 0 .. RingSize]
  BY <1>1, DriverAssumption DEF Transmit, Receive
<1>2. CASE Construct \/ SetStatsLink \/ ClearDataPtr \/ Destroy \/ Watchdog \/ LaserTemp
  <2>1. rings' = rings
    BY <1>2 DEF Construct, Validate, AddShuttle, StartWatchdog, AwaitReady, Announce, SetStatsLink,
                ClearDataPtr, Destroy, UnmapDma, UnmapEnds, StopWatchdog, JoinWatchdog,
                FreeShuttles, Watchdog, LaserTemp, WatchdogBegin, WatchdogTest, WatchdogSample,
                WatchdogLink, WatchdogPublish, WatchdogJudge, WatchdogMessage, WatchdogWrite,
                WatchdogHalt, ownerVars
  <2> QED
    BY <2>1
<1> QED
  BY <1>1, <1>2 DEF DriverNext, Use

--------------------------------------------------------------------------------
LEMMA NextKeepsDriverInd == DriverInd /\ [DriverNext]_driverVars => DriverInd'
<1>1. ASSUME DriverInd, DriverNext PROVE DriverInd'
  <2>1. WatchdogOK
    BY <1>1 DEF WatchdogOK, DriverInd, DriverInv, Early
  <2>2. MemoryOK' /\ WatchdogOK' /\ rings' \in [Shuttle -> 0 .. RingSize]
    <3>1. rings \in [Shuttle -> 0 .. RingSize]
      BY <1>1 DEF DriverInd, DriverInv
    <3> QED
      BY <1>1, <2>1, <3>1, StepKeepsMemory, WatchdogKeepsItself, OwnerKeepsWatchdog,
         StepKeepsRings DEF DriverNext
  <2>3. DriverInv'
    BY <2>2 DEF MemoryOK, WatchdogOK, DriverInv, Early
  <2>4. DeviceSeesLiveMemory'
    <3>1. /\ pc' \in Owning \cup {"gone", "threw", "terminated"} /\ shuttles' \in Nat
      BY <2>2, DriverAssumption DEF MemoryOK, WatchdogOK, Built, Owning, Early
    <3> QED
      BY <2>2, <3>1 DEF MemoryOK, Memory, DeviceSeesLiveMemory, Owning, Early
  <2> QED
    BY <2>2, <2>3, <2>4 DEF DriverInd, MemoryOK, WatchdogOK
<1>2. ASSUME DriverInd, UNCHANGED driverVars PROVE DriverInd'
  BY <1>2 DEF driverVars, ownerVars, wdVars, memVars, DriverInd, DriverInv, DeviceSeesLiveMemory,
              SampledBreachHalts, Started, Memory, Sampled
<1> QED
  BY <1>1, <1>2

LEMMA DriverIndHolds == DriverSpec => []DriverInd
BY InitDriverInd, NextKeepsDriverInd, PTL DEF DriverSpec, DriverSafety

(* The watchdog runs only while there is a driver for it to run on.        *)
THEOREM WatchdogHasADriver == DriverSpec => []DriverInv
<1>1. DriverInd => DriverInv
  BY DEF DriverInd
<1> QED
  BY DriverIndHolds, <1>1, PTL

(* No address of freed memory stays with the device, as long as the        *)
(* constructor did not throw.                                              *)
THEOREM DriverGivesMemoryBack == DriverSpec => []DeviceSeesLiveMemory
<1>1. DriverInd => DeviceSeesLiveMemory
  BY DEF DriverInd
<1> QED
  BY DriverIndHolds, <1>1, PTL

(* A sampled breach is never lost: the watchdog goes on to another sample, *)
(* or ends, only with the hardware halted, and halts it for nothing less.  *)
(* On its way there it may end with the process.                           *)
THEOREM BreachIsFinal == DriverSpec => []SampledBreachHalts
<1>1. DriverInd => SampledBreachHalts
  BY DEF DriverInd
<1> QED
  BY DriverIndHolds, <1>1, PTL
================================================================================
