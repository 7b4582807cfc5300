------------------------------- MODULE ShadowLog -------------------------------
(***************************************************************************)
(* The shadow log of main.cpp: the trading thread (main's polling loop)    *)
(* pushes audit records into the audit ring, AuditFlusher::run             *)
(* (include/buan/benchmarks/audit_flusher.hpp) pops them on a second       *)
(* thread and copies them into a mapped file, and SIGINT ends both.        *)
(*                                                                         *)
(* The ring is SpscRing, stale index views included.  g_running is stored  *)
(* with release by the handler, which interrupts the main thread between   *)
(* any two of its steps, and loaded with acquire by the flusher: the       *)
(* flusher sees main's stores to m_head and to g_running in the order main *)
(* made them.                                                              *)
(*                                                                         *)
(* The n-th record main offers is the number n.                            *)
(***************************************************************************)
EXTENDS SpscRing

CONSTANTS
  MaxRecords,  \* bound: records main offers
  FileRecords, \* FILE_SIZE, in records
  ChunkRecords \* CHUNK_SIZE, in records

ASSUME ShadowAssumption ==
  /\ MaxRecords \in Nat /\ Values = 1 .. MaxRecords
  /\ MaxRecords < DropMod       \* 2^64 records are never offered
  /\ ChunkRecords \in Nat \ {0} /\ FileRecords \in Nat \ {0}
  /\ FileRecords % ChunkRecords = 0

VARIABLES
  mainPc,    \* where main is in the polling loop and after it
  running,   \* g_running
  runVis,    \* g_running as the flusher's core sees it
  flushPc,   \* where the flusher is in run; "killed": the process died there
  sized,     \* did the ftruncate of run give the file its size?
  log,       \* the records copied into the file (total_written is Len(log))
  chunk,     \* current_chunk_bytes, in records
  synced,    \* records handed to msync
  offered,   \* history: records main offered to the ring
  accepted,  \* history: records push published
  stopHead,  \* history: m_head when the handler ran
  stopCount, \* history: Len(accepted) when the handler ran
  discarded  \* history: records popped and not copied

mainVars  == <<mainPc, running, offered, accepted, stopHead, stopCount>>
flushVars == <<runVis, flushPc, sized, log, chunk, synced, discarded>>
shadowVars == <<ringVars, mainVars, flushVars>>

ShadowInit ==
  /\ RingInit
  /\ mainPc = "test" /\ running = TRUE /\ runVis = TRUE
  /\ flushPc = "open" /\ sized = FALSE
  /\ log = << >> /\ chunk = 0 /\ synced = 0
  /\ offered = 0 /\ accepted = << >> /\ discarded = 0
  /\ stopHead = 0 /\ stopCount = 0

(* A SIGBUS of the flusher kills the process: no thread takes a step, no   *)
(* handler runs.                                                           *)
Alive == flushPc # "killed"

--------------------------------------------------------------------------------
(* The main thread.                                                        *)

MutNeverTests ==                 \* the loop runs for its bound, not for the flag
  /\ Alive /\ mainPc = "test"
  /\ mainPc' = IF offered < MaxRecords THEN "step" ELSE "join"
  /\ UNCHANGED <<ringVars, flushVars, running, offered, accepted, stopHead, stopCount>>

MainTest ==
  /\ Alive /\ mainPc = "test"
  /\ mainPc' = IF running THEN "step" ELSE "join"
  /\ UNCHANGED <<ringVars, flushVars, running, offered, accepted, stopHead, stopCount>>

(* A step of the engine that reaches no audit push.                        *)
MainQuietStep ==
  /\ Alive /\ mainPc = "step"
  /\ mainPc' = "test"
  /\ UNCHANGED <<ringVars, flushVars, running, offered, accepted, stopHead, stopCount>>

(* A step that does: its result is ignored.                                *)
MainPushBegin ==
  /\ Alive /\ mainPc = "step" /\ offered < MaxRecords
  /\ offered' = offered + 1
  /\ \/ PushRefused /\ mainPc' = "test"
     \/ PushAdmit(offered + 1) /\ mainPc' = "push"
  /\ UNCHANGED <<flushVars, running, accepted, stopHead, stopCount>>

MainPushWrite ==
  /\ Alive /\ mainPc = "push"
  /\ PushWrite
  /\ UNCHANGED <<mainVars, flushVars>>

MainPushPublish ==
  /\ Alive /\ mainPc = "push"
  /\ PushPublish
  /\ mainPc' = "test"
  /\ accepted' = Append(accepted, item)
  /\ UNCHANGED <<flushVars, running, offered, stopHead, stopCount>>

(* flusher_thread.join(), then return from main.                           *)
MainJoin ==
  /\ mainPc = "join" /\ flushPc \in {"done", "failed"}
  /\ mainPc' = "exit"
  /\ UNCHANGED <<ringVars, flushVars, running, offered, accepted, stopHead, stopCount>>

(* signal_handler, on the main thread, between any two of its steps.       *)
Sigint ==
  /\ Alive /\ mainPc # "exit" /\ running
  /\ running' = FALSE
  /\ stopHead' = head /\ stopCount' = Len(accepted)
  /\ UNCHANGED <<ringVars, flushVars, mainPc, offered, accepted>>

--------------------------------------------------------------------------------
(* The flusher thread.                                                     *)

(* open or mmap fails: run returns and nobody drains the ring.             *)
FlushOpenFails ==
  /\ flushPc = "open"
  /\ flushPc' = "failed"
  /\ UNCHANGED <<ringVars, mainVars, runVis, sized, log, chunk, synced, discarded>>

(* The result of ftruncate is ignored: the file opened with O_TRUNC keeps  *)
(* the size 0 when it fails, and is mapped all the same.                   *)
FlushOpen ==
  /\ flushPc = "open"
  /\ sized' \in BOOLEAN
  /\ flushPc' = "test"
  /\ UNCHANGED <<ringVars, mainVars, runVis, log, chunk, synced, discarded>>

MutStopAtFlag == runVis          \* while (m_running), the ring forgotten
FlushGoesOn == runVis \/ Dist(tail, headVis) > 0

FlushTest ==
  /\ flushPc = "test"
  /\ flushPc' = IF FlushGoesOn THEN "pop" ELSE "final"
  /\ UNCHANGED <<ringVars, mainVars, runVis, sized, log, chunk, synced, discarded>>

FlushPopBegin ==
  /\ flushPc = "pop"
  /\ PopAdmit
  /\ UNCHANGED <<mainVars, flushVars>>

FlushPopRead ==
  /\ flushPc = "pop"
  /\ PopRead
  /\ UNCHANGED <<mainVars, flushVars>>

FlushPopEnd ==
  /\ flushPc = "pop"
  /\ PopRelease
  /\ flushPc' = "copy"
  /\ UNCHANGED <<mainVars, runVis, sized, log, chunk, synced, discarded>>

(* pop finds the ring empty: leave the inner loop (has_data only decides *)
(* whether to sleep a millisecond).                                        *)
FlushPassEnds ==
  /\ flushPc = "pop" /\ popPc = "idle"
  /\ ConsumerSeesEmpty
  /\ flushPc' = "test"
  /\ UNCHANGED <<ringVars, mainVars, runVis, sized, log, chunk, synced, discarded>>

MutFitsNot == Len(log) + 1 >= FileRecords  \* off by one at the end of the file
FitsNot == Len(log) + 1 > FileRecords

(* The record just popped does not fit in the file: break.                 *)
FlushFileFull ==
  /\ flushPc = "copy" /\ FitsNot
  /\ discarded' = discarded + 1
  /\ flushPc' = "test"
  /\ UNCHANGED <<ringVars, mainVars, runVis, sized, log, chunk, synced>>

(* The memcpy into the mapping gets a SIGBUS: always when the mapping lies *)
(* beyond the end of the file; in a file of the right size, which is       *)
(* sparse, when the first record of a page (CHUNK_SIZE bytes) finds no     *)
(* block on the device.                                                    *)
FlushFault ==
  /\ flushPc = "copy" /\ ~FitsNot
  /\ ~sized \/ chunk = 0
  /\ flushPc' = "killed"
  /\ UNCHANGED <<ringVars, mainVars, runVis, sized, log, chunk, synced, discarded>>

MutChunkKept ==                  \* current_chunk_bytes not reset
  /\ flushPc = "copy" /\ ~FitsNot /\ sized
  /\ log' = Append(log, out)
  /\ chunk' = chunk + 1
  /\ synced' = IF chunk + 1 >= ChunkRecords THEN Len(log) + 1 ELSE synced
  /\ flushPc' = "pop"
  /\ UNCHANGED <<ringVars, mainVars, runVis, sized, discarded>>

FlushCopy ==
  /\ flushPc = "copy" /\ ~FitsNot /\ sized
  /\ log' = Append(log, out)
  /\ IF chunk + 1 >= ChunkRecords
       THEN chunk' = 0 /\ synced' = Len(log) + 1
       ELSE chunk' = chunk + 1 /\ UNCHANGED synced
  /\ flushPc' = "pop"
  /\ UNCHANGED <<ringVars, mainVars, runVis, sized, discarded>>

(* The final msync covers the whole file; munmap, close.                   *)
FlushFinal ==
  /\ flushPc = "final"
  /\ synced' = Len(log)
  /\ flushPc' = "done"
  /\ UNCHANGED <<ringVars, mainVars, runVis, sized, log, chunk, discarded>>

--------------------------------------------------------------------------------
(* The memory system delivers main's stores to the flusher's core in the   *)
(* order of the release stores: the m_head of before the handler, then the *)
(* flag, then a later m_head.                                              *)

FlagIsNext == ~running /\ runVis /\ headVis = stopHead

HeadArrives ==
  /\ Alive /\ ~FlagIsNext
  /\ HeadReachesConsumer
  /\ UNCHANGED <<mainVars, flushVars>>

MutFlagOvertakes ==              \* the flag loaded or stored relaxed
  /\ Alive /\ ~running /\ runVis
  /\ runVis' = FALSE
  /\ UNCHANGED <<ringVars, mainVars, flushPc, sized, log, chunk, synced, discarded>>

FlagArrives ==
  /\ Alive /\ FlagIsNext
  /\ runVis' = FALSE
  /\ UNCHANGED <<ringVars, mainVars, flushPc, sized, log, chunk, synced, discarded>>

TailArrives ==
  /\ Alive
  /\ TailReachesProducer
  /\ UNCHANGED <<mainVars, flushVars>>

--------------------------------------------------------------------------------
Main == MainTest \/ MainQuietStep \/ MainPushBegin \/ MainPushWrite
          \/ MainPushPublish \/ MainJoin
Flusher == FlushOpenFails \/ FlushOpen \/ FlushTest \/ FlushPopBegin \/ FlushPopRead
             \/ FlushPopEnd \/ FlushPassEnds \/ FlushFileFull \/ FlushCopy \/ FlushFault
             \/ FlushFinal
Shutdown == (mainPc = "exit" \/ ~Alive) /\ UNCHANGED shadowVars

ShadowNext == Main \/ Flusher \/ Sigint \/ HeadArrives \/ FlagArrives \/ TailArrives
                \/ Shutdown

ShadowSafety == ShadowInit /\ [][ShadowNext]_shadowVars

(* Both threads are scheduled and stores become visible.  SIGINT need not  *)
(* come.                                                                   *)
ShadowFairness ==
  /\ WF_shadowVars(Main) /\ WF_shadowVars(Flusher)
  /\ WF_shadowVars(HeadArrives) /\ WF_shadowVars(FlagArrives) /\ WF_shadowVars(TailArrives)

ShadowSpec == ShadowSafety /\ ShadowFairness

--------------------------------------------------------------------------------
(* The values of the variables.                                            *)
ShadowTypeOK ==
  /\ RingTypeOK
  /\ mainPc \in {"test", "step", "push", "join", "exit"}
  /\ running \in BOOLEAN /\ runVis \in BOOLEAN
  /\ flushPc \in {"open", "failed", "test", "pop", "copy", "killed", "final", "done"}
  /\ sized \in BOOLEAN
  /\ log \in Seq(Values) /\ accepted \in Seq(Values)
  /\ chunk \in 0 .. ChunkRecords - 1 /\ synced \in 0 .. FileRecords
  /\ offered \in 0 .. MaxRecords /\ discarded \in 0 .. MaxRecords
  /\ stopHead \in Index /\ stopCount \in 0 .. MaxRecords

(* Records the flusher has disposed of.                                    *)
Settled == Len(log) + discarded

InHand == IF flushPc \in {"copy", "killed"} THEN 1 ELSE 0
InPush == IF mainPc = "push" THEN 1 ELSE 0

(* The file is the accepted records in order, without a gap or a repeat;   *)
(* every record main offered is refused and counted, in its push, in the   *)
(* ring, in the flusher's hand, in the file, or discarded, and none is     *)
(* discarded before the file is full.                                      *)
RecordsAccountedFor ==
  /\ log = SubSeq(accepted, 1, Len(log))
  /\ Len(accepted) = Settled + InHand + Dist(tail, head)
  /\ offered = Len(accepted) + dropCount + InPush
  /\ discarded > 0 => Len(log) = FileRecords

ShadowInv == ShadowTypeOK /\ RecordsAccountedFor

(* Every msync of a full chunk starts on a chunk boundary of the file      *)
(* (msync fails on an address that is not page-aligned), the chunks leave  *)
(* no gap, and when run is over the whole file was handed to msync.        *)
FlushAligned ==
  /\ flushPc # "done" => synced = Len(log) - chunk /\ synced % ChunkRecords = 0
  /\ flushPc = "done" => synced = Len(log)

(* The release of g_running and the acquire in the loop's condition give   *)
(* the flusher every record accepted before the handler ran: none of them  *)
(* is left in the ring when the flusher is done.                           *)
StoppedIsSettled == flushPc = "done" => Settled >= stopCount

(* A SIGINT inside engine.step() lets main push after the flusher found    *)
(* the ring empty.  At most that one record stays behind.                  *)
OneStraggler == mainPc = "exit" /\ flushPc = "done" => Len(accepted) - Settled <= 1

(* A record accepted while the program runs gets to the file (or finds it  *)
(* full), even when SIGINT arrives meanwhile, unless there is no file or   *)
(* the mapping has no storage behind it, which kills the whole process     *)
(* (FlushFault).                                                           *)
AuditReachesFile ==
  \A n \in 1 .. MaxRecords :
    (running /\ Len(accepted) >= n) ~> (Settled >= n \/ flushPc \in {"failed", "killed"})

(* SIGINT ends the program: main leaves its loop, the flusher drains the   *)
(* ring and returns, and the join succeeds, or the flusher's copy kills    *)
(* the process meanwhile.                                                  *)
StopEnds == ~running ~> (mainPc = "exit" \/ ~Alive)
================================================================================
