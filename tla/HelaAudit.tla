------------------------------- MODULE HelaAudit -------------------------------
(***************************************************************************)
(* The benchmark src/benchmarks/hela_audit_suite.cpp.  Its main thread     *)
(* steps the engine and, for every captured signal, pops the descriptor    *)
(* from the signal ring and an audit record from the audit ring, while     *)
(* AuditFlusher::run pops the same audit ring on a second thread.          *)
(*                                                                         *)
(* The ring (include/buan/core/ring_buffer.hpp) is here in the code's      *)
(* terms, with a pop for each of its two consumers: load of m_tail and     *)
(* m_head, copy, store of m_tail.  Memory is sequentially consistent and   *)
(* a push is one step: even so the ring breaks.                            *)
(*                                                                         *)
(* The signal ring is filled and emptied by the main thread alone, one     *)
(* descriptor at a time: its pop after a captured signal succeeds.         *)
(***************************************************************************)
EXTENDS Naturals, Sequences, FiniteSets

CONSTANTS
  Size,       \* SIZE of the audit ring
  Limit,      \* 10000: signals to capture, and entries of the logger
  MaxRecords  \* bound: frames that become signals

VARIABLES
  ready,     \* hardware_ready
  mainPc,    \* where main is
  captured,  \* captured
  logger,    \* m_entries of the BuanAuditLogger: [id, record]
  slots,     \* m_buffer of the audit ring
  head,      \* m_head
  tail,      \* m_tail
  popPc,     \* where each consumer is in pop
  seenTail,  \* t of each consumer's pop
  out,       \* out_desc of each consumer's pop
  benchRuns, \* bench_running
  flusherPc, \* where the flusher is in run
  file,      \* the records in bench_audit.bin
  offered    \* records offered so far; the n-th is the number n

ringVars == <<slots, head, tail, popPc, seenTail, out>>
mainVars == <<ready, mainPc, captured, logger, benchRuns, offered>>
flushVars == <<flusherPc, file>>
helaVars == <<ringVars, mainVars, flushVars>>

Consumers == {"main", "flusher"}
Next1(i) == (i + 1) % Size

HelaInit ==
  /\ ready \in BOOLEAN
  /\ mainPc = "test" /\ captured = 0 /\ logger = << >> /\ benchRuns = TRUE /\ offered = 0
  /\ slots = [i \in 0 .. Size - 1 |-> 0] /\ head = 0 /\ tail = 0
  /\ popPc = [c \in Consumers |-> "idle"] /\ seenTail = [c \in Consumers |-> 0]
  /\ out = [c \in Consumers |-> 0]
  /\ flusherPc = "test" /\ file = << >>

--------------------------------------------------------------------------------
(* pop, by either consumer.                                                *)

PopEmpty(c) == popPc[c] = "idle" /\ head = tail

PopLoad(c) ==
  /\ popPc[c] = "idle" /\ head # tail
  /\ seenTail' = [seenTail EXCEPT ![c] = tail]
  /\ popPc' = [popPc EXCEPT ![c] = "copy"]
  /\ UNCHANGED <<slots, head, tail, out>>

PopCopy(c) ==
  /\ popPc[c] = "copy"
  /\ out' = [out EXCEPT ![c] = slots[seenTail[c]]]
  /\ popPc' = [popPc EXCEPT ![c] = "store"]
  /\ UNCHANGED <<slots, head, tail, seenTail>>

PopStore(c) ==
  /\ popPc[c] = "store"
  /\ tail' = Next1(seenTail[c])
  /\ popPc' = [popPc EXCEPT ![c] = "idle"]
  /\ UNCHANGED <<slots, head, seenTail, out>>

--------------------------------------------------------------------------------
(* BuanAuditLogger::record, with captured++ as the id.                     *)
Log(record) ==
  /\ logger' = IF Len(logger) < Limit
               THEN Append(logger, [id |-> captured, record |-> record]) ELSE logger
  /\ captured' = captured + 1

Stepping == mainPc = "test" /\ captured < Limit

(* The step captures a signal: its record is pushed, or dropped when the   *)
(* ring is full, and the descriptor goes through the signal ring.          *)
StepCaptures ==
  /\ ready /\ Stepping /\ offered < MaxRecords
  /\ offered' = offered + 1
  /\ IF Next1(head) = tail THEN UNCHANGED <<slots, head>>
     ELSE slots' = [slots EXCEPT ![head] = offered + 1] /\ head' = Next1(head)
  /\ mainPc' = "pop"
  /\ UNCHANGED <<tail, popPc, seenTail, out, ready, captured, logger, benchRuns, flushVars>>

(* ring.pop(desc) && audit_ring.pop(audit): the flusher was faster.        *)
MainFindsEmpty ==
  /\ mainPc = "pop" /\ PopEmpty("main")
  /\ mainPc' = "test"
  /\ UNCHANGED <<ringVars, ready, captured, logger, benchRuns, offered, flushVars>>

MainPops ==
  /\ mainPc = "pop"
  /\ PopLoad("main") \/ PopCopy("main")
  /\ UNCHANGED <<mainVars, flushVars>>

MainRecords ==
  /\ mainPc = "pop" /\ PopStore("main")
  /\ Log(out["main"])
  /\ mainPc' = "test"
  /\ UNCHANGED <<ready, benchRuns, offered, flushVars>>

(* poll_frame of the pcap portal: the next frame, or the file is over or   *)
(* damaged.                                                                *)
PcapPollFrame == {"EMPTY"} \cup (IF offered < MaxRecords THEN {"frame"} ELSE {})

(* Without hardware the frames of the file are recorded with a latency of  *)
(* their own, and no audit record.                                         *)
Replay ==
  /\ ~ready /\ Stepping
  /\ \/ "frame" \in PcapPollFrame /\ offered' = offered + 1 /\ Log(0) /\ UNCHANGED mainPc
     \/ "EMPTY" \in PcapPollFrame /\ mainPc' = "report" /\ UNCHANGED <<offered, captured, logger>>
  /\ UNCHANGED <<ringVars, ready, benchRuns, flushVars>>

LoopEnds ==
  /\ mainPc = "test" /\ captured >= Limit
  /\ mainPc' = "report"
  /\ UNCHANGED <<ringVars, ready, captured, logger, benchRuns, offered, flushVars>>

(* The report is written; bench_running.store(false).                      *)
Report ==
  /\ mainPc = "report"
  /\ benchRuns' = FALSE /\ mainPc' = "join"
  /\ UNCHANGED <<ringVars, ready, captured, logger, offered, flushVars>>

Join ==
  /\ mainPc = "join" /\ flusherPc = "done"
  /\ mainPc' = "exit"
  /\ UNCHANGED <<ringVars, ready, captured, logger, benchRuns, offered, flushVars>>

--------------------------------------------------------------------------------
(* AuditFlusher::run, when its file could be opened and has room.          *)

FlusherTest ==
  /\ flusherPc = "test"
  /\ flusherPc' = IF benchRuns \/ head # tail THEN "pop" ELSE "done"
  /\ UNCHANGED <<ringVars, mainVars, file>>

FlusherFindsEmpty ==
  /\ flusherPc = "pop" /\ PopEmpty("flusher")
  /\ flusherPc' = "test"
  /\ UNCHANGED <<ringVars, mainVars, file>>

FlusherPops ==
  /\ flusherPc = "pop"
  /\ PopLoad("flusher") \/ PopCopy("flusher")
  /\ UNCHANGED <<mainVars, flushVars>>

FlusherCopies ==
  /\ flusherPc = "pop" /\ PopStore("flusher")
  /\ file' = Append(file, out["flusher"])
  /\ UNCHANGED <<mainVars, flusherPc>>

--------------------------------------------------------------------------------
HelaMain == StepCaptures \/ MainFindsEmpty \/ MainPops \/ MainRecords \/ Replay
              \/ LoopEnds \/ Report \/ Join
HelaFlusher == FlusherTest \/ FlusherFindsEmpty \/ FlusherPops \/ FlusherCopies

HelaSpec == HelaInit /\ [][HelaMain \/ HelaFlusher]_helaVars

--------------------------------------------------------------------------------
(* Where a record has come out of the ring.                                *)
Uses(r) == Cardinality({i \in 1 .. Len(file) : file[i] = r})
             + Cardinality({i \in 1 .. Len(logger) : logger[i].record = r})

(* "Lock-free SPSC Queue" and "Consumer Owned (Tail)" (ring_buffer.hpp):   *)
(* an audit record comes out of the ring once, to one consumer.            *)
EachRecordOnce == \A r \in 1 .. MaxRecords : Uses(r) <= 1
================================================================================
