------------------------------- MODULE Lifecycle -------------------------------
(***************************************************************************)
(* main of src/main.cpp from its first line to the end of the process: the *)
(* objects it builds in order, the ways each step of the setup can fail,   *)
(* the exceptions nobody catches, the threads it starts, SIGINT at any     *)
(* moment, and the destruction of its locals in the reverse order.         *)
(*                                                                         *)
(* The threads are the flusher (AuditFlusher::run; ShadowLog shows that it *)
(* ends once g_running is FALSE) and, with --stimulate, the workers of     *)
(* MarketStimulator (include/buan/util/market_stimulator.hpp).             *)
(***************************************************************************)
EXTENDS Naturals, Sequences

CONSTANTS
  Workers,    \* the threads MarketStimulator::start creates
  NumaModes,  \* whether numa_available() finds NUMA
  StimModes   \* whether --stimulate is among the arguments

ASSUME LifeAssumption ==
  NumaModes \subseteq BOOLEAN /\ NumaModes # {} /\ StimModes \subseteq BOOLEAN /\ StimModes # {}

VARIABLES
  numa,      \* numa_available() >= 0
  stimMode,  \* stim_mode
  pc,        \* where main is
  scope,     \* main's live locals, in the order of their construction
  memory,    \* m_ptr of hp_manager: what it points to
  umem,      \* what map_memory_region made of the region
  buffers,   \* aligned_alloc gave both rings their memory
  arena,     \* m_states of the engine's MarketStateArena
  baked,     \* pre_bake has written the template
  running,   \* g_running
  pushed,    \* the engine has pushed a record onto audit_ring
  flusher,   \* the flusher's thread
  joinable,  \* flusher_thread.joinable()
  workers,   \* the stimulator's threads
  code,      \* main's return value
  ended      \* how the process ended

setupVars  == <<numa, stimMode, memory, umem, buffers, arena, baked>>
threadVars == <<flusher, joinable, workers>>
lifeVars   == <<setupVars, threadVars, pushed, pc, scope, running, code, ended>>

LifeInit ==
  /\ numa \in NumaModes /\ stimMode \in StimModes
  /\ pc = "args" /\ scope = << >>
  /\ memory = "none" /\ umem = "none" /\ arena = "none" /\ baked = FALSE
  /\ buffers = FALSE /\ pushed = FALSE
  /\ running = TRUE
  /\ flusher = "none" /\ joinable = FALSE /\ workers = [w \in Workers |-> "none"]
  /\ code = 0 /\ ended = "no"

--------------------------------------------------------------------------------
At(label) == ended = "no" /\ pc = label
Goto(label) == pc' = label
Builds(objects) == scope' = scope \o objects
Alive(object) == \E k \in 1 .. Len(scope) : scope[k] = object

(* return 1                                                                *)
Fails == code' = 1 /\ Goto("unwind")

(* stoul and stoi of the arguments, which may throw (Uncaught).            *)
ParseArguments ==
  /\ At("args") /\ Goto("pin")
  /\ UNCHANGED <<setupVars, pushed, threadVars, scope, running, code, ended>>

PinThread ==                     \* set_rt_priority may fail: a warning
  /\ At("pin")
  /\ \/ Fails
     \/ Goto("allocate") /\ UNCHANGED code
  /\ UNCHANGED <<setupVars, pushed, threadVars, scope, running, ended>>

(* hp_manager.allocate() without a name.  A null pointer is a value of the *)
(* expected as good as any: main does not see that nothing was allocated.  *)
Allocate ==
  /\ At("allocate")
  /\ Builds(<<"hp_manager">>)
  /\ memory' \in {"null", IF numa THEN "numa" ELSE "heap"}
  /\ Goto("map")
  /\ UNCHANGED <<numa, stimMode, umem, buffers, arena, baked, pushed, threadVars,
                 running, code, ended>>

MutMapUnchecked ==               \* map_res not looked at
  /\ At("map")
  /\ Builds(<<"portal">>)
  /\ Goto("open") /\ UNCHANGED <<umem, code>>
  /\ UNCHANGED <<numa, stimMode, memory, buffers, arena, baked, pushed, threadVars,
                 running, ended>>

(* xsk_umem__create refuses a null area.                                   *)
MapMemoryRegion ==
  /\ At("map")
  /\ Builds(<<"portal">>)
  /\ \/ Fails /\ UNCHANGED umem
     \/ memory # "null" /\ umem' = "mapped" /\ Goto("open") /\ UNCHANGED code
  /\ UNCHANGED <<numa, stimMode, memory, buffers, arena, baked, pushed, threadVars,
                 running, ended>>

OpenPortal ==
  /\ At("open")
  /\ \/ Fails
     \/ Goto("rings") /\ UNCHANGED code
  /\ UNCHANGED <<setupVars, pushed, threadVars, scope, running, ended>>

MutThreadFirst ==                \* the thread's handle declared before the flusher
  /\ At("rings")
  /\ Builds(<<"ring", "audit_ring", "flusher_thread", "flusher">>)
  /\ flusher' = "opening" /\ joinable' = TRUE
  /\ buffers' \in BOOLEAN
  /\ Goto("engine")
  /\ UNCHANGED <<numa, stimMode, memory, umem, arena, baked, pushed, workers, running, code,
                 ended>>

(* The two rings, whose memory may be null, the flusher and its thread.    *)
StartFlusher ==
  /\ At("rings")
  /\ Builds(<<"ring", "audit_ring", "flusher", "flusher_thread">>)
  /\ flusher' = "opening" /\ joinable' = TRUE
  /\ buffers' \in BOOLEAN
  /\ Goto("engine")
  /\ UNCHANGED <<numa, stimMode, memory, umem, arena, baked, pushed, workers, running, code,
                 ended>>

(* allocate with a name: shm_open, ftruncate or mmap may fail.             *)
SharedMemory == {"error", "mapped"}

(* risk_gate and engine, and in it the market arena: when its shared       *)
(* memory cannot be had, m_states stays null.                              *)
BuildEngine ==
  /\ At("engine")
  /\ Builds(<<"risk_gate", "engine">>)
  /\ \E got \in SharedMemory : arena' = IF got = "mapped" THEN "zeroed" ELSE "null"
  /\ Goto("template")
  /\ UNCHANGED <<numa, stimMode, memory, umem, buffers, baked, pushed, threadVars,
                 running, code, ended>>

PreBake ==
  /\ At("template")
  /\ \/ memory = "null" /\ Fails /\ UNCHANGED baked
     \/ memory # "null" /\ baked' = TRUE /\ Goto("stim") /\ UNCHANGED code
  /\ UNCHANGED <<numa, stimMode, memory, umem, buffers, arena, pushed, threadVars,
                 scope, running, ended>>

(* stim is a unique_ptr: empty unless --stimulate was given.               *)
StartStimulator ==
  /\ At("stim")
  /\ Builds(<<"stim">>)
  /\ workers' = IF stimMode THEN [w \in Workers |-> "opening"] ELSE workers
  /\ Goto("test")
  /\ UNCHANGED <<setupVars, pushed, flusher, joinable, running, code, ended>>

--------------------------------------------------------------------------------
MutIgnoreFlag ==                 \* while (true)
  /\ At("test") /\ Goto("step")
  /\ UNCHANGED <<setupVars, pushed, threadVars, scope, running, code, ended>>

LoopTest ==
  /\ At("test")
  /\ Goto(IF running THEN "step" ELSE "join")
  /\ UNCHANGED <<setupVars, pushed, threadVars, scope, running, code, ended>>

(* A step without a tick, or with one that a check stops; a tick is        *)
(* written into the arena whether there is one or not, and one that passes *)
(* the checks into the rings, whether they have memory or not.             *)
EngineStep ==
  /\ At("step")
  /\ \/ Goto("test") /\ UNCHANGED <<pushed, ended>>
     \/ arena = "null" /\ ended' = "crashed" /\ UNCHANGED <<pushed, pc>>
     \/ arena = "zeroed" /\ ~buffers /\ ended' = "crashed" /\ UNCHANGED <<pushed, pc>>
     \/ arena = "zeroed" /\ buffers /\ pushed' = TRUE /\ Goto("test") /\ UNCHANGED ended
  /\ UNCHANGED <<setupVars, threadVars, scope, running, code>>

(* An exception that nobody catches, or that meets a noexcept: stoul and   *)
(* stoi ("args"), std::thread ("rings" and, in MarketStimulator::start,    *)
(* "stim"), and memory for strings and objects at every place named here,  *)
(* for a new symbol inside step() too.  Nothing is unwound.                *)
Throwing == {"args", "pin", "map", "rings", "engine", "stim", "step"}

Uncaught ==
  /\ ended = "no" /\ pc \in Throwing
  /\ ended' = "terminated"
  /\ UNCHANGED <<setupVars, pushed, threadVars, pc, scope, running, code>>

MutNoJoin ==                     \* flusher_thread.join() left out
  /\ At("join")
  /\ Goto("unwind")
  /\ UNCHANGED <<setupVars, pushed, threadVars, scope, running, code, ended>>

MutDetach ==                     \* flusher_thread.detach()
  /\ At("join")
  /\ joinable' = FALSE
  /\ Goto("unwind")
  /\ UNCHANGED <<setupVars, pushed, flusher, workers, scope, running, code, ended>>

JoinFlusher ==
  /\ At("join") /\ flusher = "done"
  /\ joinable' = FALSE
  /\ Goto("unwind")
  /\ UNCHANGED <<setupVars, pushed, flusher, workers, scope, running, code, ended>>

--------------------------------------------------------------------------------
(* The end of main: its locals are destroyed, the last one first.  A       *)
(* joinable std::thread in its destructor calls std::terminate.            *)

Last == scope[Len(scope)]
Unwinds(object) == At("unwind") /\ scope # << >> /\ Last = object
Pops == scope' = SubSeq(scope, 1, Len(scope) - 1)

Terminates(object) == \/ object = "stim" /\ \E w \in Workers : workers[w] # "none"
                      \/ object = "flusher_thread" /\ joinable

DestroyPlain ==
  /\ \E object \in {"portal", "ring", "audit_ring", "flusher", "risk_gate", "engine",
                    "flusher_thread", "stim"} :
       Unwinds(object) /\ ~Terminates(object)
  /\ Pops
  /\ UNCHANGED <<setupVars, pushed, threadVars, pc, running, code, ended>>

DestroyRunningThread ==
  /\ \E object \in {"flusher_thread", "stim"} : Unwinds(object) /\ Terminates(object)
  /\ ended' = "terminated"
  /\ UNCHANGED <<setupVars, pushed, threadVars, pc, scope, running, code>>

(* ~BuanHugePageManager: m_is_numa_managed is never set, so memory from    *)
(* numa_alloc_onnode goes to std::free, which may do anything.             *)
FreeRegion ==
  /\ Unwinds("hp_manager")
  /\ \/ Pops /\ UNCHANGED ended
     \/ memory = "numa" /\ ended' = "crashed" /\ UNCHANGED scope
  /\ UNCHANGED <<setupVars, pushed, threadVars, pc, running, code>>

MainReturns ==
  /\ At("unwind") /\ scope = << >>
  /\ ended' = "returned"
  /\ UNCHANGED <<setupVars, pushed, threadVars, pc, scope, running, code>>

--------------------------------------------------------------------------------
(* signal_handler, on the main thread between any two of its steps.        *)
Sigint ==
  /\ ended = "no" /\ running
  /\ running' = FALSE
  /\ UNCHANGED <<setupVars, pushed, threadVars, pc, scope, code, ended>>

FlusherOpens ==                  \* or cannot open its file, and returns
  /\ ended = "no" /\ flusher = "opening"
  /\ flusher' \in {"draining", "done"}
  /\ UNCHANGED <<setupVars, pushed, joinable, workers, pc, scope, running, code, ended>>

(* Its file may have no size (the result of ftruncate is ignored) or no    *)
(* block to give: the first memcpy into the mapping gets a SIGBUS.         *)
FlusherFaults ==
  /\ ended = "no" /\ flusher = "draining" /\ pushed
  /\ ended' = "crashed"
  /\ UNCHANGED <<setupVars, pushed, threadVars, pc, scope, running, code>>

FlusherEnds ==
  /\ ended = "no" /\ flusher = "draining" /\ ~running
  /\ flusher' = "done"
  /\ UNCHANGED <<setupVars, pushed, joinable, workers, pc, scope, running, code, ended>>

(* m_running of the stimulator is never cleared: stop() has no caller.     *)
WorkerOpens(w) ==
  /\ ended = "no" /\ workers[w] = "opening"
  /\ workers' = [workers EXCEPT ![w] = "sending"]
  /\ UNCHANGED <<setupVars, pushed, flusher, joinable, pc, scope, running, code, ended>>

--------------------------------------------------------------------------------
Setup == ParseArguments \/ PinThread \/ Allocate \/ MapMemoryRegion \/ OpenPortal
           \/ StartFlusher \/ BuildEngine \/ PreBake \/ StartStimulator
Loop == LoopTest \/ EngineStep \/ JoinFlusher
Teardown == DestroyPlain \/ DestroyRunningThread \/ FreeRegion \/ MainReturns
Main == Setup \/ Loop \/ Uncaught \/ Teardown
Flusher == FlusherOpens \/ FlusherFaults \/ FlusherEnds
Ended == ended # "no" /\ UNCHANGED lifeVars

LifeNext == Main \/ Sigint \/ Flusher \/ (\E w \in Workers : WorkerOpens(w)) \/ Ended

LifeSafety == LifeInit /\ [][LifeNext]_lifeVars

(* The threads are scheduled.  SIGINT need not come.                       *)
LifeSpec == LifeSafety /\ WF_lifeVars(Main) /\ WF_lifeVars(Flusher)

--------------------------------------------------------------------------------
Objects == <<"hp_manager", "portal", "ring", "audit_ring", "flusher",
             "flusher_thread", "risk_gate", "engine", "stim">>

(* The values of the variables.                                            *)
LifeTypeOK ==
  /\ numa \in BOOLEAN /\ stimMode \in BOOLEAN /\ baked \in BOOLEAN
  /\ buffers \in BOOLEAN /\ pushed \in BOOLEAN
  /\ pc \in {"args", "pin", "allocate", "map", "open", "rings", "engine", "template", "stim",
             "test", "step", "join", "unwind"}
  /\ memory \in {"none", "null", "numa", "heap"} /\ umem \in {"none", "mapped"}
  /\ arena \in {"none", "null", "zeroed"} /\ running \in BOOLEAN
  /\ flusher \in {"none", "opening", "draining", "done"} /\ joinable \in BOOLEAN
  /\ workers \in [Workers -> {"none", "opening", "sending"}]
  /\ code \in {0, 1} /\ ended \in {"no", "returned", "crashed", "terminated"}

(* The live locals are always the first ones of main, whichever return it  *)
(* took; and a thread that main could still join has its handle, declared  *)
(* after all that the thread works on.                                     *)
ScopeInOrder ==
  /\ scope = SubSeq(Objects, 1, Len(scope))
  /\ joinable => Alive("flusher_thread")

LifeInv == LifeTypeOK /\ ScopeInOrder

(* The flusher's thread works on audit_ring and on the flusher object, and *)
(* neither is destroyed under it, at any return of main and whenever       *)
(* SIGINT comes.                                                           *)
FlusherOnLiveObjects ==
  ended = "no" /\ flusher \in {"opening", "draining"} => Alive("audit_ring") /\ Alive("flusher")

(* The engine polls only with the UMEM mapped over real memory and the     *)
(* template in place: although the result of allocate() is never null in   *)
(* main's eyes, no path of failed allocations gets to the loop.            *)
PollsOnlyWhenUp == pc = "step" => memory \in {"numa", "heap"} /\ umem = "mapped" /\ baked

(* Where the process can die, and of what.  A memory fault: main in step   *)
(* without an arena or without memory for the rings, the flusher with a    *)
(* record in hand while main is in its loop or in join, and the very last  *)
(* destructor, which gives NUMA memory to the wrong deallocator.           *)
(* std::terminate: an exception at one of the places that throw, and the   *)
(* destruction of a stimulator nobody stopped, at the end of a shutdown    *)
(* that main.cpp calls graceful (lines 16 and 142).  A failed setup        *)
(* (code 1) never destroys a thread that runs.                             *)
KnownDeaths ==
  /\ ended = "crashed" =>
       \/ pc = "step" /\ (arena = "null" \/ ~buffers)
       \/ pc \in {"test", "step", "join"} /\ flusher = "draining" /\ pushed
       \/ pc = "unwind" /\ memory = "numa" /\ scope = <<"hp_manager">>
  /\ ended = "terminated" =>
       \/ pc \in Throwing
       \/ pc = "unwind" /\ Last = "stim" /\ stimMode /\ code = 0

(* SIGINT ends the process, from any point of the setup and of the loop.   *)
SigintEnds == ~running ~> ended # "no"
================================================================================
