---------------------------- MODULE Lifecycle_proofs ----------------------------
(***************************************************************************)
(* Lifecycle for any number of workers, with and without NUMA and          *)
(* --stimulate: whichever way main takes out of its setup and its loop,    *)
(* what its threads use is alive, and the process dies in known ways only. *)
(***************************************************************************)
EXTENDS Lifecycle, SequenceTheorems, TLAPS

(* Where main is in its setup and in its loop.                             *)
Mapped   == {"open", "rings", "engine", "template", "stim", "test", "step", "join"}
Threaded == {"engine", "template", "stim", "test", "step", "join"}
Looping  == {"test", "step", "join"}

Local == {"hp_manager", "portal", "ring", "audit_ring", "flusher",
          "flusher_thread", "risk_gate", "engine", "stim"}

(* The locals are those of main in their order, as many as main has built. *)
Prefix ==
  /\ scope \in Seq(Local) /\ Len(scope) <= Len(Objects)
  /\ \A k \in 1 .. Len(scope) : scope[k] = Objects[k]
Depth ==
  /\ pc \in {"args", "pin", "allocate"} => Len(scope) = 0
  /\ pc = "map" => Len(scope) = 1
  /\ pc \in {"open", "rings"} => Len(scope) = 2
  /\ pc = "engine" => Len(scope) = 6
  /\ pc \in {"template", "stim"} => Len(scope) = 8
  /\ pc \in Looping => Len(scope) = 9

(* What holds at each place of main: the memory is there once it has been  *)
(* mapped, the thread is joinable from its start until join, and it works  *)
(* only while it is; records are pushed in the loop.                       *)
Stages ==
  /\ pc = "map" => memory # "none"
  /\ pc \in Mapped => memory \in {"numa", "heap"} /\ umem = "mapped"
  /\ pc \in Looping \cup {"stim"} => baked
  /\ joinable => pc \in Threaded
  /\ flusher \in {"opening", "draining"} => joinable
  /\ pushed => pc \in Looping \cup {"unwind"}

(* The stimulator's threads come last: a failed setup has none.            *)
Stimulated ==
  /\ code = 1 => pc = "unwind"
  /\ (\E w \in Workers : workers[w] # "none") =>
       stimMode /\ code = 0 /\ pc \in Looping \cup {"unwind"}

LifeInd == LifeTypeOK /\ Prefix /\ Depth /\ Stages /\ Stimulated /\ KnownDeaths

--------------------------------------------------------------------------------
(* The locals.                                                             *)

LEMMA ObjectFacts ==
  /\ Objects \in Seq(Local) /\ Len(Objects) = 9
  /\ Objects[1] = "hp_manager" /\ Objects[2] = "portal" /\ Objects[3] = "ring"
  /\ Objects[4] = "audit_ring" /\ Objects[5] = "flusher" /\ Objects[6] = "flusher_thread"
  /\ Objects[7] = "risk_gate" /\ Objects[8] = "engine" /\ Objects[9] = "stim"
<1>1. Objects \in Seq(Local)
  BY DEF Objects, Local
<1>2. Len(Objects) = 9
  BY DEF Objects
<1>3. /\ Objects[1] = "hp_manager" /\ Objects[2] = "portal" /\ Objects[3] = "ring"
      /\ Objects[4] = "audit_ring" /\ Objects[5] = "flusher" /\ Objects[6] = "flusher_thread"
      /\ Objects[7] = "risk_gate" /\ Objects[8] = "engine" /\ Objects[9] = "stim"
  BY DEF Objects
<1> QED
  BY <1>1, <1>2, <1>3

LEMMA ScopeFacts ==
  ASSUME Prefix
  PROVE  /\ scope \in Seq(Local) /\ Len(scope) \in Nat /\ Len(scope) <= 9
         /\ \A k \in 1 .. Len(scope) : scope[k] = Objects[k]
         /\ scope # << >> => Len(scope) > 0
<1>1. scope \in Seq(Local) /\ Len(scope) <= 9
  BY ObjectFacts DEF Prefix
<1>2. Len(scope) \in Nat /\ (scope # << >> => Len(scope) > 0)
  BY <1>1, LenProperties, EmptySeq
<1> QED
  BY <1>1, <1>2 DEF Prefix

LEMMA InInterval ==
  \A n \in Nat : n <= 9 => n \in 0 .. 9 /\ (n > 0 => n \in 1 .. 9)
OBVIOUS

(* What main builds next comes next in Objects.                            *)
LEMMA BuildsNext ==
  ASSUME Prefix, NEW objects \in Seq(Local), Builds(objects),
         NEW n \in Nat, NEW m \in Nat, Len(scope) = n, Len(objects) = m, n + m <= 9,
         \A k \in 1 .. m : objects[k] = Objects[n + k]
  PROVE  Prefix' /\ Len(scope') = n + m
<1>1. scope \in Seq(Local) /\ (\A k \in 1 .. n : scope[k] = Objects[k])
  BY DEF Prefix
<1>2. /\ scope' \in Seq(Local) /\ Len(scope') = n + m
      /\ \A k \in 1 .. n + m :
           scope'[k] = IF k <= n THEN scope[k] ELSE objects[k - n]
  <2>1. /\ scope \o objects \in Seq(Local)
        /\ Len(scope \o objects) = Len(scope) + Len(objects)
        /\ \A i \in 1 .. Len(scope) + Len(objects) : (scope \o objects)[i] =
              IF i <= Len(scope) THEN scope[i] ELSE objects[i - Len(scope)]
    BY <1>1, ConcatProperties
  <2>2. scope' = scope \o objects
    BY DEF Builds
  <2> QED
    BY <2>1, <2>2
<1>3. ASSUME NEW k \in 1 .. n + m PROVE scope'[k] = Objects[k]
  <2>1. CASE k <= n
    BY <1>1, <1>2, <2>1
  <2>2. CASE k > n
    <3>1. k - n \in 1 .. m /\ n + (k - n) = k
      BY <2>2
    <3> QED
      BY <1>2, <2>2, <3>1
  <2> QED
    BY <2>1, <2>2
<1> QED
  BY <1>2, <1>3, ObjectFacts DEF Prefix

(* The last local goes.                                                    *)
LEMMA PopsLast ==
  ASSUME Prefix, Pops, scope # << >>
  PROVE  Prefix'
<1>1. /\ scope \in Seq(Local) /\ Len(scope) \in Nat /\ Len(scope) > 0 /\ Len(scope) <= 9
      /\ \A k \in 1 .. Len(scope) : scope[k] = Objects[k]
  BY ScopeFacts
<1>2. PICK n \in Nat : n = Len(scope) - 1 /\ n < Len(scope)
  BY <1>1
<1>3. \A i \in 1 .. n : scope[i] \in Local
  <2>1. \A i \in 1 .. n : i \in 1 .. Len(scope)
    BY <1>1, <1>2
  <2> QED
    BY <1>1, <2>1, ElementOfSeq
<1>4. /\ SubSeq(scope, 1, n) \in Seq(Local)
      /\ Len(SubSeq(scope, 1, n)) = IF 1 <= n THEN n - 1 + 1 ELSE 0
      /\ \A i \in 1 .. n - 1 + 1 : SubSeq(scope, 1, n)[i] = scope[1 + i - 1]
  BY <1>3, SubSeqProperties
<1>5. scope' = SubSeq(scope, 1, n)
  BY <1>2 DEF Pops
<1>6. \A i \in 1 .. n : i \in 1 .. n - 1 + 1 /\ 1 + i - 1 = i /\ i \in 1 .. Len(scope)
  BY <1>1, <1>2
<1>7. /\ scope' \in Seq(Local) /\ Len(scope') = n
      /\ \A k \in 1 .. n : scope'[k] = Objects[k]
  BY <1>1, <1>4, <1>5, <1>6
<1> QED
  BY <1>1, <1>2, <1>7, ObjectFacts DEF Prefix

LEMMA PrefixStays == ASSUME Prefix, UNCHANGED scope PROVE Prefix'
BY DEF Prefix

(* While main goes on, its end need not be explained.                      *)
LEMMA GoesOn == ASSUME ended' = "no" PROVE KnownDeaths'
BY DEF KnownDeaths

--------------------------------------------------------------------------------
LEMMA InitLifeInd == LifeInit => LifeInd
<1> SUFFICES ASSUME LifeInit PROVE LifeInd
    OBVIOUS
<1>1. LifeTypeOK
  BY LifeAssumption DEF LifeInit, LifeTypeOK
<1>2. Prefix
  <2>1. scope \in Seq(Local) /\ Len(scope) = 0
    BY EmptySeq DEF LifeInit
  <2> QED
    BY <2>1, ObjectFacts DEF Prefix
<1>3. Depth /\ Stages /\ Stimulated /\ KnownDeaths
  BY DEF LifeInit, Depth, Stages, Stimulated, KnownDeaths, Looping, Mapped
<1> QED
  BY <1>1, <1>2, <1>3 DEF LifeInd

(* Steps that build nothing and destroy nothing, and end nothing.          *)
LEMMA MoveKeepsLifeInd ==
  ASSUME LifeInd,
         \/ ParseArguments \/ PinThread \/ OpenPortal \/ PreBake \/ LoopTest
         \/ JoinFlusher \/ Sigint \/ FlusherOpens \/ FlusherEnds \/ (\E w \in Workers : WorkerOpens(w))
  PROVE  LifeInd'
<1> USE DEF LifeInd
<1>1. ended' = "no" /\ UNCHANGED scope
  BY DEF ParseArguments, PinThread, OpenPortal, PreBake, LoopTest, JoinFlusher,
         Sigint, FlusherOpens, FlusherEnds, WorkerOpens, At
<1>2. LifeTypeOK'
  <2> USE DEF LifeTypeOK, setupVars, threadVars
  <2>1. ParseArguments \/ PinThread \/ OpenPortal \/ LoopTest \/ JoinFlusher => LifeTypeOK'
    BY DEF ParseArguments, PinThread, OpenPortal, LoopTest, JoinFlusher, Fails, Goto
  <2>2. PreBake => LifeTypeOK'
    BY DEF PreBake, Fails, Goto
  <2>3. Sigint \/ FlusherOpens \/ FlusherEnds => LifeTypeOK'
    BY DEF Sigint, FlusherOpens, FlusherEnds
  <2>4. ASSUME NEW w \in Workers, WorkerOpens(w) PROVE LifeTypeOK'
    <3>1. workers' \in [Workers -> {"none", "opening", "sending"}]
      BY <2>4 DEF WorkerOpens
    <3> QED
      BY <2>4, <3>1 DEF WorkerOpens
  <2> QED
    BY <2>1, <2>2, <2>3, <2>4
<1>3. Depth'
  BY <1>1 DEF Depth, ParseArguments, PinThread, OpenPortal, PreBake, LoopTest, JoinFlusher,
         Sigint, FlusherOpens, FlusherEnds, WorkerOpens, At, Fails, Goto, setupVars, threadVars, Looping
<1>4. Stages'
  BY DEF LifeTypeOK, Stages, ParseArguments, PinThread, OpenPortal, PreBake, LoopTest, JoinFlusher,
         Sigint, FlusherOpens, FlusherEnds, WorkerOpens, At, Fails, Goto, setupVars, threadVars,
         Looping, Mapped, Threaded
<1>5. Stimulated'
  BY DEF LifeTypeOK, Stimulated, ParseArguments, PinThread, OpenPortal, PreBake, LoopTest, JoinFlusher,
         Sigint, FlusherOpens, FlusherEnds, WorkerOpens, At, Fails, Goto, setupVars, threadVars, Looping
<1> QED
  BY <1>1, <1>2, <1>3, <1>4, <1>5, PrefixStays, GoesOn

(* Steps that build locals.                                                *)
LEMMA BuildKeepsLifeInd ==
  ASSUME LifeInd, Allocate \/ MapMemoryRegion \/ StartFlusher \/ BuildEngine \/ StartStimulator
  PROVE  LifeInd'
<1> USE DEF LifeInd
<1>1. ended' = "no"
  BY DEF Allocate, MapMemoryRegion, StartFlusher, BuildEngine, StartStimulator, At
<1>2. LifeTypeOK'
  <2>1. Allocate \/ MapMemoryRegion \/ StartFlusher \/ BuildEngine => LifeTypeOK'
    BY DEF LifeTypeOK, Allocate, MapMemoryRegion, StartFlusher, BuildEngine, SharedMemory, At,
           Fails, Goto, setupVars, threadVars
  <2>2. StartStimulator => LifeTypeOK'
    BY DEF LifeTypeOK, StartStimulator, At, Goto, setupVars
  <2> QED
    BY <2>1, <2>2
<1>3. Prefix' /\ Depth'
  <2> USE DEF At, Fails, Goto
  <2>0. Prefix
    OBVIOUS
  <2>1. CASE Allocate
    <3> DEFINE built == <<"hp_manager">>
    <3>1. Len(scope) = 0 /\ pc' = "map" /\ Builds(built)
      BY <2>1 DEF Allocate, Depth
    <3>2. built \in Seq(Local) /\ Len(built) = 1
      BY DEF Local
    <3>3. built[1] = "hp_manager"
      OBVIOUS
    <3> HIDE DEF built
    <3>4. \A k \in 1 .. 1 : built[k] = Objects[0 + k]
      <4>1. \A k \in 1 .. 1 : k = 1
        OBVIOUS
      <4> QED
        BY <3>3, <4>1, ObjectFacts
    <3>5. Prefix' /\ Len(scope') = 0 + 1
      <4>1. 0 \in Nat /\ 1 \in Nat /\ 0 + 1 <= 9
        OBVIOUS
      <4> QED
        BY <2>0, <3>1, <3>2, <3>4, <4>1, BuildsNext
    <3> QED
      BY <3>1, <3>5 DEF Depth, Looping
  <2>2. CASE MapMemoryRegion
    <3> DEFINE built == <<"portal">>
    <3>1. Len(scope) = 1 /\ pc' \in {"open", "unwind"} /\ Builds(built)
      BY <2>2 DEF MapMemoryRegion, Depth
    <3>2. built \in Seq(Local) /\ Len(built) = 1
      BY DEF Local
    <3>3. built[1] = "portal"
      OBVIOUS
    <3> HIDE DEF built
    <3>4. \A k \in 1 .. 1 : built[k] = Objects[1 + k]
      <4>1. \A k \in 1 .. 1 : k = 1
        OBVIOUS
      <4> QED
        BY <3>3, <4>1, ObjectFacts
    <3>5. Prefix' /\ Len(scope') = 1 + 1
      <4>1. 1 \in Nat /\ 1 \in Nat /\ 1 + 1 <= 9
        OBVIOUS
      <4> QED
        BY <2>0, <3>1, <3>2, <3>4, <4>1, BuildsNext
    <3> QED
      BY <3>1, <3>5 DEF Depth, Looping
  <2>3. CASE StartFlusher
    <3> DEFINE built == <<"ring", "audit_ring", "flusher", "flusher_thread">>
    <3>1. Len(scope) = 2 /\ pc' = "engine" /\ Builds(built)
      BY <2>3 DEF StartFlusher, Depth
    <3>2. built \in Seq(Local) /\ Len(built) = 4
      BY DEF Local
    <3>3. built[1] = "ring" /\ built[2] = "audit_ring" /\ built[3] = "flusher" /\ built[4] = "flusher_thread"
      OBVIOUS
    <3> HIDE DEF built
    <3>4. \A k \in 1 .. 4 : built[k] = Objects[2 + k]
      <4>1. \A k \in 1 .. 4 : k = 1 \/ k = 2 \/ k = 3 \/ k = 4
        OBVIOUS
      <4> QED
        BY <3>3, <4>1, ObjectFacts
    <3>5. Prefix' /\ Len(scope') = 2 + 4
      <4>1. 2 \in Nat /\ 4 \in Nat /\ 2 + 4 <= 9
        OBVIOUS
      <4> QED
        BY <2>0, <3>1, <3>2, <3>4, <4>1, BuildsNext
    <3> QED
      BY <3>1, <3>5 DEF Depth, Looping
  <2>4. CASE BuildEngine
    <3> DEFINE built == <<"risk_gate", "engine">>
    <3>1. Len(scope) = 6 /\ pc' = "template" /\ Builds(built)
      BY <2>4 DEF BuildEngine, Depth
    <3>2. built \in Seq(Local) /\ Len(built) = 2
      BY DEF Local
    <3>3. built[1] = "risk_gate" /\ built[2] = "engine"
      OBVIOUS
    <3> HIDE DEF built
    <3>4. \A k \in 1 .. 2 : built[k] = Objects[6 + k]
      <4>1. \A k \in 1 .. 2 : k = 1 \/ k = 2
        OBVIOUS
      <4> QED
        BY <3>3, <4>1, ObjectFacts
    <3>5. Prefix' /\ Len(scope') = 6 + 2
      <4>1. 6 \in Nat /\ 2 \in Nat /\ 6 + 2 <= 9
        OBVIOUS
      <4> QED
        BY <2>0, <3>1, <3>2, <3>4, <4>1, BuildsNext
    <3> QED
      BY <3>1, <3>5 DEF Depth, Looping
  <2>5. CASE StartStimulator
    <3> DEFINE built == <<"stim">>
    <3>1. Len(scope) = 8 /\ pc' = "test" /\ Builds(built)
      BY <2>5 DEF StartStimulator, Depth
    <3>2. built \in Seq(Local) /\ Len(built) = 1
      BY DEF Local
    <3>3. built[1] = "stim"
      OBVIOUS
    <3> HIDE DEF built
    <3>4. \A k \in 1 .. 1 : built[k] = Objects[8 + k]
      <4>1. \A k \in 1 .. 1 : k = 1
        OBVIOUS
      <4> QED
        BY <3>3, <4>1, ObjectFacts
    <3>5. Prefix' /\ Len(scope') = 8 + 1
      <4>1. 8 \in Nat /\ 1 \in Nat /\ 8 + 1 <= 9
        OBVIOUS
      <4> QED
        BY <2>0, <3>1, <3>2, <3>4, <4>1, BuildsNext
    <3> QED
      BY <3>1, <3>5 DEF Depth, Looping
  <2> QED
    BY <2>1, <2>2, <2>3, <2>4, <2>5
<1>4. Stages'
  <2> USE DEF LifeTypeOK, Stages, At, Fails, Goto, setupVars, threadVars, Looping, Mapped, Threaded
  <2>1. Allocate \/ MapMemoryRegion => Stages'
    BY DEF Allocate, MapMemoryRegion
  <2>2. StartFlusher => Stages'
    BY DEF StartFlusher
  <2>3. BuildEngine \/ StartStimulator => Stages'
    BY DEF BuildEngine, StartStimulator
  <2> QED
    BY <2>1, <2>2, <2>3
<1>5. Stimulated'
  <2>1. Allocate \/ MapMemoryRegion \/ StartFlusher \/ BuildEngine => Stimulated'
    BY DEF Stimulated, Allocate, MapMemoryRegion, StartFlusher, BuildEngine, At, Fails, Goto,
           threadVars, Looping
  <2>2. StartStimulator => Stimulated'
    BY DEF LifeTypeOK, Stimulated, StartStimulator, At, Goto, setupVars, Looping
  <2> QED
    BY <2>1, <2>2
<1> QED
  BY <1>1, <1>2, <1>3, <1>4, <1>5, GoesOn

(* Steps that end the process where main is: a tick without an arena or    *)
(* without rings, an exception, a fault of the flusher.                    *)
LEMMA DeathKeepsLifeInd ==
  ASSUME LifeInd, EngineStep \/ Uncaught \/ FlusherFaults
  PROVE  LifeInd'
<1> USE DEF LifeInd
<1>0. UNCHANGED <<setupVars, threadVars, scope, running, code>>
  BY DEF EngineStep, Uncaught, FlusherFaults
<1>1. LifeTypeOK'
  <2>1. pc' \in {pc, "test"} /\ pushed' \in {pushed, TRUE}
    BY DEF LifeTypeOK, EngineStep, Uncaught, FlusherFaults, At, Goto
  <2>2. ended' \in {"no", "crashed", "terminated"}
    BY DEF EngineStep, Uncaught, FlusherFaults, At
  <2>3. pushed' \in BOOLEAN
    BY <2>1, Zenon DEF LifeTypeOK
  <2> QED
    BY <1>0, <2>1, <2>2, <2>3 DEF LifeTypeOK, setupVars, threadVars
<1>2. pc' = pc \/ (pc = "step" /\ pc' = "test")
  BY DEF EngineStep, Uncaught, FlusherFaults, At, Goto
<1>3. Prefix'
  BY <1>0, PrefixStays
<1>4. Depth' /\ Stimulated'
  BY <1>0, <1>2 DEF Depth, Stimulated, Looping, setupVars, threadVars
<1>5. pushed' => pushed \/ pc = "step"
  BY DEF EngineStep, Uncaught, FlusherFaults, At
<1>6. Stages'
  BY <1>0, <1>2, <1>5 DEF Stages, Looping, Mapped, Threaded, setupVars, threadVars
<1>7. KnownDeaths'
  <2>1. CASE EngineStep
    BY <1>0, <2>1 DEF EngineStep, At, KnownDeaths, setupVars
  <2>2. CASE Uncaught
    BY <2>2 DEF Uncaught, KnownDeaths
  <2>3. CASE FlusherFaults
    <3>1. /\ ended' = "crashed" /\ flusher' = "draining" /\ pushed' /\ pc' = pc
          /\ flusher = "draining" /\ pushed
      BY <2>3 DEF FlusherFaults, threadVars
    <3>2. pc \in {"test", "step", "join"}
      BY <3>1 DEF Stages, Threaded, Looping
    <3> QED
      BY <3>1, <3>2 DEF KnownDeaths
  <2> QED
    BY <2>1, <2>2, <2>3
<1> QED
  BY <1>1, <1>3, <1>4, <1>6, <1>7

(* The end of main: a local goes, or the process with it.                  *)
LEMMA TeardownKeepsLifeInd ==
  ASSUME LifeInd, Teardown
  PROVE  LifeInd'
<1> USE DEF LifeInd
<1>1. /\ ended = "no" /\ pc = "unwind"
      /\ UNCHANGED <<setupVars, pushed, threadVars, pc, running, code>>
      /\ ~joinable
  BY DEF Teardown, DestroyPlain, DestroyRunningThread, FreeRegion, MainReturns, Unwinds, At,
         Stages, Threaded
<1>2. ended' \in {"no", "returned", "crashed", "terminated"}
  BY DEF LifeTypeOK, Teardown, DestroyPlain, DestroyRunningThread, FreeRegion, MainReturns
<1>3. LifeTypeOK'
  BY <1>1, <1>2 DEF LifeTypeOK, setupVars, threadVars
<1>4. Prefix'
  <2>1. UNCHANGED scope \/ (Pops /\ scope # << >>)
    BY DEF Teardown, DestroyPlain, DestroyRunningThread, FreeRegion, MainReturns, Unwinds
  <2> QED
    BY <2>1, PopsLast, PrefixStays
<1>5. Depth' /\ Stages' /\ Stimulated'
  BY <1>1 DEF Depth, Stages, Stimulated, setupVars, threadVars, Looping, Mapped, Threaded
<1>6. KnownDeaths'
  <2>1. CASE DestroyPlain \/ MainReturns
    BY <1>1, <2>1 DEF DestroyPlain, MainReturns, KnownDeaths
  <2>2. CASE DestroyRunningThread
    <3>1. Last = "stim" /\ (\E w \in Workers : workers[w] # "none")
      BY <1>1, <2>2 DEF DestroyRunningThread, Unwinds, Terminates
    <3>2. stimMode /\ code = 0
      BY <3>1 DEF Stimulated
    <3> QED
      BY <1>1, <2>2, <3>1, <3>2 DEF DestroyRunningThread, KnownDeaths, Last, setupVars
  <2>3. CASE FreeRegion
    <3>1. CASE ended' = "no"
      BY <3>1, GoesOn
    <3>2. CASE ended' # "no"
      <4>1. memory = "numa" /\ ended' = "crashed" /\ UNCHANGED scope
        BY <1>1, <2>3, <3>2 DEF FreeRegion
      <4>2. scope # << >> /\ scope[Len(scope)] = "hp_manager"
        BY <2>3 DEF FreeRegion, Unwinds, Last
      <4>0. Prefix
        OBVIOUS
      <4>3. /\ scope \in Seq(Local) /\ Len(scope) \in 1 .. 9
            /\ \A k \in 1 .. Len(scope) : scope[k] = Objects[k]
        <5>1. /\ scope \in Seq(Local) /\ Len(scope) \in Nat /\ Len(scope) <= 9
              /\ \A k \in 1 .. Len(scope) : scope[k] = Objects[k]
              /\ Len(scope) > 0
          BY <4>0, <4>2, ScopeFacts
        <5>2. Len(scope) \in 1 .. 9
          BY <5>1, InInterval, Zenon
        <5> QED
          BY <5>1, <5>2, Zenon
      <4>4. Len(scope) = 1
        <5>1. Objects[Len(scope)] = "hp_manager" /\ Len(scope) \in 1 .. 9
          BY <4>2, <4>3
        <5>2. \A k \in 1 .. 9 : k \in {1, 2, 3, 4, 5, 6, 7, 8, 9}
          OBVIOUS
        <5> QED
          BY <5>1, <5>2, ObjectFacts
      <4>5. scope = <<"hp_manager">>
        BY <4>2, <4>3, <4>4
      <4> QED
        BY <1>1, <4>1, <4>5 DEF KnownDeaths, setupVars
    <3> QED
      BY <3>1, <3>2
  <2> QED
    BY <2>1, <2>2, <2>3 DEF Teardown
<1> QED
  BY <1>3, <1>4, <1>5, <1>6

LEMMA StepKeepsLifeInd == LifeInd /\ [LifeNext]_lifeVars => LifeInd'
<1> SUFFICES ASSUME LifeInd, [LifeNext]_lifeVars PROVE LifeInd'
    OBVIOUS
<1>1. CASE \/ ParseArguments \/ PinThread \/ OpenPortal \/ PreBake \/ LoopTest
           \/ JoinFlusher \/ Sigint \/ FlusherOpens \/ FlusherEnds \/ (\E w \in Workers : WorkerOpens(w))
  BY <1>1, MoveKeepsLifeInd
<1>2. CASE Allocate \/ MapMemoryRegion \/ StartFlusher \/ BuildEngine \/ StartStimulator
  BY <1>2, BuildKeepsLifeInd
<1>3. CASE EngineStep \/ Uncaught \/ FlusherFaults
  BY <1>3, DeathKeepsLifeInd
<1>4. CASE Teardown
  BY <1>4, TeardownKeepsLifeInd
<1>5. CASE Ended \/ UNCHANGED lifeVars
  BY <1>5 DEF LifeInd, Ended, lifeVars, setupVars, threadVars, LifeTypeOK, Prefix, Depth,
              Stages, Stimulated, KnownDeaths, Last
<1> QED
  BY <1>1, <1>2, <1>3, <1>4, <1>5 DEF LifeNext, Main, Setup, Loop, Flusher

LEMMA LifeIndHolds == LifeSafety => []LifeInd
BY InitLifeInd, StepKeepsLifeInd, PTL DEF LifeSafety

--------------------------------------------------------------------------------
(* A local is alive when main has built enough.                            *)
LEMMA BuiltIsAlive ==
  ASSUME Prefix, NEW k \in 1 .. 9, k <= Len(scope)
  PROVE  Alive(Objects[k])
<1>1. k \in 1 .. Len(scope) /\ scope[k] = Objects[k]
  BY LenProperties DEF Prefix
<1> QED
  BY <1>1 DEF Alive

LEMMA ThreadedIsDeep ==
  ASSUME LifeInd, joinable
  PROVE  Alive("audit_ring") /\ Alive("flusher") /\ Alive("flusher_thread")
<1>1. Len(scope) \in {6, 8, 9}
  BY DEF LifeInd, Depth, Stages, Threaded, Looping
<1>2. Alive(Objects[4]) /\ Alive(Objects[5]) /\ Alive(Objects[6])
  <2>0. Prefix
    BY DEF LifeInd
  <2>1. 4 <= Len(scope) /\ 5 <= Len(scope) /\ 6 <= Len(scope)
    <3>1. \A n \in {6, 8, 9} : 4 <= n /\ 5 <= n /\ 6 <= n
      OBVIOUS
    <3> QED
      BY <1>1, <3>1, Zenon
  <2>2. 4 \in 1 .. 9 /\ 5 \in 1 .. 9 /\ 6 \in 1 .. 9
    OBVIOUS
  <2> QED
    BY <2>0, <2>1, <2>2, BuiltIsAlive
<1> QED
  BY <1>2, ObjectFacts

(* The live locals are the first ones of main, whichever return it took,   *)
(* and a thread that could still be joined has its handle.                 *)
THEOREM ScopeStaysInOrder == LifeSafety => []LifeInv
<1>1. LifeInd => LifeInv
  <2> SUFFICES ASSUME LifeInd PROVE LifeInv
    OBVIOUS
  <2>0. Prefix
    BY DEF LifeInd
  <2>1. /\ scope \in Seq(Local) /\ Len(scope) \in 0 .. 9
        /\ \A k \in 1 .. Len(scope) : scope[k] = Objects[k]
    <3>1. /\ scope \in Seq(Local) /\ Len(scope) \in Nat /\ Len(scope) <= 9
          /\ \A k \in 1 .. Len(scope) : scope[k] = Objects[k]
      BY <2>0, ScopeFacts
    <3>2. Len(scope) \in 0 .. 9
      BY <3>1, InInterval, Zenon
    <3> QED
      BY <3>1, <3>2, Zenon
  <2>2. scope = SubSeq(Objects, 1, Len(scope))
    <3>1. /\ SubSeq(Objects, 1, Len(scope)) \in Seq(Local)
          /\ Len(SubSeq(Objects, 1, Len(scope))) = Len(scope)
          /\ \A k \in 1 .. Len(scope) : SubSeq(Objects, 1, Len(scope))[k] = Objects[k]
      BY <2>1, ObjectFacts
    <3> QED
      BY <2>1, <3>1, SeqEqual
  <2> QED
    BY <2>2, ThreadedIsDeep DEF LifeInd, LifeInv, ScopeInOrder
<1> QED
  BY <1>1, LifeIndHolds, PTL

(* The flusher's thread never loses the ring or the flusher it works on,   *)
(* at any return of main and whenever SIGINT comes.                        *)
THEOREM FlusherKeepsItsObjects == LifeSafety => []FlusherOnLiveObjects
<1>1. LifeInd => FlusherOnLiveObjects
  BY ThreadedIsDeep DEF LifeInd, Stages, FlusherOnLiveObjects
<1> QED
  BY <1>1, LifeIndHolds, PTL

(* No path of failed allocations gets to the loop.                         *)
THEOREM LoopIsUp == LifeSafety => []PollsOnlyWhenUp
<1>1. LifeInd => PollsOnlyWhenUp
  BY DEF LifeInd, Stages, Mapped, Looping, PollsOnlyWhenUp
<1> QED
  BY <1>1, LifeIndHolds, PTL

(* The process dies only where KnownDeaths says, whatever fails or throws  *)
(* and whenever SIGINT comes; a failed setup destroys no running thread.   *)
THEOREM DeathsAreKnown == LifeSafety => []KnownDeaths
<1>1. LifeInd => KnownDeaths
  BY DEF LifeInd
<1> QED
  BY <1>1, LifeIndHolds, PTL
================================================================================
