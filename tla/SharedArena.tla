------------------------------ MODULE SharedArena ------------------------------
(***************************************************************************)
(* The market arena as memory that outlives its processes.  Every          *)
(* BuanEngine builds a MarketStateArena                                    *)
(* (include/buan/core/market_state_arena.hpp) over the POSIX shared memory *)
(* object "/buan_market_arena", which BuanHugePageManager::allocate        *)
(* (include/buan/core/hugepage_manager.hpp) opens or creates, sizes and    *)
(* maps; BuanEngine::step writes its slots; BuanClient::attach             *)
(* (include/buan/client.hpp) maps it read-only in other processes.         *)
(*                                                                         *)
(* A life is one run of a program with an engine in it (main, hela_audit,  *)
(* the Python module): it may crash between any two steps, a later one may *)
(* find the object as the crash left it, and two may run side by side,     *)
(* since the name of the object is the same for all.                       *)
(*                                                                         *)
(* A slot is the life that stored last_price and the lives whose ticks     *)
(* have gone into the rolling features, which are computed from the        *)
(* features before them.                                                   *)
(***************************************************************************)
EXTENDS Naturals, FiniteSets

CONSTANTS
  MaxLives,    \* bound: processes with an engine, one after another
  MaxTogether, \* bound: those that run at the same time
  Clients,     \* processes that attach
  Tickers      \* slots of the arena (2048 in the code)

ASSUME ArenaAssumption ==
  MaxLives \in Nat /\ MaxTogether \in Nat /\ Tickers \in Nat \ {0}

VARIABLES
  named,    \* the object the name stands for, 0 if there is none
  sized,    \* objects that have their full size
  slots,    \* contents of each object, slot by slot
  pc,       \* where each life is
  arena,    \* the object each running life has opened, 0 if none
  cursor,   \* the slot memset is at, or the slot of the tick
  held,     \* the features a tick has read
  client,   \* where each client is
  view,     \* the object each client has mapped, 0 if none
  early,    \* history: clients that mapped an object before it had a size
  company   \* history: the lives each running life has run beside

lifeVars   == <<pc, arena, cursor, held, company>>
clientVars == <<client, view, early>>
arenaVars  == <<named, sized, slots, lifeVars, clientVars>>

Life   == 1 .. MaxLives
Object == Life                   \* an object is known by the life that created it
Ticker == 1 .. Tickers
Slot   == [price : {0} \cup Life, features : SUBSET Life]
Empty  == [price |-> 0, features |-> {}]

Alive(e) == pc[e] \notin {"unborn", "ended"}

ArenaInit ==
  /\ named = 0 /\ sized = {}
  /\ slots = [o \in Object |-> [i \in Ticker |-> Empty]]
  /\ pc = [e \in Life |-> "unborn"] /\ arena = [e \in Life |-> 0]
  /\ cursor = [e \in Life |-> 1] /\ held = [e \in Life |-> {}]
  /\ client = [c \in Clients |-> "out"] /\ view = [c \in Clients |-> 0] /\ early = {}
  /\ company = [e \in Life |-> {}]

Goes(e, label) == pc' = [pc EXCEPT ![e] = label]
Leaves(e, label) ==              \* with the locals of what it was doing
  Goes(e, label) /\ cursor' = [cursor EXCEPT ![e] = 1] /\ held' = [held EXCEPT ![e] = {}]

--------------------------------------------------------------------------------
(* The arena's constructor.                                                *)

Company(e) ==
  company' = [f \in Life |-> IF f = e THEN {g \in Life : Alive(g)}
                             ELSE IF Alive(f) THEN company[f] \cup {e} ELSE company[f]]

MutOpen(e) ==                    \* O_TRUNC
  /\ pc[e] = "unborn"
  /\ named' = IF named = 0 THEN e ELSE named
  /\ arena' = [arena EXCEPT ![e] = named']
  /\ sized' = sized \ {named'}
  /\ Goes(e, "opened") /\ Company(e)
  /\ UNCHANGED <<slots, cursor, held, clientVars>>

Starts(e) ==
  /\ pc[e] = "unborn" /\ \A f \in 1 .. e - 1 : pc[f] # "unborn"
  /\ Cardinality({f \in Life : Alive(f)}) < MaxTogether
  /\ Company(e)

(* shm_open(O_RDWR | O_CREAT): the object there is, or a new, empty one.   *)
Open(e) ==
  /\ Starts(e)
  /\ named' = IF named = 0 THEN e ELSE named
  /\ arena' = [arena EXCEPT ![e] = named']
  /\ Goes(e, "opened")
  /\ UNCHANGED <<sized, slots, cursor, held, clientVars>>

(* shm_open, and further on ftruncate or mmap, fails: m_states stays null. *)
OpenFails(e) ==
  /\ Starts(e) /\ Goes(e, "noarena")
  /\ UNCHANGED <<named, sized, slots, arena, cursor, held, clientVars>>

AllocateFails(e) ==
  /\ pc[e] \in {"opened", "sized"}
  /\ Goes(e, "noarena")
  /\ UNCHANGED <<named, sized, slots, arena, cursor, held, company, clientVars>>

Truncate(e) ==                   \* to the size the object has, if it has one
  /\ pc[e] = "opened"
  /\ sized' = sized \cup {arena[e]}
  /\ Goes(e, "sized")
  /\ UNCHANGED <<named, slots, arena, cursor, held, company, clientVars>>

Map(e) ==
  /\ pc[e] = "sized"
  /\ Goes(e, "zeroing") /\ cursor' = [cursor EXCEPT ![e] = 1]
  /\ UNCHANGED <<named, sized, slots, arena, held, company, clientVars>>

MutZero(e) ==                    \* memset of sizeof(MarketState): the first slot
  /\ pc[e] = "zeroing"
  /\ slots' = [slots EXCEPT ![arena[e]][1] = Empty]
  /\ Goes(e, "up")
  /\ UNCHANGED <<named, sized, arena, cursor, held, company, clientVars>>

(* memset, a slot at a time.                                               *)
Zero(e) ==
  /\ pc[e] = "zeroing"
  /\ slots' = [slots EXCEPT ![arena[e]][cursor[e]] = Empty]
  /\ IF cursor[e] = Tickers
       THEN Goes(e, "up") /\ cursor' = [cursor EXCEPT ![e] = 1]
       ELSE cursor' = [cursor EXCEPT ![e] = @ + 1] /\ UNCHANGED pc
  /\ UNCHANGED <<named, sized, arena, held, company, clientVars>>

--------------------------------------------------------------------------------
(* The part of BuanEngine::step that writes a slot.                        *)

TickPrice(e) ==
  /\ pc[e] = "up"
  /\ \E i \in Ticker : /\ slots' = [slots EXCEPT ![arena[e]][i].price = e]
                       /\ cursor' = [cursor EXCEPT ![e] = i]
  /\ Goes(e, "price")
  /\ UNCHANGED <<named, sized, arena, held, company, clientVars>>

TickLoad(e) ==                   \* rolling_mean, rolling_m2
  /\ pc[e] = "price"
  /\ held' = [held EXCEPT ![e] = slots[arena[e]][cursor[e]].features]
  /\ Goes(e, "features")
  /\ UNCHANGED <<named, sized, slots, arena, cursor, company, clientVars>>

TickFeatures(e) ==
  /\ pc[e] = "features"
  /\ slots' = [slots EXCEPT ![arena[e]][cursor[e]].features = held[e] \cup {e}]
  /\ Leaves(e, "up")
  /\ UNCHANGED <<named, sized, arena, company, clientVars>>

(* A crash anywhere; the first tick, through the null pointer, where there *)
(* is no arena; or the destructor's munmap, which leaves the object.       *)
Ends(e) ==
  /\ Alive(e)
  /\ Leaves(e, "ended") /\ arena' = [arena EXCEPT ![e] = 0]
  /\ company' = [company EXCEPT ![e] = {}]
  /\ UNCHANGED <<named, sized, slots, clientVars>>

--------------------------------------------------------------------------------
(* A client: nullptr while there is no object, the object whatever its     *)
(* size is otherwise.                                                      *)
Attach(c) ==
  /\ client[c] = "out" /\ named # 0
  /\ client' = [client EXCEPT ![c] = "attached"]
  /\ view' = [view EXCEPT ![c] = named]
  /\ early' = IF named \in sized THEN early ELSE early \cup {c}
  /\ UNCHANGED <<named, sized, slots, lifeVars>>

(* A read past the end of the object is a SIGBUS; others change nothing.   *)
Read(c) ==
  /\ client[c] = "attached" /\ view[c] \notin sized
  /\ client' = [client EXCEPT ![c] = "faulted"]
  /\ UNCHANGED <<named, sized, slots, lifeVars, view, early>>

--------------------------------------------------------------------------------
Construct(e) ==
  Open(e) \/ OpenFails(e) \/ AllocateFails(e) \/ Truncate(e) \/ Map(e) \/ Zero(e)
Tick(e) == TickPrice(e) \/ TickLoad(e) \/ TickFeatures(e)
Use(c) == Attach(c) \/ Read(c)

ArenaNext == \/ \E e \in Life : Construct(e) \/ Tick(e) \/ Ends(e)
             \/ \E c \in Clients : Use(c)

ArenaSpec == ArenaInit /\ [][ArenaNext]_arenaVars

--------------------------------------------------------------------------------
Ticking == {"up", "price", "features"}

(* The values of the variables.                                            *)
ArenaTypeOK ==
  /\ named \in {0} \cup Object /\ sized \subseteq Object
  /\ slots \in [Object -> [Ticker -> Slot]]
  /\ pc \in [Life -> {"unborn", "opened", "noarena", "sized", "zeroing", "ended"} \cup Ticking]
  /\ arena \in [Life -> {0} \cup Object] /\ cursor \in [Life -> Ticker]
  /\ held \in [Life -> SUBSET Life] /\ company \in [Life -> SUBSET Life]
  /\ client \in [Clients -> {"out", "attached", "faulted"}]
  /\ view \in [Clients -> {0} \cup Object] /\ early \subseteq Clients

(* A client that attached to an object with a size never faults, however   *)
(* many engines crash, end or start over it: the size is never taken back. *)
(* One that attaches between shm_open and ftruncate may.                   *)
NoFaultOnceSized == \A c \in Clients : client[c] = "faulted" => c \in early

(* What a client maps is the memory every engine writes, from whatever     *)
(* life it was mapped in: nobody has to attach again after a restart.      *)
ViewFollowsEngine ==
  \A c \in Clients, e \in Life : view[c] # 0 /\ pc[e] \in Ticking => view[c] = arena[e]

SharedInv == ArenaTypeOK /\ NoFaultOnceSized /\ ViewFollowsEngine

Own(e, i) ==
  LET slot == slots[arena[e]][i]
  IN  /\ slot.price \in {0, e} /\ slot.features \subseteq {e}
      /\ slot.price = 0 => slot.features = {}
      /\ pc[e] = "up" \/ cursor[e] # i => (slot.price = e <=> e \in slot.features)

(* A life that has run beside no other starts from nothing: whatever an    *)
(* earlier one left, torn slots of a crash included, its slots hold its    *)
(* own ticks alone, and each is whole except the one a tick is at.         *)
NoGhosts ==
  \A e \in Life : pc[e] \in Ticking /\ company[e] = {} => \A i \in Ticker : Own(e, i)
================================================================================
