# TLA+ models of the Buan engine

This directory specifies the C++ engine of this repository: a single-threaded
market-data path (NIC to parser to risk gate to ring), the lock-free rings that
carry its results to other threads, the thread that writes the audit file, the
memory the engine shares with other processes, and the process around it all.
TLC checks every model on small instances. For every model but the benchmark's,
whose one property the code does not keep, TLAPS proves the safety properties
for every value of the constants.

Contents: [the system](#the-system), [the modules](#the-modules),
[the runs](#the-runs), [fairness](#fairness), [the proofs](#the-proofs),
[where code and comments disagree](#where-code-and-comments-disagree),
[what is not modelled](#what-is-not-modelled), [the plan](#the-plan).

## The system

| Component (file under `src/`) | State | Operations | Talks to |
| --- | --- | --- | --- |
| `BuanRingBuffer` (`include/buan/core/ring_buffer.hpp`) | buffer, `m_head`, `m_tail`, `m_drop_count` | `push`, `pop`, `count`, `dropped_count` | engine (producer), flusher or Python (consumer) |
| `AuditFlusher` (`include/buan/benchmarks/audit_flusher.hpp`) | file, mapping, `total_written`, `current_chunk_bytes` | `run` on its own thread | audit ring, `g_running`, msync |
| `main` (`src/main.cpp`) | its locals, `g_running` | setup, poll loop, SIGINT handler, teardown | all of them |
| `BuanEngine` (`src/monads/datapath_composition.cpp`) | references to the rest, limits | `step`, `set_max_vol_limit` | portal, parsers, index, arena, risk gate, both rings |
| Parsers (`src/network/protocol_parser.cpp`, `binance_parser.cpp`) | none | `parse` | engine |
| `SymbolIndex` (`include/buan/core/symbol_index.hpp`) | `m_map`, `m_next_id`, `m_mutex` | `get_or_create` | engine, any other thread |
| `MarketStateArena` (`include/buan/core/market_state_arena.hpp`) | 2048 slots in shared memory | constructor, `get_slot`, `get_slot_const`, `raw_ptr` | engine, risk gate, Python, `BuanClient` |
| `BuanClient` (`include/buan/client.hpp`) | none: a read-only mapping of the arena in another process | `attach`, reads through the pointer | shared memory |
| `BuanRiskEngine` (`include/buan/risk/risk_gate.hpp`) | position, last price, tokens, refill time | `check`, `on_order_sent`, `update_market_price` | engine, order senders |
| `BuanXDPPortal` (`src/network/xdp_portal.cpp`) | UMEM and four AF_XDP rings | `map_memory_region`, `open`, `poll_frame`, `release_frame`, `send_order`, `complete_tx` | kernel, NIC, engine |
| `SbeOrderBuilder` (`include/buan/network/sbe_order_builder.hpp`) | the order template in the UMEM | `pre_bake`, `strike` | portal |
| `BuanHugePageManager` (`include/buan/core/hugepage_manager.hpp`) | one region | `allocate`, destructor | main, arena, shared memory |
| `BuanArena` (`include/buan/core/arena_allocator.hpp`, `src/core/arena_allocator.cpp`) | a region and `m_offset` | `allocate`, `reset` | nobody yet |
| `porth::Driver` (`include/buan/network/driver_interface.hpp`) | shuttles, registers, IOMMU mappings, the watchdog's thread and flags | constructor, `transmit`, `receive`, `set_stats_link`, destructor, `watchdog_loop` | device |
| `MarketStimulator` (`include/buan/util/market_stimulator.hpp`) | worker threads, `m_running` | `start`, `stop` | network |
| Hela-Audit (`src/benchmarks/hela_audit_suite.cpp`) | logger, `captured` | capture loop, replay | engine, both rings, flusher |
| `BuanPcapPortal`, Python bindings, `AtomicSequence`, `VolSurface`, feature factory, clock and affinity helpers, XDP gatekeeper, scripts | | | see [what is not modelled](#what-is-not-modelled) |

**Threads.** The trading thread is `main`'s poll loop: everything from the NIC
to the two pushes happens on it. The flusher's thread pops the audit ring. A
Python thread may pop the signal ring and move the breaker's limit. The kernel
and the NIC share the UMEM. SIGINT interrupts the trading thread between any
two of its instructions. With `--stimulate` two more threads send packets. The
hardware driver has a watchdog thread beside the one that owns it. Other
processes map the market arena: clients, and whatever other program builds an
engine, since they all use one name.

**What is hard.** Both sides of a ring act on out-of-date views of the other
side's index. SIGINT falls inside a step. The flusher leaves on two conditions
read at different moments. `get_or_create` gives up a shared lock before it
takes the unique one. `check` reserves nothing of what it looked at. The NIC
reads and writes the memory that the portal and the order builder use. A step
of the setup may fail with threads already running. The arena outlives the
process that wrote it, crashes included. The watchdog judges a temperature that
it read a moment ago, on a driver whose owner may be destroying it.
`PROJECT.json` lists each of these at its line, with the properties that would
show it going wrong.

**What makes each part correct.** The ring is an ordered bounded channel
without a data race. The audit file is the accepted records in order, and
whatever is not in it is accounted for. The index is atomic and never changes
its mind. Limits are passed by a bounded amount only. UMEM frames have one
owner. Orders are not forgotten on the TX ring. Audit records come before the
signals they describe. No thread uses a destroyed object, and SIGINT ends the
process. A client never loses the memory it mapped, and no engine computes with
what an earlier one left. A device never has the address of memory that is
gone, and a breach of the temperature limit halts it.

## The modules

### `CreditChannel`, `SpscRing`: the ring

`CreditChannel` is what a ring promises: items in transit, items ready, free
slots the producer knows of (credits), and free slots it does not know of yet.
`SpscRing` is `push` and `pop` in the code's terms: load and decide
(`PushAdmit`, `PushRefused`, `PopAdmit`), access the slot (`PushWrite`,
`PopRead`), store the index (`PushPublish`, `PopRelease`). Acquire and release
are modelled by `headVis` and `tailVis`, the views that the other core has;
they move one store at a time (`HeadReachesConsumer`, `TailReachesProducer`),
so a load may be arbitrarily out of date but never goes backwards. `pop` on an
empty ring changes nothing and is the absence of `PopAdmit`. `DropMod` stands
for 2^64.

### `ShadowLog`: poll loop, audit ring, flusher, SIGINT

It EXTENDS `SpscRing` and puts `main`'s loop around `push` and
`AuditFlusher::run` around `pop`. `Sigint` is enabled between any two steps of
`main`. The handler's store of `g_running` is a release store of the same
thread that stores `m_head`, so the flusher sees the two in order:
`FlagArrives` waits until the flusher's view of `m_head` is at least the one of
the moment of the signal, and a later `m_head` waits for the flag. The n-th
record offered is the number n, so that gaps, repeats and reorderings show.
`msync` is the counter `synced`.

A file that cannot be opened or mapped ends `run` (`FlushOpenFails`). The
result of `ftruncate` is ignored: `FlushOpen` maps the file whether it got its
size (`sized`) or not, and the first `memcpy` beyond the end of the file is a
SIGBUS, which kills the process (`FlushFault`). A file of the right size is
sparse and meets the same end at the first record of a page for which the
device has no block. The exceptions that `main` does not catch are left to
`Lifecycle`: they end the process as the SIGBUS does.

### `SymbolTable`, `SymbolIndex`: `get_or_create`

`SymbolTable` answers each call at one instant. `SymbolIndex` has the two lock
acquisitions, the two lookups, `fetch_add` and the insertion as separate steps.
The key is computed as in the code (`source << 32 | external`).

### `RiskChecks`, `RiskGate`: the risk engine

`RiskChecks` holds the branch-free comparisons of `check`, with the casts to
`uint64_t` as reduction modulo `Word`. `RiskGate` shares the gate between
traders: the three atomic loads of `check` in any order, then the two
read-modify-writes of `on_order_sent`, beside `update_market_price` with its
store of the price, its test of the clock and its refill. The panic limit comes
from a plain `float` that another thread rewrites: whether it applies is left
open. The feed's prices include a negative one, with which the band's right
side becomes a huge unsigned number.

### `XdpPortal`: AF_XDP rings, UMEM, order template

The fill, RX, TX and completion rings, the frames' contents, and `send_order`
in its three parts (reclaim, submit, kick). `NicReceive`, `NicTransmit` and
`NicSleeps` are the kernel and the NIC, modelled from how the portal uses them.
`SbeOrderBuilder` is the contents of frame 0, where `main` bakes the template:
`pre_bake` writes the whole of it, `strike` the order's own fields only, so that
a template a packet was received over stays a packet. `open` reports success
also when the fill ring has no room; `stocked` is how many frames it put there.

### `Engine`: one `step`

From a frame to the two rings: parser, `get_or_create` (as `SymbolTable`
says), arena, reference price, breaker, risk gate (`RiskChecks`), audit push,
signal push. The step is cut at the two pushes, where it meets other threads;
the rings are channels with credits (as `CreditChannel` says). `Others` are the
consumers and the Python setter.

### `Lifecycle`: `main` from start to end

The locals of `main` in the order of their construction, each failing step of
the setup, the flusher's and the stimulator's threads, SIGINT anywhere, and the
destructors in reverse order. It takes from `ShadowLog` that the flusher ends
once the flag is down, or kills the process with a record in hand
(`FlusherFaults`).

There is no `try` in `main`: what `std::stoul` and `std::stoi` make of the
arguments, `std::thread` and every allocation may throw, and nothing is unwound
(`Uncaught`, at the places in `Throwing`). The rings take their memory from
`aligned_alloc` and do not look at it: where it is null (`buffers`) the first
push is a memory fault.

### `SharedArena`: the market arena across processes

A *life* is one run of a program with an engine in it. `Open`, `Truncate`,
`Map` and `Zero` are the named branch of `BuanHugePageManager::allocate` and
the constructor of `MarketStateArena`, step by step and `memset` slot by slot;
`TickPrice`, `TickLoad` and `TickFeatures` are what `BuanEngine::step` does to
a slot; `Ends` is a crash at any point, or the destructor, which unmaps and
never unlinks. `Attach` and `Read` are `BuanClient`. A slot's contents are the
life that stored its price and the lives whose ticks went into its rolling
features, so that anything left over from another life shows.

Every `BuanEngine` opens the same name, so two lives may run side by side
(`MaxTogether`). The second one's `memset` then wipes a live arena and both
write one slot: `NoGhosts` promises something only to a life that ran beside no
other. `OpenFails` (`shm_open`) and `AllocateFails` (`ftruncate`, `mmap`) are
the null `m_states` that `Lifecycle` follows to its end. It is not rare: on
Linux `MAP_HUGETLB` on a descriptor of `/dev/shm` answers `EINVAL`, and on
macOS a second `ftruncate` of the object fails.

### `BumpArena`: `BuanArena`

`allocate` is a load of the offset, a computation and `compare_exchange_weak`,
which may fail for no reason (`Retry`); `reset` stores 0 at any moment.
`size_t` counts modulo `Word` (2^64): the product `sizeof(T) * count` may wrap
(`BytesNeeded`), and so may its sum with the aligned offset (`End`). Such a
request passes for a small one, and its caller gets a pointer. A block is
recorded as long as its caller asked for (`Asked`), with its place among the
others (`nth`): one that is larger than the region is `Oversized`, and what is
handed out behind it may overlap.

### `PorthDriver`: the hardware driver

The owner's thread runs the constructor pass by pass, `transmit`, `receive`,
`set_stats_link` and the destructor; `watchdog_loop` samples, tests for the
statistics, publishes, judges, prints its message and halts on its own thread.
Registers, IOMMU and shuttles are declared in headers this repository does not
have: what the driver does with them is modelled, and everything that can throw
may throw. What the model shows beside its properties:

- A constructor that throws runs no destructor: mappings and `data_ptr` stay
  as they are while the shuttles' memory goes (`Throws`).
- Without registers the watchdog returns before it reports ready, and the
  constructor waits for it for ever (excluded by `regs` in `NobodyHangs`).
- Only the watchdog ever writes 0 to the control register; the destructor,
  announced as a hardware shutdown, does not; and after a halt `transmit` goes
  on answering SUCCESS.
- The message about a breach comes before the halt. `std::format` may throw, and
  the process then ends with the hardware running (`WatchdogMessage`).
- `set_stats_link` stores a plain pointer that the watchdog reads, which is a
  data race. `SetStatsLink` may take effect at any point of the watchdog's pass;
  with `nullptr` between the test and the use the process ends there
  (`WatchdogPublish`).
- The destructor takes the mappings back one at a time and is `noexcept`: what
  `unmap_dma` throws ends the process (`UnmapDma`).

### `HelaAudit`: the benchmark

Its capture loop pops the audit ring that the flusher it started pops too. The
ring is written out here for two consumers, which `SpscRing` does not have.

## The runs

| Run | Instance | Question |
| --- | --- | --- |
| `shadow_log` | ring of 4 slots, 7 records, file of 4 in chunks of 2 | Is the ring a channel without races, where is each audit record, and does SIGINT end both threads? |
| `symbol_index` | 2 threads, 4 symbols of 2 sources, 3 ids | Is `get_or_create` atomic, stable and without a map race? |
| `risk_gate` | 2 traders, limit 2, orders of 2, 1 token, feed prices 100, 120 and -100, clock to 4 | How far can the unreserved check be overrun? |
| `xdp_portal` | 3 frames and ring entries, 5 packets, 5 orders | Does every frame have one owner, and does every order leave? |
| `engine` | 8 frames, 3 registrable symbols in 2 slots, rings of 1, 4 steps | Do audit records lead signals, and does a slot, slot 0 included, keep its symbol? |
| `lifecycle` | with and without NUMA and `--stimulate`, 2 workers | What can be used after its destruction, and where can the process die? |
| `porth_driver` | 2 channels of 1 descriptor, temperatures 69, 70, 71 and 90, limit 70 | Does a breach halt the hardware, and is memory taken back before it goes? |
| `shared_arena` | 3 lives, 2 at a time, 1 client, 2 slots | What does a crash or a second engine leave behind, and can a client lose its view? |
| `bump_arena` | 3 threads, 192 bytes, word of 512, 5, 16, 60 or 65 objects of 8 bytes, 3 claims, 1 reset | Are blocks aligned, inside the region and disjoint, and how far does the harm of a wrapped request go? |
| `xdp_template`, `engine_band`, `hela_twice` | | One statement of the repository each, which the code does not keep |

**Why the bounds are enough.** Four slots are the smallest power of two with
more than one item in flight and both indices wrapping. Seven records wrap the
ring and fill the file with records left over, so that the last chunk, the
discarded record and the refusal all happen. Two threads are enough for the one
window between the two locks, since the unique lock admits one of them; three
ids for four symbols reach the full index. In the risk gate the overshoot is
one order per *other* trader, and two traders show the term; the clock reads 2
to 4 with a refill period of 1, and `window` is any of its readings, so that a
refill can be decided in one window and stored in the next. Five packets are
more than three frames, and five orders fill the TX ring and the completion
ring (the case of `CompletionRoom`). The engine's frames take every way out of
a step, overflow the index, and with the 32-bit volume as `VolWord` = 8 wrap
both a negative CME size and a large Binance quantity.

Two channels tell the first shuttle, whose address is `data_ptr`, from the
others; the temperatures are one below the limit, the limit, one above and one
far above. Three lives (`MaxLives`) are one that crashes, one that finds its
remains, and one beside it (`MaxTogether` = 2); two slots give `memset` a
middle. In the bump arena 192 bytes are three lines, and in a word of 512 the
region is less than half. Of the counts, 5 is rounded up to a line, 16 are two
lines, 60 (480 bytes) wrap the sum and 65 (520) the product. Three claims
(`MaxClaims`) and one reset (`MaxEpoch`) put a wrapped request between two
others and hold a stale offset over a rewind; the threads are interchangeable,
and the configuration declares them symmetric. The proofs cover all larger
instances of the safety properties, but for those named under [only
model-checked](#the-proofs).

**What the less obvious properties say.**

- `ImplementsChannel`: a refusal happens exactly when the producer knows of no
  free slot, and what is popped is what was pushed, in order.
- `AuditReachesFile`, `StopEnds`: every record accepted while the program runs
  gets to the file, and SIGINT ends both threads, except where there is no file
  or the copy into it kills the process.
- `StoppedIsSettled`, `OneStraggler`: every record published before the signal
  is written or counted as discarded; of the step the signal fell into, at most
  one record stays in the ring and is lost at exit, although the flusher's last
  lines call themselves the "Final flush for remaining data".
- `FlushAligned`: every chunk handed to `msync` starts on a chunk boundary,
  whatever passes came between; otherwise `msync` would refuse the address.
- `ImplementsTable`: two calls racing for a new symbol get the one id; a call
  on a full index gets 0.
- `PositionOvershoot`, `TokensOvershoot`, `RateOvershoot`: the limits are passed
  by one order of each other trader; a refill decided early and stored late can
  make a window see three buckets, never more.
- `ChecksSound` (in `GateInv`): the unsigned comparisons agree with the plain
  ones at every position the races lead to.
- `NoLostWakeup`, `OrderLeaves`: an order on the TX ring waits only for an awake
  driver, for room in the completion ring, or after a failed `sendto`, whose
  result the code ignores.
- `CompletionRoom`: what is on the TX ring and what nobody collected exceed the
  completion ring by one at most. By one they may: the driver is then stopped by
  a full completion ring until the next `send_order`.
- `WireNeverStale`: the NIC reads the one template when it transmits, so an
  order may leave as a later one; never as an older one, as long as no packet
  lies over the template.
- `FramesConserved` (in `PortalInv`): a frame that `open` stocked has one
  owner. As `release_frame` returns none, the portal receives 2048 packets in
  its life.
- `PairsMatch`: pairs of one descriptor and one record are of the same frame
  only until a ring refuses one.
- `SlotHoldsSymbol`: the slot of every symbol, slot 0 included, holds that
  symbol's last price. Only once the index is full may slot 0 hold that of a
  symbol that came too late (`strays`).
- `KnownDeaths`: where the process can die other than by a return from `main`,
  and in which state: a memory fault in a step without an arena or without
  memory for the rings, in the flusher's copy, or in the destructor that gives
  NUMA memory to `free`; `std::terminate` at a place that throws, or in the
  destructor of a stimulator nobody stopped. `Uncaught` may happen at any place
  of `Throwing`; what the property adds is what cannot happen: no failed setup
  destroys a thread that runs, no memory fault in the other places of setup and
  teardown, none in the loop with arena, rings and file in order.
- `SharedInv`: a client that attached after `ftruncate` never faults and sees
  the slots of every engine started since; one that came before may fault.
- `NoGhosts`: whatever a crash left torn, a life that is alone has only its own
  ticks in its slots, and at most the slot of the current tick half written.
- `BlocksSound`: neither a race, a spurious failure nor an offset from before a
  reset takes a block out of the region or makes two of one epoch overlap. What
  does is a request larger than the region that passes because its size wraps:
  its own block, and what is handed out behind it.
- `DriverInv`: the watchdog is over before the members it uses go.
- `DeviceSeesLiveMemory`: `data_ptr` and the IOMMU name memory that exists,
  until a constructor throws.
- `SampledBreachHalts`, `BreachHalts`: a temperature over the limit that was
  sampled halts the hardware, whatever register and owner do meanwhile, unless
  the process ends between the two (the message throws, or the statistics are
  gone); the watchdog halts for nothing less; a breach that lasts is sampled.

`CHECK_DEADLOCK FALSE` stands in the configurations of `XdpPortal`,
`HelaAudit` and `SharedArena` only. The portal really may stop: after a failed
setup, and when every frame is released and the bounds on packets and orders
are used up. The benchmark's process ends when its main thread does. In
`SharedArena` all lives may have ended. In `ShadowLog` and `Lifecycle` the end
of the process is a stuttering action, so that any other state without a step
is reported.

Every property of a passing run has a mutant in `PROJECT.json`: an operator
beside the definition it replaces, with the change a plausible slip would make
(`MutNeverFull`, `MutPublishFirst`, `MutNoDoubleCheck`...), under which TLC
finds the property violated.

## Fairness

- `ShadowLog`: weak fairness of both threads and of the visibility of stores.
  SIGINT need not come. (`SpscRing` is checked as its ring and assumes none of
  its own.)
- `SymbolIndex`: weak fairness of each thread inside a call. `std::shared_mutex`
  promises no preference for writers, so a single call may starve; what holds
  is `SomeCallReturns`.
- `XdpPortal`: `send_order` runs to its end, and a driver that is awake serves
  the ring. No packet has to arrive, and a failed `sendto` may fail for ever.
- `Lifecycle`: `main` and the flusher are scheduled.
- `PorthDriver`: the constructor, the destructor once it has begun, and the
  watchdog are scheduled. Nobody has to use or to destroy the driver.
- `RiskGate`, `Engine`, `SharedArena`, `BumpArena`, `HelaAudit` state no
  liveness and assume no fairness.

## The proofs

Each `M_proofs` module proves theorems about `M` for every value of its
constants under the assumptions `M` names; `ShadowLog_proofs` holds the ring's
too, and `Arenas_proofs` those of `SharedArena` and `BumpArena`. Each theorem
of the form `Spec => []P` goes by an inductive invariant that adds to `P` what
its steps rely on; there is one lemma per action, and the strengthenings were
checked by TLC before they were proved.

| Module | Theorem | Statement |
| --- | --- | --- |
| `ShadowLog_proofs` | `RingInvariant` | `RingSafety => []RingInv` |
| | `RingHasNoSlotRace` | `RingSafety => []NoSlotRace` |
| | `RingImplementsChannel` | `RingSafety => ImplementsChannel` |
| | `ShadowLogUsesRing` | `ShadowSafety => RingSafety` |
| | `EveryRecordAccountedFor` | `ShadowSafety => []ShadowInv` |
| | `ChunksAreAligned` | `ShadowSafety => []FlushAligned` |
| | `SignalLeavesNoRecordBehind` | `ShadowSafety => []StoppedIsSettled` |
| | `OneRecordStaysAtMost` | `ShadowSafety => []OneStraggler` |
| | `RingInvariantInLog` | `ShadowSafety => []RingInv` |
| | `LogHasNoSlotRace` | `ShadowSafety => []NoSlotRace` |
| | `LogRingImplementsChannel` | `ShadowSafety => ImplementsChannel` |
| `SymbolIndex_proofs` | `IndexInvariant` | `IndexSafety => []IndexInv` |
| | `MapHasNoRace` | `IndexSafety => []NoMapRace` |
| | `IdsAreForEver` | `IndexSafety => IdsNeverChange` |
| | `IndexImplementsTable` | `IndexSafety => ImplementsTable` |
| `RiskGate_proofs` | `GateTypeCorrect` | `GateSpec => []GateTypeOK` |
| | `TokenOvershootBounded` | `GateSpec => []TokensOvershoot` |
| | `PositionOvershootBounded` | `GateSpec => []PositionOvershoot` |
| | `ChecksAreSound` | `GateSpec => []GateInv` |
| | `RateOvershootBounded` | `GateSpec => []RateOvershoot` |
| `XdpPortal_proofs` | `FramesHaveOneOwner` | `PortalSafety => []PortalInv` |
| | `CompletionRingHasRoom` | `PortalSafety => []CompletionRoom` |
| | `NoStaleOrder` | `PortalSafety => []WireNeverStale` |
| | `HeldPacketsAreStable` | `PortalSafety => HeldPacketsStable` |
| | `WakeupsAreKept` | `PortalSafety => []NoLostWakeup`, if `Stock > 1` |
| `Engine_proofs` | `AuditPrecedesSignal` | `EngineSpec => []EngineInv` |
| | `RecordsPairWithSignals` | `EngineSpec => []PairsMatch` |
| | `SlotsAreOwned` | `EngineSpec => []SlotHoldsSymbol` |
| `Lifecycle_proofs` | `ScopeStaysInOrder` | `LifeSafety => []LifeInv` |
| | `FlusherKeepsItsObjects` | `LifeSafety => []FlusherOnLiveObjects` |
| | `LoopIsUp` | `LifeSafety => []PollsOnlyWhenUp` |
| | `DeathsAreKnown` | `LifeSafety => []KnownDeaths` |
| `Arenas_proofs` | `ClientsKeepTheArena` | `ArenaSpec => []SharedInv` |
| | `NothingSurvivesAStart` | `ArenaSpec => []NoGhosts` |
| | `BlocksAreSound` | `BumpSpec => []BlocksSound` |
| `PorthDriver_proofs` | `WatchdogHasADriver` | `DriverSpec => []DriverInv` |
| | `DriverGivesMemoryBack` | `DriverSpec => []DeviceSeesLiveMemory` |
| | `BreachIsFinal` | `DriverSpec => []SampledBreachHalts` |

**The ring.** `NoSlotRace` alone is not inductive: it says nothing of how far
the views lag. `RingInv` adds that the four indices keep the order `tailVis`,
`tail`, `headVis`, `head` within one lap (`IndexOrder`), that a push past its
check still has room by its own view (`RoomHeld`) and a pop past its check an
item (`ItemHeld`), and what the slots hold (`WriteHeld`, `CopyFaithful`,
`Written`). A race would need `head = tail` with a push past its check and a
pop past its check; the pop has `headVis # tail`, so that the order forces a
full lap, which `RoomHeld` excludes. The proof rests on lemmas about `Plus` and
`Dist` (one step nearer, one step farther, walking round the ring). For the
refinement, `Stretch(i, n)` is the n slots from i on. Lemmas say what happens
to it when an item is appended or taken and that a write outside of it changes
nothing. Each action is then a step of the channel (`PublishIsSend`,
`HeadArrivesIsDeliver`, `ReleaseIsReceive`, `TailArrivesIsReturn`,
`RefusedIsRefuse`) or a stutter (`OtherStepsStutter`).

**The shadow log.** Its steps are steps of the ring (`ShadowStepIsRingStep`),
so `RingInv` comes for free, and with it the ring's theorems
(`ShadowLogUsesRing`, and from it `RingInvariantInLog`, `LogHasNoSlotRace` and
`LogRingImplementsChannel`, which are what the run checks). `ShadowInd` adds
where each record is: the slots between `tail` and `head` are the accepted
records behind the `Popped` first, in order, and the flusher's hand is the last
of those (`InRing`); the file is a prefix (`Copied`); nothing offered is
missing (`Counted`). For the signal it follows the flusher's knowledge, `Seen`,
the records popped and those its view of `m_head` shows: while the flag is on
its way `Seen` and the distance to `stopHead` make up `stopCount`, so a flag
that arrives when the view is at `stopHead` finds `Seen = stopCount`, and a
flusher that then leaves on an empty view has settled as many (`Arriving`).
After the signal `main` finishes the step it is in and no other (`LastStep`).
`ShadowAssumption` says that fewer than `DropMod` records are offered: with
2^64 refusals `m_drop_count` wraps.

**The symbol index.** `IndexInv` is inductive. `LocksHeld` ties each place in
the code to the lock held there and says that a writer excludes readers, which
`NoMapRace` needs; `StillAbsent` carries what the double-check found to the
insertion, which `IdsNeverChange` and the uniqueness in `DenseIds` need. In the
refinement the instant of a call is the lookup that finds its key, the check
that finds no id left, or the insertion; `fetch_add` is hidden by counting an
id as used only once it is inserted, and `KeyInjective` (64-bit keys of two
sources never meet) turns an update of the map into an update of the table.

**The risk gate.** `TokensOvershoot` speaks of the bucket alone; what matters
is how many traders may still take a token. `Armed` is the set of those that
saw one and have not failed since, and `TokensCover` bounds its cardinality by
the tokens plus one for each other trader. A trader is armed only when there is
a token; booking takes a token and a member; a refill covers everybody, unless
the bucket has size 0, when nobody is ever armed. For the position each side is
treated alike: among the traders that saw the position within its limit and may
still book (`Committed`), there is one, the last to look, whose own order fits
in what is left when each other one takes an order of full size (`Covered`).
Joining makes the newcomer that one; leaving hands the role on or keeps it;
what the other side books only helps. `LimitsFit` assumes the word wide enough
for the overshoot itself, so that the unsigned comparison is the plain one at
every position reached. `ChecksAreSound` rests on that bound, and for the price
on `PricesFit`: no drift times 10000, with the band on top, reaches `Word`. At
the band of 500 in `main.cpp`, and prices at 8 decimals as `types.hpp` has
them, that means positive prices up to about 17 million. `check` itself tests
nothing of the kind: beyond it the product wraps.

`RateOvershoot` needs to know what can still come. Within the window,
`sends + (tokens + Others)` plus one bucket for a refill decided before the
window and not yet stored (`LateRefill`), plus one for the refill the window
may have of its own (`OwnRefill`), stays within three buckets (`RateInv`). A
booking moves one from the tokens to the sends; a refill stored late uses up
the first reserve, one decided inside the window the second, and there is no
third: the next needs a reading more than `Period` after the last, which the
window does not have.

**The portal.** As nothing returns to the fill ring, frames pass through in the
order of their addresses: the fill ring is the last ones, then the RX ring,
then what the client has or had (`InOrder`). One owner per frame, and stable
packets, follow. `Submitted` numbers the orders behind the template, so that
what the NIC reads is never older than what it sends; `RoomToSubmit` carries
the room `complete_tx` made to the submit. `WakeInv` follows an order from the
submit to the kick. It needs more than one entry: on a ring of one, an order
refused because the ring is full goes home without a kick, and the one on the
ring may be forgotten.

**The engine.** The counts of `AuditLeads` are not inductive by themselves: a
record that is dropped must not count for an older one. `EngineInd` adds that
both histories hold numbers of polled frames only and do not have the frame of
the current step before its push (`Past`), and splits the counts at the two
pushes (`Between`): a frame past its audit push is in the history or is one of
the drops, over and above those that earlier descriptors account for. For the
slots it adds that ids are handed out densely and once (`Dense`), so that a new
symbol gets a slot nobody has, slot 0 included, and only a full index sends one
to slot 0. `EngineAssumption` asks for frames with whole numbers for price and
quantity.

**The life cycle.** `LifeInd` says how many locals main has at each place
(`Depth`), that they are the first ones of `Objects` (`Prefix`), and what the
setup has achieved by then (`Stages`): the thread is joinable only at places
from which, with the memory there, every way out leads through `join`.
`BuildsNext` and `PopsLast` are the two ways `scope` changes. Failed returns
have code 1 and no stimulator (`Stimulated`), and a process that has died keeps
the place and the state it died in, which leaves the deaths of `KnownDeaths`
(`DeathKeepsLifeInd`). The proof is for any number of workers, and for hosts
with and without NUMA.

**The arenas.** For `SharedArena` there is only ever one object (`OneObject`),
which is why clients need not attach again. A life without company
(`Alone`) zeroes a growing prefix that nobody else touches (`Swept`), and its
tick stores and reads its own (`MidTick`). For `BumpArena` the blocks of this
epoch lie below the offset (`Below`) as long as no oversized request came after
them (`Trusted`), and an exchange succeeds only at the offset its block was
computed from; the weak exchange and the stale offsets change nothing in that.
`NoWrap` is the arithmetic: a request that is not larger than the region wraps
neither the product nor the sum. It needs a region of less than half the word
(`BumpAssumption`).

**The driver.** `Memory` follows the shuttles through constructor and
destructor, `Started` says when the watchdog can exist, and `Sampled` what it
holds between a sample and the halt: a breach it has seen is either in its
hand or already on the control register, in a process that has ended too.

**Only model-checked.** Liveness (`AuditReachesFile`, `StopEnds`,
`SomeCallReturns`, `OrderLeaves`, `SigintEnds`, `BreachHalts`, `NobodyHangs`)
is out of the prover's reach, as is everything that needs ENABLED. Every other
property of a passing run is stated by a theorem above. The runs that expect a
violation show one behaviour each and have nothing to prove.

## Where code and comments disagree

| Run | What the code does |
| --- | --- |
| `xdp_template` | `open` stocks the fill ring from UMEM offset 0, where `main` keeps the "Hot Template": a received packet overwrites it. |
| `engine_band` | `step` stores the tick's price as reference before it checks the tick against the reference: the 5% band never rejects anything. |
| `hela_twice` | Two threads pop an "SPSC" audit ring, and a record comes out twice. |

Four more have no run of their own. Each is a limit of a property that holds,
and the property names it:

- `OneStraggler`: one record may stay behind after the "Final flush for
  remaining data" of `audit_flusher.hpp`.
- `KnownDeaths`: with `--stimulate` the end that `main` announces as "Shutting
  down gracefully..." is a `std::terminate`, since nobody stops the stimulator's
  threads.
- `SampledBreachHalts`: only a sampled breach halts the hardware. The destructor
  of `porth::Driver`, which "ensures graceful hardware shutdown", never writes
  the control register that line 98 calls the shutdown.
- `BlocksSound`: `BuanArena` "manages memory within the HugePage region", yet a
  count whose size in bytes wraps is answered with a block that no region holds.

## What is not modelled

- `AtomicSequence` has no caller, and one `fetch_add` is all of it.
- `VolSurface` is built by the engine and neither filled nor queried; it is a
  sequential lookup over floating-point values.
- The rolling statistics of the engine and the arena, the feature factory and
  the z-score are floating-point arithmetic, out of TLC's reach. Where a
  decision depends on one (the panic limit) the outcome is left open.
- `parse_batch` and the delta kernel of the parser have no caller.
- The Python views read the arena's plain floats while the engine writes them;
  no decision in the code depends on what they see.
- The XDP gatekeeper (`xdp_kern.c`) decides on each packet alone and keeps no
  state of its own. Nothing in the repository loads it: the portal opens its
  socket with `libxdp_flags` 0, which attaches libxdp's default program.
- The scripts, dashboards and build files are I/O and configuration.
- Byte offsets, formats, latency measurement and logging are left out.

## The plan

The modules were written in the order ring, shadow log, symbol index, risk
gate, portal, engine, life cycle, benchmark, then the arenas and the driver:
the concurrent core first, then what composes it, then the code that stands
beside it. The safety properties were then proved in about the same order, the
engine and the life cycle last. Left:

1. The engine over `SpscRing` and `SymbolIndex` themselves, where `Engine` now
   relies on the channel and the table that they are proved to implement.
2. The readers in Python beside the writer of the arena, once a decision
   depends on what they read; `VolSurface` once the engine queries it.
