------------------------------- MODULE BumpArena -------------------------------
(***************************************************************************)
(* BuanArena (include/buan/core/arena_allocator.hpp,                       *)
(* src/core/arena_allocator.cpp): allocate claims the next 64-byte aligned *)
(* block by a weak compare-and-swap on one offset, which reset rewinds.    *)
(* No thread of the repository allocates from it yet; the threads here are *)
(* the callers its comment has in mind.                                    *)
(*                                                                         *)
(* size_t wraps: sizeof(T) * count may come out small, and so may aligned  *)
(* + bytes_needed, and the request then passes for a small one.            *)
(***************************************************************************)
EXTENDS Naturals

CONSTANTS
  Threads,
  Capacity,  \* m_capacity
  Word,      \* 2^64 in the code: size_t counts modulo Word
  SizeOf,    \* sizeof(T)
  Counts,    \* the counts the callers ask for
  MaxClaims, \* bound: blocks handed out
  MaxEpoch   \* bound: resets

ASSUME BumpAssumption ==
  /\ Capacity \in Nat /\ Word \in Nat
  /\ 2 * Capacity + 64 <= Word   \* a region takes less than half of all addresses
  /\ SizeOf \in Nat \ {0} /\ Counts \subseteq 0 .. Word - 1
  /\ MaxClaims \in Nat /\ MaxEpoch \in Nat

VARIABLES
  offset,  \* m_offset
  at,      \* where each thread is in allocate
  count,   \* count in each thread's allocate
  current, \* current in each thread's allocate
  blocks,  \* history: the blocks handed out, as long as their callers asked
  claims,  \* history: how many
  epoch    \* history: resets so far

bumpVars == <<offset, at, count, current, blocks, claims, epoch>>

BumpInit ==
  /\ offset = 0 /\ at = [t \in Threads |-> "idle"]
  /\ count = [t \in Threads |-> 0] /\ current = [t \in Threads |-> 0]
  /\ blocks = {} /\ claims = 0 /\ epoch = 0

(* (x + 63) & ~63                                                          *)
AlignUp(x) == (x + 63) - ((x + 63) % 64)

Asked(t) == SizeOf * count[t]
BytesNeeded(t) == Asked(t) % Word
End(t) == (AlignUp(current[t]) + BytesNeeded(t)) % Word
Fits(t) == End(t) <= Capacity

--------------------------------------------------------------------------------
Load(t) ==
  /\ at[t] = "idle"
  /\ \E n \in Counts : count' = [count EXCEPT ![t] = n]
  /\ current' = [current EXCEPT ![t] = offset]
  /\ at' = [at EXCEPT ![t] = "try"]
  /\ UNCHANGED <<offset, blocks, claims, epoch>>

OutOfMemory(t) ==
  /\ at[t] = "try" /\ ~Fits(t)
  /\ at' = [at EXCEPT ![t] = "idle"]
  /\ UNCHANGED <<offset, count, current, blocks, claims, epoch>>

(* What the exchange does to the offset and what the caller gets: base +   *)
(* aligned, for as many bytes as it asked.                                 *)
Take(t) ==
  /\ offset' = End(t) /\ claims' = claims + 1
  /\ at' = [at EXCEPT ![t] = "idle"]
  /\ blocks' = blocks \cup {[lo |-> AlignUp(current[t]), bytes |-> Asked(t),
                             nth |-> claims, epoch |-> epoch]}
  /\ UNCHANGED <<count, current, epoch>>

MutStore(t) ==                   \* m_offset.store instead of the exchange
  /\ at[t] = "try" /\ Fits(t) /\ claims < MaxClaims
  /\ Take(t)

Exchange(t) ==
  /\ at[t] = "try" /\ Fits(t) /\ claims < MaxClaims
  /\ offset = current[t]
  /\ Take(t)

(* The exchange found another value, or failed for no reason: try again    *)
(* from the value it found.                                                *)
Retry(t) ==
  /\ at[t] = "try" /\ Fits(t)
  /\ current' = [current EXCEPT ![t] = offset]
  /\ UNCHANGED <<offset, at, count, blocks, claims, epoch>>

Reset ==
  /\ epoch < MaxEpoch
  /\ offset' = 0 /\ epoch' = epoch + 1
  /\ UNCHANGED <<at, count, current, blocks, claims>>

BumpNext == (\E t \in Threads : Load(t) \/ OutOfMemory(t) \/ Exchange(t) \/ Retry(t)) \/ Reset

BumpSpec == BumpInit /\ [][BumpNext]_bumpVars

--------------------------------------------------------------------------------
(* The values of the variables.                                            *)
BumpTypeOK ==
  /\ offset \in 0 .. Capacity /\ at \in [Threads -> {"idle", "try"}]
  /\ count \in [Threads -> 0 .. Word - 1] /\ current \in [Threads -> 0 .. Capacity]
  /\ claims \in Nat /\ epoch \in Nat

(* A request no region of this size can meet.  allocate refuses it, or     *)
(* lets it pass when the arithmetic wraps.                                 *)
Oversized(b) == b.bytes > Capacity

(* Every block is aligned, and lies in the region unless its request was   *)
(* oversized.                                                              *)
InRegion ==
  \A b \in blocks : b.lo % 64 = 0 /\ (~Oversized(b) => b.lo + b.bytes <= Capacity)

(* Two blocks handed out between two resets do not overlap, however the    *)
(* threads race, fail spuriously, or come back with an offset from before  *)
(* a reset, unless an oversized request passed between them, the earlier   *)
(* of the two included.                                                    *)
Disjoint ==
  \A b, c \in blocks :
    /\ b.epoch = c.epoch /\ b.nth < c.nth
    /\ \A d \in blocks : b.nth <= d.nth /\ d.nth < c.nth => ~Oversized(d)
    => b.lo + b.bytes <= c.lo

(* The blocks BuanArena::allocate hands out can be used: the harm of a     *)
(* request that wraps is its own block and what is handed out beyond it,   *)
(* and no race adds to it.                                                 *)
BlocksSound == BumpTypeOK /\ InRegion /\ Disjoint
================================================================================
