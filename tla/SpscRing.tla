-------------------------------- MODULE SpscRing --------------------------------
(***************************************************************************)
(* BuanRingBuffer (include/buan/core/ring_buffer.hpp): the lock-free ring  *)
(* between one producer thread and one consumer thread.                    *)
(*                                                                         *)
(* A thread owns one index and reads the other thread's.  The two indices  *)
(* are C++ atomics stored with release and loaded with acquire: a load     *)
(* may return a value that is out of date, never one older than a value    *)
(* the same thread has already seen.  headVis is the m_head the consumer's *)
(* core sees and tailVis the m_tail the producer's core sees; each trails  *)
(* the real index and catches up one store at a time.                      *)
(*                                                                         *)
(* push loads m_tail and decides; then writes the slot; then publishes.    *)
(* pop loads m_head and decides; then copies the slot; then releases it.   *)
(***************************************************************************)
EXTENDS Naturals, Sequences

CONSTANTS
  Size,     \* SIZE: slots of the buffer
  Values,   \* descriptors that can be pushed
  NoValue,  \* contents of a slot never written (aligned_alloc does not clear)
  DropMod   \* m_drop_count counts modulo DropMod (2^64 in the code)

ASSUME RingAssumption ==
  /\ Size \in Nat \ {0} /\ DropMod \in Nat \ {0}
  /\ NoValue \notin Values

ASSUME SizeIsPowerOfTwo == \E k \in 0 .. Size : Size = 2 ^ k

VARIABLES
  slots,     \* m_buffer
  head,      \* m_head
  tail,      \* m_tail
  headVis,   \* m_head as the consumer's core sees it
  tailVis,   \* m_tail as the producer's core sees it
  dropCount, \* m_drop_count
  pushPc,    \* where the producer is in push
  item,      \* push's argument
  popPc,     \* where the consumer is in pop
  out        \* pop's out_desc

prodVars == <<head, dropCount, pushPc, item>>
consVars == <<tail, popPc, out>>
ringVars == <<slots, head, tail, headVis, tailVis, dropCount,
              pushPc, item, popPc, out>>

Index == 0 .. Size - 1

(* (i + k) & (SIZE - 1), for an index i and 0 <= k <= SIZE.  SIZE is a     *)
(* power of two, so the mask is the remainder.                             *)
Plus(i, k) == IF i + k < Size THEN i + k ELSE i + k - Size

(* (j - i) & (SIZE - 1): how far j is ahead of i on the ring.              *)
Dist(i, j) == IF i <= j THEN j - i ELSE j - i + Size

RingInit ==
  /\ slots = [i \in Index |-> NoValue]
  /\ head = 0 /\ tail = 0 /\ headVis = 0 /\ tailVis = 0
  /\ dropCount = 0
  /\ pushPc = "idle" /\ item = NoValue
  /\ popPc = "idle" /\ out = NoValue

--------------------------------------------------------------------------------
(* The producer thread.  m_head and m_drop_count have no other writer.     *)

MutNeverFull == FALSE            \* the full-check dropped
ProducerSeesFull == Plus(head, 1) = tailVis

PushRefused ==
  /\ pushPc = "idle"
  /\ ProducerSeesFull
  /\ dropCount' = (dropCount + 1) % DropMod
  /\ UNCHANGED <<slots, head, tail, headVis, tailVis, pushPc, item, popPc, out>>

PushAdmit(d) ==
  /\ pushPc = "idle"
  /\ ~ProducerSeesFull
  /\ pushPc' = "write" /\ item' = d
  /\ UNCHANGED <<slots, head, tail, headVis, tailVis, dropCount, popPc, out>>

MutPublishFirst ==               \* m_head stored before the slot is written
  /\ pushPc = "write"
  /\ head' = Plus(head, 1)
  /\ pushPc' = "publish"
  /\ UNCHANGED <<slots, tail, headVis, tailVis, dropCount, item, popPc, out>>

PushWrite ==
  /\ pushPc = "write"
  /\ slots' = [slots EXCEPT ![head] = item]
  /\ pushPc' = "publish"
  /\ UNCHANGED <<head, tail, headVis, tailVis, dropCount, item, popPc, out>>

PushPublish ==
  /\ pushPc = "publish"
  /\ head' = Plus(head, 1)
  /\ pushPc' = "idle"
  /\ UNCHANGED <<slots, tail, headVis, tailVis, dropCount, item, popPc, out>>

--------------------------------------------------------------------------------
(* The consumer thread.  m_tail has no other writer.                       *)

ConsumerSeesEmpty == headVis = tail

PopAdmit ==
  /\ popPc = "idle"
  /\ ~ConsumerSeesEmpty
  /\ popPc' = "read"
  /\ UNCHANGED <<slots, head, tail, headVis, tailVis, dropCount, pushPc, item, out>>

PopRead ==
  /\ popPc = "read"
  /\ out' = slots[tail]
  /\ popPc' = "release"
  /\ UNCHANGED <<slots, head, tail, headVis, tailVis, dropCount, pushPc, item>>

MutReleaseAll ==                 \* frees all the consumer has seen
  /\ popPc = "release"
  /\ tail' = headVis
  /\ popPc' = "idle"
  /\ UNCHANGED <<slots, head, headVis, tailVis, dropCount, pushPc, item, out>>

PopRelease ==
  /\ popPc = "release"
  /\ tail' = Plus(tail, 1)
  /\ popPc' = "idle"
  /\ UNCHANGED <<slots, head, headVis, tailVis, dropCount, pushPc, item, out>>

--------------------------------------------------------------------------------
(* The memory system: a released store reaches the other core.             *)

HeadReachesConsumer ==
  /\ headVis # head
  /\ headVis' = Plus(headVis, 1)
  /\ UNCHANGED <<slots, head, tail, tailVis, dropCount, pushPc, item, popPc, out>>

TailReachesProducer ==
  /\ tailVis # tail
  /\ tailVis' = Plus(tailVis, 1)
  /\ UNCHANGED <<slots, head, tail, headVis, dropCount, pushPc, item, popPc, out>>

--------------------------------------------------------------------------------
Producer == PushRefused \/ (\E d \in Values : PushAdmit(d)) \/ PushWrite \/ PushPublish
Consumer == PopAdmit \/ PopRead \/ PopRelease
Memory   == HeadReachesConsumer \/ TailReachesProducer

RingNext == Producer \/ Consumer \/ Memory

RingSafety == RingInit /\ [][RingNext]_ringVars

--------------------------------------------------------------------------------
(* The values of the variables.                                            *)
RingTypeOK ==
  /\ slots \in [Index -> Values \cup {NoValue}]
  /\ head \in Index /\ tail \in Index /\ headVis \in Index /\ tailVis \in Index
  /\ dropCount \in 0 .. DropMod - 1
  /\ pushPc \in {"idle", "write", "publish"} /\ item \in Values \cup {NoValue}
  /\ popPc \in {"idle", "read", "release"} /\ out \in Values \cup {NoValue}

(* The descriptors are plain memory: the producer must never be writing    *)
(* the slot the consumer is copying (m_buffer[h] = desc against            *)
(* out_desc = m_buffer[t]), even when both act on stale indices.           *)
NoSlotRace == ~(pushPc = "write" /\ popPc = "read" /\ head = tail)

(* Round the ring, the four indices keep the order                         *)
(* tailVis, tail, headVis, head, within one lap.                           *)
IndexOrder ==
  Dist(tailVis, tail) + Dist(tail, headVis) + Dist(headVis, head) = Dist(tailVis, head)

(* A push past its full-check still has a free slot in front of head.      *)
RoomHeld == pushPc # "idle" => /\ Plus(head, 1) # tailVis
                               /\ item \in Values

(* A pop past its empty-check still has a slot to copy, and a copy that    *)
(* was made is the contents of that slot until it is released.             *)
ItemHeld == popPc # "idle" => headVis # tail
CopyFaithful == popPc = "release" => out = slots[tail]

(* The slot a push wrote is the one it is about to publish.                *)
WriteHeld == pushPc = "publish" => slots[head] = item

(* Every slot between tail and head holds a descriptor that was pushed.    *)
Written == \A k \in 0 .. Size - 1 : k < Dist(tail, head) => slots[Plus(tail, k)] \in Values

RingInv == /\ RingTypeOK /\ IndexOrder /\ RoomHeld /\ ItemHeld
           /\ CopyFaithful /\ WriteHeld /\ Written

--------------------------------------------------------------------------------
(* The ring implements the channel.                                        *)

Stretch(i, n) == [k \in 1 .. n |-> slots[Plus(i, k - 1)]]

Channel == INSTANCE CreditChannel WITH
  Capacity  <- Size - 1,
  transit   <- Stretch(headVis, Dist(headVis, head)),
  ready     <- Stretch(tail, Dist(tail, headVis)),
  credits   <- Size - 1 - Dist(tailVis, head),
  returning <- Dist(tailVis, tail),
  refused   <- dropCount

(* push and pop never lose, duplicate, reorder or alter a descriptor, and  *)
(* a push is refused only when the producer knows of no free slot.         *)
ImplementsChannel == Channel!ChanSpec
================================================================================
