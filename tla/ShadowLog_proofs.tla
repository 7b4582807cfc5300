---------------------------- MODULE ShadowLog_proofs ----------------------------
(***************************************************************************)
(* The ring and the shadow log for every ring, file and chunk size and any *)
(* number of records.                                                      *)
(*                                                                         *)
(* First SpscRing alone, with every set of descriptors and every counter   *)
(* width: RingInv is inductive, it excludes a race on a slot, and the ring *)
(* implements the channel of CreditChannel.  Then ShadowLog: the poll loop *)
(* and the flusher use the ring as SpscRing allows, every record is        *)
(* accounted for, the chunks are aligned, and a SIGINT leaves at most one  *)
(* record behind.                                                          *)
(***************************************************************************)
EXTENDS ShadowLog, SequenceTheorems, TLAPS

--------------------------------------------------------------------------------
(* Arithmetic on the ring. *)

(* Adding at most a lap to an index gives an index. *)
LEMMA PlusIsIndex ==
  ASSUME NEW i \in Index, NEW k \in 0 .. Size
  PROVE  Plus(i, k) \in Index
BY RingAssumption DEF Index, Plus

(* The distance between two indices is less than a lap. *)
LEMMA DistIsIndex ==
  ASSUME NEW i \in Index, NEW j \in Index
  PROVE  Dist(i, j) \in Index
BY RingAssumption DEF Index, Dist

(* Moving the far end on by one position lengthens the distance by one,    *)
(* unless the far end catches up with the near end.                        *)
LEMMA DistFarStep ==
  ASSUME NEW i \in Index, NEW j \in Index, Plus(j, 1) # i
  PROVE  Dist(i, Plus(j, 1)) = Dist(i, j) + 1
BY RingAssumption DEF Index, Plus, Dist

(* Moving the near end on by one position shortens the distance by one. *)
LEMMA DistNearStep ==
  ASSUME NEW i \in Index, NEW j \in Index, i # j
  PROVE  Dist(Plus(i, 1), j) = Dist(i, j) - 1
BY RingAssumption DEF Index, Plus, Dist

(* Two positions are at distance 0 exactly when they are equal. *)
LEMMA DistZero ==
  ASSUME NEW i \in Index, NEW j \in Index
  PROVE  Dist(i, j) = 0 <=> i = j
BY RingAssumption DEF Index, Dist

(* The position Dist(i, j) beyond i is j, and no nearer one is. *)
LEMMA PlusDist ==
  ASSUME NEW i \in Index, NEW j \in Index
  PROVE  /\ Plus(i, Dist(i, j)) = j
         /\ \A k \in Index : k < Dist(i, j) => Plus(i, k) # j
BY RingAssumption DEF Index, Plus, Dist

(* A position one beyond Plus(i, 1) is two beyond i, and so on. *)
LEMMA PlusShift ==
  ASSUME NEW i \in Index, NEW k \in 0 .. Size - 1
  PROVE  Plus(Plus(i, 1), k) = Plus(i, k + 1)
BY RingAssumption DEF Index, Plus

(* The indices are in order and the consumer has something to read, so the *)
(* producer's slot is not the consumer's.                                  *)
LEMMA HeadIsNotTail ==
  ASSUME RingTypeOK, IndexOrder, headVis # tail
  PROVE  head # tail
BY RingAssumption DEF RingTypeOK, IndexOrder, Index, Dist

--------------------------------------------------------------------------------
(* The inductive invariant. *)

LEMMA InitEstablishesRingInv == RingInit => RingInv
<1> SUFFICES ASSUME RingInit PROVE RingInv
    OBVIOUS
<1> USE DEF RingInit
<1>1. RingTypeOK
  BY RingAssumption DEF RingTypeOK, Index
<1>2. IndexOrder
  BY RingAssumption DEF IndexOrder, Dist
<1>3. Dist(tail, head) = 0
  BY DEF Dist
<1>4. Written
  BY <1>3 DEF Written
<1> QED
  BY <1>1, <1>2, <1>4 DEF RingInv, RoomHeld, ItemHeld, CopyFaithful, WriteHeld

LEMMA PushRefusedKeepsRingInv == RingInv /\ PushRefused => RingInv'
<1> SUFFICES ASSUME RingInv, PushRefused PROVE RingInv'
    OBVIOUS
<1>1. (dropCount + 1) % DropMod \in 0 .. DropMod - 1
  BY RingAssumption, SMTT(30) DEF RingInv, RingTypeOK
<1>2. RingTypeOK'
  BY <1>1 DEF RingInv, RingTypeOK, PushRefused
<1> QED
  BY <1>2 DEF RingInv, PushRefused, IndexOrder, RoomHeld, ItemHeld, CopyFaithful,
              WriteHeld, Written

LEMMA PushAdmitKeepsRingInv ==
  ASSUME RingInv, NEW d \in Values, PushAdmit(d)
  PROVE  RingInv'
<1>1. RingTypeOK'
  BY DEF RingInv, RingTypeOK, PushAdmit
<1>2. RoomHeld'
  BY DEF RoomHeld, PushAdmit, ProducerSeesFull
<1> QED
  BY <1>1, <1>2 DEF RingInv, PushAdmit, IndexOrder, ItemHeld, CopyFaithful,
                    WriteHeld, Written

LEMMA PushWriteKeepsRingInv == RingInv /\ PushWrite => RingInv'
<1> SUFFICES ASSUME RingInv, PushWrite PROVE RingInv'
    OBVIOUS
<1> USE DEF RingInv, PushWrite
<1>1. item \in Values
  BY DEF RoomHeld
<1>2. RingTypeOK'
  BY <1>1 DEF RingTypeOK
<1>3. IndexOrder' /\ RoomHeld' /\ ItemHeld'
  BY DEF IndexOrder, RoomHeld, ItemHeld
<1>4. CopyFaithful'
  BY HeadIsNotTail DEF CopyFaithful, ItemHeld, RingTypeOK
<1>5. WriteHeld'
  BY DEF WriteHeld, RingTypeOK
<1>6. Written'
  <2> SUFFICES ASSUME NEW k \in 0 .. Size - 1, k < Dist(tail, head)
               PROVE  slots'[Plus(tail, k)] \in Values
    BY DEF Written
  <2>1. Plus(tail, k) \in Index
    BY RingAssumption, PlusIsIndex DEF RingTypeOK, Index
  <2>2. slots[Plus(tail, k)] \in Values
    BY DEF Written
  <2> QED
    BY <1>1, <2>1, <2>2 DEF RingTypeOK
<1> QED
  BY <1>2, <1>3, <1>4, <1>5, <1>6

LEMMA PushPublishKeepsRingInv == RingInv /\ PushPublish => RingInv'
<1> SUFFICES ASSUME RingInv, PushPublish PROVE RingInv'
    OBVIOUS
<1> USE DEF RingInv, PushPublish
<1>1. Plus(head, 1) \in Index /\ Plus(head, 1) # tailVis
  BY RingAssumption, PlusIsIndex DEF RingTypeOK, RoomHeld
<1>2. RingTypeOK'
  BY <1>1 DEF RingTypeOK
<1>3. IndexOrder' /\ Dist(tail, head') = Dist(tail, head) + 1
  BY <1>1, RingAssumption DEF RingTypeOK, IndexOrder, Index, Dist, Plus
<1>4. Written'
  <2> SUFFICES ASSUME NEW k \in 0 .. Size - 1, k < Dist(tail, head) + 1
               PROVE  slots[Plus(tail, k)] \in Values
    BY <1>3 DEF Written
  <2>1. Dist(tail, head) \in Index
    BY DistIsIndex DEF RingTypeOK
  <2>2. CASE k < Dist(tail, head)
    BY <2>2 DEF Written
  <2>3. CASE k = Dist(tail, head)
    BY <2>3, PlusDist DEF WriteHeld, RoomHeld, RingTypeOK
  <2> QED
    BY <2>1, <2>2, <2>3, RingAssumption DEF Index
<1> QED
  BY <1>2, <1>3, <1>4 DEF RoomHeld, ItemHeld, CopyFaithful, WriteHeld

LEMMA PopAdmitKeepsRingInv == RingInv /\ PopAdmit => RingInv'
<1> SUFFICES ASSUME RingInv, PopAdmit PROVE RingInv'
    OBVIOUS
<1>1. RingTypeOK'
  BY DEF RingInv, RingTypeOK, PopAdmit
<1>2. ItemHeld'
  BY DEF ItemHeld, PopAdmit, ConsumerSeesEmpty
<1> QED
  BY <1>1, <1>2 DEF RingInv, PopAdmit, IndexOrder, RoomHeld, CopyFaithful,
                    WriteHeld, Written

LEMMA PopReadKeepsRingInv == RingInv /\ PopRead => RingInv'
<1> SUFFICES ASSUME RingInv, PopRead PROVE RingInv'
    OBVIOUS
<1>1. RingTypeOK'
  BY DEF RingInv, RingTypeOK, PopRead
<1> QED
  BY <1>1 DEF RingInv, PopRead, IndexOrder, RoomHeld, ItemHeld, CopyFaithful,
              WriteHeld, Written

LEMMA PopReleaseKeepsRingInv == RingInv /\ PopRelease => RingInv'
<1> SUFFICES ASSUME RingInv, PopRelease PROVE RingInv'
    OBVIOUS
<1> USE DEF RingInv, PopRelease
<1>1. Plus(tail, 1) \in Index
  BY RingAssumption, PlusIsIndex DEF RingTypeOK
<1>2. RingTypeOK'
  BY <1>1 DEF RingTypeOK
<1>3. headVis # tail
  BY DEF ItemHeld
<1>4. IndexOrder' /\ Dist(tail', head) = Dist(tail, head) - 1
  BY <1>3, RingAssumption DEF RingTypeOK, IndexOrder, Index, Dist, Plus
<1>5. Written'
  <2> SUFFICES ASSUME NEW k \in 0 .. Size - 1, k < Dist(tail, head) - 1
               PROVE  slots[Plus(Plus(tail, 1), k)] \in Values
    BY <1>4 DEF Written
  <2>1. Dist(tail, head) \in Index
    BY DistIsIndex DEF RingTypeOK
  <2>2. k + 1 \in 0 .. Size - 1 /\ k + 1 < Dist(tail, head)
    BY <2>1, RingAssumption DEF Index
  <2>3. slots[Plus(tail, k + 1)] \in Values
    BY <2>2 DEF Written
  <2> QED
    BY <2>3, PlusShift DEF RingTypeOK
<1> QED
  BY <1>2, <1>4, <1>5 DEF RoomHeld, ItemHeld, CopyFaithful, WriteHeld

LEMMA MemoryKeepsRingInv == RingInv /\ Memory => RingInv'
<1> SUFFICES ASSUME RingInv, Memory PROVE RingInv'
    OBVIOUS
<1> USE DEF RingInv
<1>1. CASE HeadReachesConsumer
  <2> USE <1>1 DEF HeadReachesConsumer
  <2>1. Plus(headVis, 1) \in Index
    BY RingAssumption, PlusIsIndex DEF RingTypeOK
  <2>2. RingTypeOK'
    BY <2>1 DEF RingTypeOK
  <2>3. IndexOrder' /\ headVis' # tail
    BY RingAssumption DEF RingTypeOK, IndexOrder, Index, Dist, Plus
  <2> QED
    BY <2>2, <2>3 DEF RoomHeld, ItemHeld, CopyFaithful, WriteHeld, Written
<1>2. CASE TailReachesProducer
  <2> USE <1>2 DEF TailReachesProducer
  <2>1. Plus(tailVis, 1) \in Index
    BY RingAssumption, PlusIsIndex DEF RingTypeOK
  <2>2. RingTypeOK'
    BY <2>1 DEF RingTypeOK
  <2>3. IndexOrder' /\ Plus(head, 1) # tailVis'
    BY RingAssumption DEF RingTypeOK, IndexOrder, Index, Dist, Plus
  <2> QED
    BY <2>2, <2>3 DEF RoomHeld, ItemHeld, CopyFaithful, WriteHeld, Written
<1> QED
  BY <1>1, <1>2 DEF Memory

LEMMA StepKeepsRingInv == RingInv /\ [RingNext]_ringVars => RingInv'
<1> SUFFICES ASSUME RingInv, [RingNext]_ringVars PROVE RingInv'
    OBVIOUS
<1>1. CASE Producer
  BY <1>1, PushRefusedKeepsRingInv, PushAdmitKeepsRingInv, PushWriteKeepsRingInv,
     PushPublishKeepsRingInv DEF Producer
<1>2. CASE Consumer
  BY <1>2, PopAdmitKeepsRingInv, PopReadKeepsRingInv, PopReleaseKeepsRingInv DEF Consumer
<1>3. CASE Memory
  BY <1>3, MemoryKeepsRingInv
<1>4. CASE UNCHANGED ringVars
  BY <1>4 DEF ringVars, RingInv, RingTypeOK, IndexOrder, RoomHeld, ItemHeld,
              CopyFaithful, WriteHeld, Written
<1> QED
  BY <1>1, <1>2, <1>3, <1>4 DEF RingNext

(* In every reachable state of a push on one core and a pop on the other,  *)
(* acting on indices as stale as the memory allows, RingInv holds.         *)
THEOREM RingInvariant == RingSafety => []RingInv
BY InitEstablishesRingInv, StepKeepsRingInv, PTL DEF RingSafety

(* m_buffer[h] = desc and out_desc = m_buffer[t] never touch the same slot *)
(* at the same time, so the plain descriptors are free of data races.      *)
THEOREM RingHasNoSlotRace == RingSafety => []NoSlotRace
<1>1. RingInv => NoSlotRace
  BY HeadIsNotTail DEF RingInv, ItemHeld, NoSlotRace
<1> QED
  BY <1>1, RingInvariant, PTL

--------------------------------------------------------------------------------
(* The stretches of the ring that stand for the channel's two queues. *)

(* A stretch without its first item starts one position later. *)
LEMMA StretchTail ==
  ASSUME NEW i \in Index, NEW j \in Index, i # j
  PROVE  /\ Stretch(i, Dist(i, j)) # << >>
         /\ Head(Stretch(i, Dist(i, j))) = slots[i]
         /\ Tail(Stretch(i, Dist(i, j))) = Stretch(Plus(i, 1), Dist(Plus(i, 1), j))
<1> DEFINE n == Dist(i, j)
<1>1. n \in 1 .. Size - 1
  BY RingAssumption DEF Index, Dist
<1>2. Dist(Plus(i, 1), j) = n - 1
  BY DistNearStep
<1>3. Plus(i, 0) = i
  BY RingAssumption DEF Plus, Index
<1>4. \A k \in 1 .. n - 1 : Plus(Plus(i, 1), k - 1) = Plus(i, k)
  BY <1>1, RingAssumption DEF Plus, Index
<1> HIDE DEF n
<1>5. /\ Stretch(i, n) # << >> /\ Head(Stretch(i, n)) = slots[i]
      /\ Len(Stretch(i, n)) = n
  BY <1>1, <1>3, RingAssumption DEF Stretch
<1>6. Tail(Stretch(i, n)) = [k \in 1 .. n - 1 |-> slots[Plus(i, k)]]
  BY <1>1, <1>5, RingAssumption, SMTT(30) DEF Stretch
<1>7. Tail(Stretch(i, n)) = Stretch(Plus(i, 1), n - 1)
  BY <1>4, <1>6 DEF Stretch
<1> QED
  BY <1>2, <1>5, <1>7 DEF n

(* A stretch whose far end moves on ends with the item passed over. *)
LEMMA StretchAppend ==
  ASSUME NEW i \in Index, NEW j \in Index, Plus(j, 1) # i
  PROVE  Stretch(i, Dist(i, Plus(j, 1))) = Append(Stretch(i, Dist(i, j)), slots[j])
<1> DEFINE n == Dist(i, j)
<1>1. n \in 0 .. Size - 1
  BY DistIsIndex DEF Index
<1>2. Dist(i, Plus(j, 1)) = n + 1 /\ Plus(i, n) = j
  BY DistFarStep, PlusDist
<1> HIDE DEF n
<1>3. Len(Stretch(i, n)) = n
  BY <1>1, RingAssumption DEF Stretch
<1>4. Append(Stretch(i, n), slots[j]) = [k \in 1 .. n + 1 |-> slots[Plus(i, k - 1)]]
  BY <1>1, <1>2, <1>3, RingAssumption DEF Stretch
<1> QED
  BY <1>2, <1>4 DEF Stretch, n

(* Writing the slot at head does not disturb a stretch that ends at or     *)
(* before head.                                                            *)
LEMMA StretchKept ==
  ASSUME RingTypeOK, NEW i \in Index, NEW n \in 0 .. Size - 1, n <= Dist(i, head),
         slots' = [slots EXCEPT ![head] = item]
  PROVE  [k \in 1 .. n |-> slots'[Plus(i, k - 1)]] = Stretch(i, n)
<1>1. \A k \in 1 .. n : Plus(i, k - 1) \in Index /\ Plus(i, k - 1) # head
  BY RingAssumption DEF RingTypeOK, Index, Plus, Dist
<1>2. \A k \in 1 .. n : slots'[Plus(i, k - 1)] = slots[Plus(i, k - 1)]
  BY <1>1 DEF RingTypeOK
<1> QED
  BY <1>2 DEF Stretch

--------------------------------------------------------------------------------
(* The ring implements the channel, one lemma for each step that moves it. *)

LEMMA RefusedIsRefuse == RingInv /\ PushRefused => Channel!Refuse
<1> SUFFICES ASSUME RingInv, PushRefused PROVE Channel!Refuse
    OBVIOUS
<1>1. Size - 1 - Dist(tailVis, head) = 0
  BY RingAssumption DEF PushRefused, ProducerSeesFull, RingInv, RingTypeOK, Index, Dist, Plus
<1> QED
  BY <1>1 DEF Channel!Refuse, PushRefused, Stretch

LEMMA PublishIsSend == RingInv /\ PushPublish => \E d \in Values : Channel!Send(d)
<1> SUFFICES ASSUME RingInv, PushPublish PROVE Channel!Send(item)
  BY DEF RingInv, RoomHeld, PushPublish
<1> USE DEF RingInv, RingTypeOK, PushPublish
<1>1. Plus(head, 1) # tailVis /\ Plus(head, 1) # headVis
  BY RingAssumption DEF RoomHeld, IndexOrder, Index, Dist, Plus
<1>2. Dist(tailVis, head') = Dist(tailVis, head) + 1
  BY <1>1, DistFarStep
<1>3. Dist(tailVis, head) \in Nat /\ Dist(tailVis, head) < Size - 1
  BY RingAssumption DEF RoomHeld, Index, Dist, Plus
<1>4. Stretch(headVis, Dist(headVis, head'))
        = Append(Stretch(headVis, Dist(headVis, head)), item)
  BY <1>1, StretchAppend DEF WriteHeld
<1>5. /\ Stretch(headVis, Dist(headVis, head))' = Stretch(headVis, Dist(headVis, head'))
      /\ Stretch(tail, Dist(tail, headVis))' = Stretch(tail, Dist(tail, headVis))
  BY DEF Stretch
<1> QED
  BY <1>2, <1>3, <1>4, <1>5, RingAssumption DEF Channel!Send

LEMMA HeadArrivesIsDeliver == RingInv /\ HeadReachesConsumer => Channel!Deliver
<1> SUFFICES ASSUME RingInv, HeadReachesConsumer PROVE Channel!Deliver
    OBVIOUS
<1> USE DEF RingInv, RingTypeOK, HeadReachesConsumer
<1>1. Plus(headVis, 1) # tail
  BY RingAssumption DEF IndexOrder, Index, Dist, Plus
<1>2. Stretch(tail, Dist(tail, headVis'))
        = Append(Stretch(tail, Dist(tail, headVis)), slots[headVis])
  BY <1>1, StretchAppend
<1>3. /\ Stretch(headVis, Dist(headVis, head)) # << >>
      /\ Head(Stretch(headVis, Dist(headVis, head))) = slots[headVis]
      /\ Tail(Stretch(headVis, Dist(headVis, head)))
           = Stretch(Plus(headVis, 1), Dist(Plus(headVis, 1), head))
  BY StretchTail
<1>4. /\ Stretch(tail, Dist(tail, headVis))' = Stretch(tail, Dist(tail, headVis'))
      /\ Stretch(headVis, Dist(headVis, head))'
           = Stretch(Plus(headVis, 1), Dist(Plus(headVis, 1), head))
  BY DEF Stretch
<1> QED
  BY <1>2, <1>3, <1>4 DEF Channel!Deliver

LEMMA ReleaseIsReceive == RingInv /\ PopRelease => Channel!Receive
<1> SUFFICES ASSUME RingInv, PopRelease PROVE Channel!Receive
    OBVIOUS
<1> USE DEF RingInv, RingTypeOK, PopRelease
<1>1. Plus(tail, 1) # tailVis
  BY RingAssumption DEF ItemHeld, IndexOrder, Index, Dist, Plus
<1>2. Dist(tailVis, tail') = Dist(tailVis, tail) + 1
  BY <1>1, DistFarStep
<1>3. /\ Stretch(tail, Dist(tail, headVis)) # << >>
      /\ Tail(Stretch(tail, Dist(tail, headVis)))
           = Stretch(Plus(tail, 1), Dist(Plus(tail, 1), headVis))
  BY StretchTail DEF ItemHeld
<1>4. /\ Stretch(tail, Dist(tail, headVis))'
           = Stretch(Plus(tail, 1), Dist(Plus(tail, 1), headVis))
      /\ Stretch(headVis, Dist(headVis, head))' = Stretch(headVis, Dist(headVis, head))
  BY DEF Stretch
<1> QED
  BY <1>2, <1>3, <1>4 DEF Channel!Receive

LEMMA TailArrivesIsReturn == RingInv /\ TailReachesProducer => Channel!Return
<1> SUFFICES ASSUME RingInv, TailReachesProducer PROVE Channel!Return
    OBVIOUS
<1> USE DEF RingInv, RingTypeOK, TailReachesProducer
<1>1. tailVis # head
  BY RingAssumption DEF IndexOrder, Index, Dist
<1>2. /\ Dist(tailVis', tail) = Dist(tailVis, tail) - 1
      /\ Dist(tailVis', head) = Dist(tailVis, head) - 1
  BY <1>1, DistNearStep
<1>3. Dist(tailVis, tail) \in Nat \ {0} /\ Dist(tailVis, head) \in Nat
  BY RingAssumption DEF Index, Dist
<1> QED
  BY <1>2, <1>3, RingAssumption DEF Channel!Return, Stretch

LEMMA OtherStepsStutter ==
  ASSUME RingInv,
         \/ \E d \in Values : PushAdmit(d)
         \/ PushWrite \/ PopAdmit \/ PopRead \/ UNCHANGED ringVars
  PROVE  UNCHANGED Channel!chanVars
<1>1. CASE PushWrite
  <2> USE <1>1 DEF PushWrite, RingInv, RingTypeOK
  <2>1. /\ Dist(tail, headVis) \in 0 .. Size - 1 /\ Dist(headVis, head) \in 0 .. Size - 1
        /\ Dist(tail, headVis) <= Dist(tail, head)
    BY RingAssumption DEF IndexOrder, Index, Dist
  <2>2. /\ Stretch(tail, Dist(tail, headVis))' = Stretch(tail, Dist(tail, headVis))
        /\ Stretch(headVis, Dist(headVis, head))' = Stretch(headVis, Dist(headVis, head))
    BY <2>1, StretchKept DEF Stretch
  <2> QED
    BY <2>2 DEF Channel!chanVars
<1>2. CASE UNCHANGED <<slots, head, tail, headVis, tailVis, dropCount>>
  BY <1>2 DEF Channel!chanVars, Stretch
<1> QED
  BY <1>1, <1>2 DEF PushAdmit, PopAdmit, PopRead, ringVars

LEMMA InitIsChanInit == RingInit => Channel!ChanInit
BY RingAssumption DEF RingInit, Channel!ChanInit, Stretch, Dist

LEMMA StepIsChanStep ==
  RingInv /\ [RingNext]_ringVars => [Channel!ChanNext]_(Channel!chanVars)
<1> SUFFICES ASSUME RingInv, [RingNext]_ringVars
             PROVE  Channel!ChanNext \/ UNCHANGED Channel!chanVars
    OBVIOUS
<1>1. CASE Producer
  BY <1>1, RefusedIsRefuse, PublishIsSend, OtherStepsStutter DEF Producer, Channel!ChanNext
<1>2. CASE Consumer
  BY <1>2, ReleaseIsReceive, OtherStepsStutter DEF Consumer, Channel!ChanNext
<1>3. CASE Memory
  BY <1>3, HeadArrivesIsDeliver, TailArrivesIsReturn DEF Memory, Channel!ChanNext
<1> QED
  BY <1>1, <1>2, <1>3, OtherStepsStutter DEF RingNext

(* push and pop, interleaved at every load and store and with stale views  *)
(* of the other index, behave as an ordered channel: no descriptor is      *)
(* lost, duplicated, reordered or altered, and a refusal is counted.       *)
THEOREM RingImplementsChannel == RingSafety => ImplementsChannel
<1>1. RingSafety => []RingInv
  BY RingInvariant
<1> QED
  BY <1>1, InitIsChanInit, StepIsChanStep, PTL DEF RingSafety, ImplementsChannel, Channel!ChanSpec

--------------------------------------------------------------------------------
(* The shadow log.                                                         *)

Popped == Settled + InHand             \* records that have left the ring
Seen   == Popped + Dist(tail, headVis) \* records the flusher knows of

(* The two threads are inside push and pop only where run and step call    *)
(* them.                                                                   *)
Places == (mainPc = "push" <=> pushPc # "idle") /\ (popPc # "idle" => flushPc = "pop")

(* The ring holds the accepted records that have not left it, in order,    *)
(* and the flusher's hand the one that left it last.                       *)
InRing ==
  /\ Len(accepted) = Popped + Dist(tail, head)
  /\ \A k \in Index : k < Dist(tail, head) => slots[Plus(tail, k)] = accepted[Popped + k + 1]
  /\ flushPc = "copy" => out = accepted[Popped]

Copied ==
  /\ Len(log) <= FileRecords /\ (discarded > 0 => Len(log) = FileRecords)
  /\ \A i \in 1 .. Len(log) : log[i] = accepted[i]

Counted == offered = Len(accepted) + dropCount + InPush

(* While the signal is on its way to the flusher, the records of before it *)
(* are those the flusher knows of and those up to stopHead; the flusher    *)
(* knows of all of them when it sees the flag, and has settled them when   *)
(* it leaves its loop.                                                     *)
Arriving ==
  /\ ~runVis => ~running /\ Seen >= stopCount
  /\ ~running /\ runVis =>
       /\ Seen + Dist(headVis, stopHead) = stopCount
       /\ Dist(headVis, stopHead) + Dist(stopHead, head) = Dist(headVis, head)
  /\ flushPc \in {"final", "done"} => ~runVis /\ Settled >= stopCount

(* After the signal main publishes the record of the step it was in, and   *)
(* no other.                                                               *)
LastStep ==
  ~running => /\ Len(accepted) <= stopCount + 1
              /\ mainPc \in {"step", "push"} => Len(accepted) <= stopCount

ShadowInd == RingInv /\ ShadowTypeOK /\ Places /\ InRing /\ Copied /\ Counted /\ FlushAligned
               /\ Arriving /\ LastStep

--------------------------------------------------------------------------------
(* What the parts say together about distances, about records, and about *)
(* the two.                                                                *)
LEMMA IndexFacts ==
  ASSUME ShadowInd
  PROVE  /\ Size \in Nat \ {0}
         /\ head \in Index /\ tail \in Index /\ headVis \in Index /\ stopHead \in Index
         /\ Dist(tail, head) \in Nat /\ Dist(tail, headVis) \in Nat
         /\ Dist(headVis, head) \in Nat
         /\ Dist(tail, headVis) + Dist(headVis, head) = Dist(tail, head)
<1>1. /\ Size \in Nat \ {0} /\ tailVis \in Index
      /\ head \in Index /\ tail \in Index /\ headVis \in Index /\ stopHead \in Index
  BY RingAssumption DEF ShadowInd, ShadowTypeOK, RingTypeOK
<1>2. IndexOrder
  BY DEF ShadowInd, RingInv
<1> QED
  BY <1>1, <1>2 DEF IndexOrder, Index, Dist

LEMMA RecordFacts ==
  ASSUME ShadowInd
  PROVE  /\ log \in Seq(Values) /\ accepted \in Seq(Values)
         /\ Len(log) \in Nat /\ Len(accepted) \in Nat /\ discarded \in Nat
         /\ dropCount \in Nat /\ offered \in Nat /\ offered <= MaxRecords
         /\ MaxRecords \in Nat /\ stopCount \in Nat
<1>1. /\ log \in Seq(Values) /\ accepted \in Seq(Values)
      /\ Len(log) \in Nat /\ Len(accepted) \in Nat
  BY LenProperties DEF ShadowInd, ShadowTypeOK
<1>2. /\ offered \in 0 .. MaxRecords /\ discarded \in 0 .. MaxRecords
      /\ stopCount \in 0 .. MaxRecords /\ dropCount \in 0 .. DropMod - 1
  BY DEF ShadowInd, ShadowTypeOK, RingTypeOK
<1> QED
  BY <1>1, <1>2, ShadowAssumption, RingAssumption

LEMMA ShadowFacts ==
  ASSUME ShadowInd
  PROVE  /\ InHand \in {0, 1} /\ InPush \in {0, 1}
         /\ Settled = Len(log) + discarded /\ Settled \in Nat
         /\ Popped = Settled + InHand /\ Popped \in Nat
         /\ Len(accepted) = Popped + Dist(tail, head)
         /\ Popped <= Len(accepted) /\ Len(accepted) <= offered
         /\ Seen = Popped + Dist(tail, headVis) /\ Seen \in Nat
<1>1. InHand \in {0, 1} /\ InPush \in {0, 1}
  BY DEF InHand, InPush
<1>2. /\ Settled = Len(log) + discarded /\ Settled \in Nat
      /\ Popped = Settled + InHand /\ Popped \in Nat
  BY <1>1, RecordFacts DEF Settled, Popped
<1>3. Len(accepted) = Popped + Dist(tail, head) /\ offered = Len(accepted) + dropCount + InPush
  BY DEF ShadowInd, InRing, Counted
<1>4. Seen = Popped + Dist(tail, headVis) /\ Seen \in Nat
  BY <1>2, IndexFacts DEF Seen
<1>5. Popped <= Len(accepted)
  BY <1>2, <1>3, IndexFacts
<1>6. Len(accepted) <= offered
  BY <1>1, <1>3, RecordFacts
<1> QED
  BY <1>1, <1>2, <1>3, <1>4, <1>5, <1>6

(* run and step use the ring as its two clients: every step of the shadow  *)
(* log is a step of the ring, or none.                                     *)
LEMMA ShadowStepIsRingStep ==
  ASSUME offered \in 0 .. MaxRecords, [ShadowNext]_shadowVars
  PROVE  [RingNext]_ringVars
<1>1. CASE MainPushBegin
  <2>1. offered + 1 \in Values
    BY <1>1, ShadowAssumption DEF MainPushBegin
  <2> QED
    BY <1>1, <2>1 DEF MainPushBegin, RingNext, Producer
<1>2. CASE MainPushWrite \/ MainPushPublish
  BY <1>2 DEF MainPushWrite, MainPushPublish, RingNext, Producer
<1>3. CASE FlushPopBegin \/ FlushPopRead \/ FlushPopEnd
  BY <1>3 DEF FlushPopBegin, FlushPopRead, FlushPopEnd, RingNext, Consumer
<1>4. CASE HeadArrives \/ TailArrives
  BY <1>4 DEF HeadArrives, TailArrives, RingNext, Memory
<1>5. CASE UNCHANGED ringVars
  BY <1>5
<1> QED
  BY <1>1, <1>2, <1>3, <1>4, <1>5
     DEF ShadowNext, Main, Flusher, Shutdown, MainTest, MainQuietStep, MainJoin, Sigint,
         FlushOpenFails, FlushOpen, FlushTest, FlushPassEnds, FlushFileFull, FlushCopy,
         FlushFault, FlushFinal, FlagArrives, shadowVars

(* The parts that only look at records and indices, where those stay.      *)
Records == <<slots, head, tail, headVis, accepted, log, discarded, offered, dropCount>>

LEMMA RecordsStay ==
  ASSUME ShadowInd, UNCHANGED Records, InHand' = InHand,
         flushPc' = "copy" => flushPc = "copy" /\ out' = out
  PROVE  InRing' /\ Copied' /\ Seen' = Seen /\ Popped' = Popped /\ Settled' = Settled
BY DEF ShadowInd, Records, InRing, Copied, Seen, Popped, Settled

--------------------------------------------------------------------------------
LEMMA InitShadowInd == ShadowInit => ShadowInd
<1> SUFFICES ASSUME ShadowInit PROVE ShadowInd
    OBVIOUS
<1> USE DEF ShadowInit
<1>1. RingInv
  BY InitEstablishesRingInv
<1>2. << >> \in Seq(Values) /\ Len(<< >>) = 0 /\ 0 \in Index
  BY EmptySeq, RingAssumption DEF Index
<1>3. ShadowTypeOK
  <2>1. RingTypeOK
    BY <1>1 DEF RingInv
  <2>2. running \in BOOLEAN /\ runVis \in BOOLEAN /\ sized \in BOOLEAN
    OBVIOUS
  <2>3. /\ chunk \in 0 .. ChunkRecords - 1 /\ synced \in 0 .. FileRecords
        /\ offered \in 0 .. MaxRecords /\ discarded \in 0 .. MaxRecords
        /\ stopCount \in 0 .. MaxRecords
    BY ShadowAssumption
  <2> QED
    BY <1>2, <2>1, <2>2, <2>3 DEF ShadowTypeOK
<1>4. /\ head = 0 /\ tail = 0 /\ headVis = 0 /\ dropCount = 0 /\ pushPc = "idle"
      /\ popPc = "idle" /\ Dist(0, 0) = 0
  BY DEF RingInit, Dist
<1>5. Places /\ Copied /\ Counted
  BY <1>2, <1>4, ShadowAssumption DEF Places, Copied, Counted, InPush
<1>6. InRing
  BY <1>2, <1>4, RingAssumption DEF InRing, Popped, Settled, InHand, Index
<1>7. FlushAligned
  BY <1>2, ShadowAssumption DEF FlushAligned
<1>8. Arriving /\ LastStep
  BY DEF Arriving, LastStep
<1> QED
  BY <1>1, <1>3, <1>5, <1>6, <1>7, <1>8 DEF ShadowInd

--------------------------------------------------------------------------------
(* The main thread.                                                        *)

LEMMA MainMovesKeepShadowInd ==
  ASSUME ShadowInd, RingInv', MainTest \/ MainQuietStep \/ MainJoin
  PROVE  ShadowInd'
<1>1. /\ UNCHANGED <<ringVars, flushVars, running, offered, accepted, stopHead, stopCount>>
      /\ mainPc # "push" /\ mainPc' \in {"test", "step", "join", "exit"}
      /\ mainPc' = "step" => running
  BY DEF MainTest, MainQuietStep, MainJoin
<1>2. /\ UNCHANGED <<slots, head, tail, headVis, tailVis, dropCount, pushPc, item, popPc, out>>
      /\ UNCHANGED <<runVis, flushPc, sized, log, chunk, synced, discarded>>
  BY <1>1 DEF ringVars, flushVars
<1>3. ShadowTypeOK'
  BY <1>1, <1>2 DEF ShadowInd, ShadowTypeOK, RingInv
<1>4. InHand' = InHand
  BY <1>2 DEF InHand
<1>5. InRing' /\ Copied' /\ Seen' = Seen /\ Settled' = Settled
  BY <1>1, <1>2, <1>4, RecordsStay DEF Records
<1>6. Places' /\ Counted'
  BY <1>1, <1>2 DEF ShadowInd, Places, Counted, InPush
<1>7. FlushAligned'
  BY <1>2 DEF ShadowInd, FlushAligned
<1>8. Arriving' /\ LastStep'
  BY <1>1, <1>2, <1>5 DEF ShadowInd, Arriving, LastStep
<1> QED
  BY <1>3, <1>5, <1>6, <1>7, <1>8 DEF ShadowInd

LEMMA MainPushBeginKeepsShadowInd ==
  ASSUME ShadowInd, RingInv', MainPushBegin
  PROVE  ShadowInd'
<1>1. /\ mainPc = "step" /\ offered < MaxRecords /\ offered' = offered + 1
      /\ UNCHANGED <<runVis, flushPc, sized, log, chunk, synced, discarded>>
      /\ UNCHANGED <<running, accepted, stopHead, stopCount>>
  BY DEF MainPushBegin, flushVars
<1>2. /\ UNCHANGED <<slots, head, tail, headVis, tailVis, popPc, out>> /\ pushPc = "idle"
      /\ \/ mainPc' = "test" /\ pushPc' = "idle" /\ dropCount' = (dropCount + 1) % DropMod
         \/ mainPc' = "push" /\ pushPc' = "write" /\ dropCount' = dropCount
  BY DEF MainPushBegin, PushRefused, PushAdmit
<1>3. offered' \in 0 .. MaxRecords
  BY <1>1, RecordFacts
<1>4. ShadowTypeOK'
  BY <1>1, <1>2, <1>3 DEF ShadowInd, ShadowTypeOK, RingInv
<1>5. InHand' = InHand
  BY <1>1 DEF InHand
<1>6. InRing' /\ Copied' /\ Seen' = Seen /\ Settled' = Settled
  BY <1>1, <1>2, <1>5 DEF ShadowInd, InRing, Copied, Seen, Popped, Settled
<1>7. Places'
  BY <1>1, <1>2 DEF ShadowInd, Places
<1>8. Counted'
  <2>1. dropCount + 1 < DropMod /\ offered = Len(accepted) + dropCount /\ DropMod \in Nat \ {0}
    BY <1>1, RecordFacts, ShadowAssumption, RingAssumption DEF ShadowInd, Counted, InPush
  <2>2. (dropCount + 1) % DropMod = dropCount + 1
    BY <2>1, RecordFacts, SMTT(30)
  <2>3. offered' = Len(accepted') + dropCount' + (IF mainPc' = "push" THEN 1 ELSE 0)
    <3>1. /\ Len(accepted') = Len(accepted) /\ offered' = offered + 1
          /\ Len(accepted) \in Nat /\ dropCount \in Nat /\ offered = Len(accepted) + dropCount
      BY <1>1, <2>1, RecordFacts
    <3>2. CASE mainPc' = "test" /\ dropCount' = (dropCount + 1) % DropMod
      <4>1. dropCount' = dropCount + 1
        BY <3>2, <2>2
      <4> QED
        BY <3>1, <3>2, <4>1
    <3>3. CASE mainPc' = "push" /\ dropCount' = dropCount
      BY <3>1, <3>3
    <3> QED
      BY <1>2, <3>2, <3>3
  <2> QED
    BY <2>3 DEF Counted, InPush
<1>9. FlushAligned'
  BY <1>1 DEF ShadowInd, FlushAligned
<1>10. Arriving' /\ LastStep'
  BY <1>1, <1>2, <1>6 DEF ShadowInd, Arriving, LastStep
<1> QED
  BY <1>4, <1>6, <1>7, <1>8, <1>9, <1>10 DEF ShadowInd

LEMMA MainPushWriteKeepsShadowInd ==
  ASSUME ShadowInd, RingInv', MainPushWrite
  PROVE  ShadowInd'
<1>1. /\ pushPc' = "publish" /\ pushPc = "write" /\ slots' = [slots EXCEPT ![head] = item]
      /\ UNCHANGED <<head, tail, headVis, tailVis, dropCount, item, popPc, out>>
      /\ UNCHANGED <<mainPc, running, offered, accepted, stopHead, stopCount>>
      /\ UNCHANGED <<runVis, flushPc, sized, log, chunk, synced, discarded>>
  BY DEF MainPushWrite, PushWrite, mainVars, flushVars
<1>2. ShadowTypeOK'
  BY <1>1 DEF ShadowInd, ShadowTypeOK, RingInv
<1>3. InRing'
  <2>1. \A k \in Index : k < Dist(tail, head) => slots'[Plus(tail, k)] = slots[Plus(tail, k)]
    <3> SUFFICES ASSUME NEW k \in Index, k < Dist(tail, head)
                 PROVE  slots'[Plus(tail, k)] = slots[Plus(tail, k)]
      OBVIOUS
    <3>1. Plus(tail, k) # head
      BY IndexFacts, PlusDist
    <3>2. Plus(tail, k) \in Index
      <4>1. k \in 0 .. Size
        BY IndexFacts DEF Index
      <4> QED
        BY <4>1, IndexFacts, PlusIsIndex
    <3> QED
      BY <1>1, <3>1, <3>2 DEF ShadowInd, ShadowTypeOK, RingTypeOK
  <2> QED
    BY <1>1, <2>1 DEF ShadowInd, InRing, Popped, Settled, InHand
<1>4. Places' /\ Copied' /\ Counted' /\ FlushAligned'
  BY <1>1 DEF ShadowInd, Places, Copied, Counted, InPush, FlushAligned
<1>5. Arriving' /\ LastStep'
  BY <1>1 DEF ShadowInd, Arriving, LastStep, Seen, Popped, Settled, InHand
<1> QED
  BY <1>2, <1>3, <1>4, <1>5 DEF ShadowInd

LEMMA MainPushPublishKeepsShadowInd ==
  ASSUME ShadowInd, RingInv', MainPushPublish
  PROVE  ShadowInd'
<1>1. /\ pushPc = "publish" /\ pushPc' = "idle" /\ head' = Plus(head, 1)
      /\ mainPc = "push" /\ mainPc' = "test" /\ accepted' = Append(accepted, item)
      /\ UNCHANGED <<slots, tail, headVis, tailVis, dropCount, item, popPc, out>>
      /\ UNCHANGED <<running, offered, stopHead, stopCount>>
      /\ UNCHANGED <<runVis, flushPc, sized, log, chunk, synced, discarded>>
  BY DEF MainPushPublish, PushPublish, flushVars
<1>2. /\ item \in Values /\ slots[head] = item /\ Plus(head, 1) # tailVis /\ IndexOrder
      /\ tailVis \in Index
  BY <1>1 DEF ShadowInd, RingInv, RoomHeld, WriteHeld, RingTypeOK
<1>3. /\ accepted' \in Seq(Values) /\ Len(accepted') = Len(accepted) + 1
      /\ \A i \in 1 .. Len(accepted) : accepted'[i] = accepted[i]
      /\ accepted'[Len(accepted) + 1] = item
  BY <1>1, <1>2, RecordFacts, AppendProperties
<1>4. /\ Plus(head, 1) # tail /\ Plus(head, 1) # headVis
      /\ Dist(tail, Plus(head, 1)) = Dist(tail, head) + 1
      /\ Dist(headVis, Plus(head, 1)) = Dist(headVis, head) + 1
  <2>1. Plus(head, 1) # tail /\ Plus(head, 1) # headVis
    <3>1. head \in Index /\ tail \in Index /\ headVis \in Index
      BY IndexFacts
    <3> QED
      BY <1>2, <3>1, RingAssumption DEF IndexOrder, Index, Dist, Plus
  <2> QED
    BY <2>1, IndexFacts, DistFarStep
<1>5. ShadowTypeOK'
  BY <1>1, <1>3 DEF ShadowInd, ShadowTypeOK, RingInv
<1>6. InHand' = InHand /\ Popped' = Popped /\ Settled' = Settled /\ Seen' = Seen
  BY <1>1 DEF InHand, Popped, Settled, Seen
<1>7. InRing'
  <2>1. Len(accepted') = Popped' + Dist(tail', head')
    BY <1>1, <1>3, <1>4, <1>6, ShadowFacts, IndexFacts, RecordFacts, SMTT(30) DEF ShadowInd, InRing
  <2>2. ASSUME NEW k \in Index, k < Dist(tail, head) + 1
        PROVE  slots[Plus(tail, k)] = accepted'[Popped + k + 1]
    <3>1. CASE k < Dist(tail, head)
      <4>1. Popped + k + 1 \in 1 .. Len(accepted)
        <5>1. Len(accepted) = Popped + Dist(tail, head) /\ Popped \in Nat
          BY ShadowFacts
        <5>2. Dist(tail, head) \in Nat /\ k \in Nat
          BY IndexFacts DEF Index
        <5> QED
          BY <3>1, <5>1, <5>2
      <4> QED
        BY <1>3, <3>1, <4>1 DEF ShadowInd, InRing
    <3>2. CASE k = Dist(tail, head)
      <4>1. Plus(tail, k) = head
        BY <3>2, IndexFacts, PlusDist
      <4>2. Popped + k + 1 = Len(accepted) + 1
        BY <3>2, ShadowFacts, IndexFacts, RecordFacts DEF ShadowInd, InRing
      <4> QED
        BY <1>2, <1>3, <4>1, <4>2
    <3> QED
      BY <2>2, <3>1, <3>2, IndexFacts DEF Index
  <2>3. flushPc = "copy" => out = accepted'[Popped]
    <3>1. flushPc = "copy" => Popped \in 1 .. Len(accepted)
      <4>1. Popped <= Len(accepted) /\ Popped = Settled + InHand /\ Settled \in Nat
        BY ShadowFacts
      <4>2. flushPc = "copy" => InHand = 1
        BY DEF InHand
      <4> QED
        BY <4>1, <4>2, RecordFacts
    <3> QED
      BY <1>3, <3>1 DEF ShadowInd, InRing
  <2> QED
    BY <1>1, <1>4, <1>6, <2>1, <2>2, <2>3 DEF InRing
<1>8. Copied'
  <2>1. \A i \in 1 .. Len(log) : i \in 1 .. Len(accepted)
    BY ShadowFacts, RecordFacts
  <2> QED
    BY <1>1, <1>3, <2>1 DEF ShadowInd, Copied
<1>9. Places' /\ FlushAligned'
  BY <1>1 DEF ShadowInd, Places, FlushAligned
<1>10. Counted'
  BY <1>1, <1>3, RecordFacts DEF ShadowInd, Counted, InPush
<1>11. Arriving'
  <2>1. CASE ~running /\ runVis
    <3>1. Dist(headVis, stopHead) + Dist(stopHead, head) = Dist(headVis, head)
      BY <2>1 DEF ShadowInd, Arriving
    <3>2. Dist(headVis, stopHead) + Dist(stopHead, Plus(head, 1)) = Dist(headVis, Plus(head, 1))
      BY <1>4, <3>1, IndexFacts DEF Index, Dist, Plus
    <3> QED
      BY <1>1, <1>6, <2>1, <3>2 DEF ShadowInd, Arriving
  <2>2. CASE ~(~running /\ runVis)
    BY <1>1, <1>6, <2>2 DEF ShadowInd, Arriving
  <2> QED
    BY <2>1, <2>2
<1>12. LastStep'
  BY <1>1, <1>3, RecordFacts DEF ShadowInd, LastStep
<1> QED
  BY <1>5, <1>7, <1>8, <1>9, <1>10, <1>11, <1>12 DEF ShadowInd

LEMMA SigintKeepsShadowInd ==
  ASSUME ShadowInd, RingInv', Sigint
  PROVE  ShadowInd'
<1>1. /\ running = TRUE /\ running' = FALSE /\ stopHead' = head /\ stopCount' = Len(accepted)
      /\ UNCHANGED <<slots, head, tail, headVis, tailVis, dropCount, pushPc, item, popPc, out>>
      /\ UNCHANGED <<mainPc, offered, accepted>>
      /\ UNCHANGED <<runVis, flushPc, sized, log, chunk, synced, discarded>>
  BY DEF Sigint, ringVars, flushVars, ShadowInd, ShadowTypeOK
<1>2. stopHead' \in Index /\ stopCount' \in 0 .. MaxRecords
  <2>1. Len(accepted) <= offered
    BY ShadowFacts
  <2> QED
    BY <1>1, <2>1, RecordFacts, IndexFacts
<1>3. ShadowTypeOK'
  BY <1>1, <1>2 DEF ShadowInd, ShadowTypeOK, RingInv
<1>4. InHand' = InHand
  BY <1>1 DEF InHand
<1>5. InRing' /\ Copied' /\ Seen' = Seen /\ Settled' = Settled
  BY <1>1, <1>4, RecordsStay DEF Records
<1>6. Places' /\ Counted' /\ FlushAligned'
  BY <1>1 DEF ShadowInd, Places, Counted, InPush, FlushAligned
<1>7. runVis /\ flushPc \notin {"final", "done"}
  BY <1>1 DEF ShadowInd, Arriving
<1>8. Arriving'
  <2>1. Seen + Dist(headVis, head) = Len(accepted)
    <3>1. /\ Len(accepted) = Popped + Dist(tail, head) /\ Popped \in Nat
          /\ Seen = Popped + Dist(tail, headVis)
      BY ShadowFacts
    <3> QED
      BY <3>1, IndexFacts
  <2>2. Dist(head, head) = 0 /\ Dist(headVis, head) + 0 = Dist(headVis, head)
    BY IndexFacts DEF Index, Dist
  <2> QED
    BY <1>1, <1>5, <1>7, <2>1, <2>2 DEF Arriving
<1>9. LastStep'
  BY <1>1, RecordFacts DEF LastStep
<1> QED
  BY <1>3, <1>5, <1>6, <1>8, <1>9 DEF ShadowInd

--------------------------------------------------------------------------------
(* The flusher thread.                                                     *)

(* Steps that move the flusher alone and touch neither a record nor the    *)
(* ring's indices.                                                         *)
LEMMA FlusherMovesKeepShadowInd ==
  ASSUME ShadowInd, RingInv',
         FlushOpenFails \/ FlushOpen \/ FlushPassEnds \/ FlushPopBegin \/ FlushPopRead
  PROVE  ShadowInd'
<1>1. /\ UNCHANGED <<slots, head, tail, headVis, tailVis, dropCount, pushPc, item>>
      /\ UNCHANGED <<mainPc, running, offered, accepted, stopHead, stopCount>>
      /\ UNCHANGED <<runVis, log, chunk, synced, discarded>>
      /\ sized' = sized \/ sized' \in BOOLEAN
      /\ flushPc \in {"open", "pop"} /\ flushPc' \in {"failed", "test", "pop"}
      /\ popPc' # "idle" => flushPc' = "pop"
  BY DEF ShadowInd, Places, FlushOpenFails, FlushOpen, FlushPassEnds, FlushPopBegin,
         FlushPopRead, PopAdmit, PopRead, ringVars, mainVars, flushVars
<1>2. ShadowTypeOK'
  BY <1>1 DEF ShadowInd, ShadowTypeOK, RingInv
<1>3. InHand' = InHand
  BY <1>1 DEF InHand
<1>4. InRing' /\ Copied' /\ Seen' = Seen /\ Settled' = Settled
  BY <1>1, <1>3, RecordsStay DEF Records
<1>5. Places' /\ Counted' /\ FlushAligned'
  BY <1>1 DEF ShadowInd, Places, Counted, InPush, FlushAligned
<1>6. Arriving' /\ LastStep'
  BY <1>1, <1>4 DEF ShadowInd, Arriving, LastStep
<1> QED
  BY <1>2, <1>4, <1>5, <1>6 DEF ShadowInd

LEMMA FlushTestKeepsShadowInd ==
  ASSUME ShadowInd, RingInv', FlushTest
  PROVE  ShadowInd'
<1>1. /\ UNCHANGED <<slots, head, tail, headVis, tailVis, dropCount, pushPc, item, popPc, out>>
      /\ UNCHANGED <<mainPc, running, offered, accepted, stopHead, stopCount>>
      /\ UNCHANGED <<runVis, sized, log, chunk, synced, discarded>>
      /\ flushPc = "test" /\ flushPc' \in {"pop", "final"}
      /\ flushPc' = "final" => ~runVis /\ ~(Dist(tail, headVis) > 0)
  BY DEF FlushTest, FlushGoesOn, ringVars, mainVars
<1>2. ShadowTypeOK'
  BY <1>1 DEF ShadowInd, ShadowTypeOK, RingInv
<1>3. InHand' = InHand /\ InHand = 0
  BY <1>1 DEF InHand
<1>4. InRing' /\ Copied' /\ Seen' = Seen /\ Settled' = Settled
  BY <1>1, <1>3, RecordsStay DEF Records
<1>5. Places' /\ Counted' /\ FlushAligned'
  BY <1>1 DEF ShadowInd, Places, Counted, InPush, FlushAligned
<1>6. flushPc' = "final" => Settled >= stopCount
  <2> SUFFICES ASSUME flushPc' = "final" PROVE Settled >= stopCount
    OBVIOUS
  <2>1. Dist(tail, headVis) = 0
    BY <1>1, IndexFacts
  <2>2. Seen = Settled
    BY <1>3, <2>1, ShadowFacts
  <2> QED
    BY <1>1, <2>2 DEF ShadowInd, Arriving
<1>7. Arriving'
  BY <1>1, <1>4, <1>6 DEF ShadowInd, Arriving
<1>8. LastStep'
  BY <1>1 DEF ShadowInd, LastStep
<1> QED
  BY <1>2, <1>4, <1>5, <1>7, <1>8 DEF ShadowInd

(* The record released is the one at the tail, the next in order.          *)
LEMMA FlushPopEndKeepsShadowInd ==
  ASSUME ShadowInd, RingInv', FlushPopEnd
  PROVE  ShadowInd'
<1>1. /\ flushPc = "pop" /\ flushPc' = "copy" /\ popPc = "release" /\ popPc' = "idle"
      /\ tail' = Plus(tail, 1)
      /\ UNCHANGED <<slots, head, headVis, tailVis, dropCount, pushPc, item, out>>
      /\ UNCHANGED <<mainPc, running, offered, accepted, stopHead, stopCount>>
      /\ UNCHANGED <<runVis, sized, log, chunk, synced, discarded>>
  BY DEF FlushPopEnd, PopRelease, mainVars
<1>2. headVis # tail /\ out = slots[tail]
  BY <1>1 DEF ShadowInd, RingInv, ItemHeld, CopyFaithful
<1>3. ShadowTypeOK'
  BY <1>1 DEF ShadowInd, ShadowTypeOK, RingInv
<1>4. Settled' = Settled /\ Popped' = Popped + 1
  <2>1. InHand = 0 /\ InHand' = 1
    BY <1>1 DEF InHand
  <2>2. Settled' = Settled
    BY <1>1 DEF Settled
  <2>3. Popped' = Settled' + InHand'
    BY DEF Popped
  <2> QED
    BY <2>1, <2>2, <2>3, ShadowFacts
<1>5. /\ Dist(tail', head) = Dist(tail, head) - 1
      /\ Dist(tail', headVis) = Dist(tail, headVis) - 1
  <2>1. /\ tail \in Index /\ head \in Index /\ headVis \in Index
        /\ Dist(tail, headVis) + Dist(headVis, head) = Dist(tail, head)
    BY IndexFacts
  <2>2. head # tail
    BY <1>2, <2>1, RingAssumption DEF Index, Dist
  <2> QED
    BY <1>1, <1>2, <2>1, <2>2, DistNearStep
<1>6. Seen' = Seen
  <2>1. Seen' = Popped' + Dist(tail', headVis)
    BY <1>1 DEF Seen
  <2> QED
    <3>1. Popped \in Nat /\ Dist(tail, headVis) \in Nat /\ Seen = Popped + Dist(tail, headVis)
      BY ShadowFacts, IndexFacts
    <3> QED
      BY <1>4, <1>5, <2>1, <3>1
<1>7. InRing'
  <2>1. Len(accepted) = Popped + Dist(tail, head)
    BY ShadowFacts
  <2>2. Len(accepted) = Popped' + Dist(tail', head)
    <3>1. Popped \in Nat /\ Dist(tail, head) \in Nat
      BY ShadowFacts, IndexFacts
    <3> QED
      BY <1>4, <1>5, <2>1, <3>1
  <2>3. ASSUME NEW k \in Index, k < Dist(tail', head)
        PROVE  slots[Plus(tail', k)] = accepted[Popped' + k + 1]
    <3>1. k \in 0 .. Size - 1 /\ k + 1 < Dist(tail, head)
      BY <1>5, <2>3, IndexFacts DEF Index
    <3>2. k + 1 \in Index
      <4>1. Dist(tail, head) \in Index
        BY IndexFacts, DistIsIndex
      <4> QED
        BY <3>1, <4>1, RingAssumption DEF Index
    <3>3. Plus(tail', k) = Plus(tail, k + 1)
      BY <1>1, <3>1, IndexFacts, PlusShift
    <3>4. Popped' + k + 1 = Popped + (k + 1) + 1
      BY <1>4, <3>1, ShadowFacts
    <3> QED
      BY <3>1, <3>2, <3>3, <3>4 DEF ShadowInd, InRing
  <2>4. out = accepted[Popped']
    <3>1. 0 \in Index /\ 0 < Dist(tail, head) /\ Plus(tail, 0) = tail
      <4>1. Dist(tail', head) \in Nat
        <5>1. tail' \in Index /\ head \in Index
          BY <1>3, IndexFacts DEF ShadowTypeOK, RingTypeOK
        <5> QED
          BY <5>1, DistIsIndex DEF Index
      <4>2. 0 < Dist(tail, head)
        BY <1>5, <4>1, IndexFacts
      <4> QED
        BY <4>2, IndexFacts, RingAssumption DEF Index, Plus
    <3>2. slots[Plus(tail, 0)] = accepted[Popped + 0 + 1]
      BY <3>1 DEF ShadowInd, InRing
    <3>3. Popped + 0 + 1 = Popped'
      BY <1>4, ShadowFacts
    <3> QED
      BY <1>2, <3>1, <3>2, <3>3
  <2> QED
    BY <1>1, <2>2, <2>3, <2>4 DEF InRing
<1>8. Places' /\ Copied' /\ Counted' /\ FlushAligned'
  BY <1>1 DEF ShadowInd, Places, Copied, Counted, InPush, FlushAligned
<1>9. Arriving' /\ LastStep'
  BY <1>1, <1>4, <1>6 DEF ShadowInd, Arriving, LastStep
<1> QED
  BY <1>3, <1>7, <1>8, <1>9 DEF ShadowInd

LEMMA FlushFileFullKeepsShadowInd ==
  ASSUME ShadowInd, RingInv', FlushFileFull
  PROVE  ShadowInd'
<1>1. /\ flushPc = "copy" /\ flushPc' = "test" /\ discarded' = discarded + 1
      /\ Len(log) + 1 > FileRecords
      /\ UNCHANGED <<slots, head, tail, headVis, tailVis, dropCount, pushPc, item, popPc, out>>
      /\ UNCHANGED <<mainPc, running, offered, accepted, stopHead, stopCount>>
      /\ UNCHANGED <<runVis, sized, log, chunk, synced>>
  BY DEF FlushFileFull, FitsNot, ringVars, mainVars
<1>2. InHand = 1 /\ InHand' = 0
  BY <1>1 DEF InHand
<1>3. Settled' = Settled + 1 /\ Popped' = Popped
  <2>1. Settled' = Len(log) + discarded'
    BY <1>1 DEF Settled
  <2>2. Settled' = Settled + 1
    BY <1>1, <2>1, ShadowFacts, RecordFacts
  <2>3. Popped' = Settled' + InHand'
    BY DEF Popped
  <2> QED
    BY <1>2, <2>2, <2>3, ShadowFacts
<1>4. Seen' = Seen
  BY <1>1, <1>3 DEF Seen
<1>5. discarded' \in 0 .. MaxRecords
  <2>1. Settled + 1 <= Len(accepted) /\ Len(accepted) <= offered
    BY <1>2, ShadowFacts
  <2>2. discarded + 1 <= Settled + 1
    BY ShadowFacts, RecordFacts
  <2>3. Settled \in Nat
    BY ShadowFacts
  <2> QED
    BY <1>1, <2>1, <2>2, <2>3, RecordFacts
<1>6. ShadowTypeOK'
  BY <1>1, <1>5 DEF ShadowInd, ShadowTypeOK, RingInv
<1>7. InRing'
  BY <1>1, <1>3 DEF ShadowInd, InRing
<1>8. Copied'
  <2>1. Len(log) = FileRecords
    BY <1>1, RecordFacts, ShadowAssumption DEF ShadowInd, Copied
  <2> QED
    BY <1>1, <2>1 DEF ShadowInd, Copied
<1>9. Places' /\ Counted' /\ FlushAligned'
  BY <1>1 DEF ShadowInd, Places, Counted, InPush, FlushAligned
<1>10. Arriving' /\ LastStep'
  BY <1>1, <1>4 DEF ShadowInd, Arriving, LastStep
<1> QED
  BY <1>6, <1>7, <1>8, <1>9, <1>10 DEF ShadowInd

(* A multiple of the chunk size is a boundary, and the end of a chunk is   *)
(* the boundary of the next.                                               *)
LEMMA MultipleIsBoundary ==
  ASSUME NEW a \in Nat, NEW q \in Nat, NEW c \in Nat \ {0}, a = c * q
  PROVE  a % c = 0
BY Z3T(30)

LEMMA NextBoundary ==
  ASSUME NEW a \in Nat, NEW c \in Nat \ {0}, a % c = 0
  PROVE  (a + c) % c = 0
<1> DEFINE q == a \div c
<1>1. a = c * q /\ q \in Nat
  BY SMTT(30)
<1> HIDE DEF q
<1>2. a + c = c * (q + 1)
  BY <1>1
<1>3. q + 1 \in Nat /\ a + c \in Nat
  BY <1>1
<1> QED
  BY <1>2, <1>3, MultipleIsBoundary

(* The record copied is the next one of the file, and a chunk that becomes *)
(* full is handed to msync whole.                                          *)
LEMMA FlushCopyKeepsShadowInd ==
  ASSUME ShadowInd, RingInv', FlushCopy
  PROVE  ShadowInd'
<1>1. /\ flushPc = "copy" /\ flushPc' = "pop" /\ log' = Append(log, out)
      /\ ~(Len(log) + 1 > FileRecords)
      /\ UNCHANGED <<slots, head, tail, headVis, tailVis, dropCount, pushPc, item, popPc, out>>
      /\ UNCHANGED <<mainPc, running, offered, accepted, stopHead, stopCount>>
      /\ UNCHANGED <<runVis, sized, discarded>>
  BY DEF FlushCopy, FitsNot, ringVars, mainVars
<1>2. \/ chunk + 1 >= ChunkRecords /\ chunk' = 0 /\ synced' = Len(log) + 1
      \/ ~(chunk + 1 >= ChunkRecords) /\ chunk' = chunk + 1 /\ synced' = synced
  BY DEF FlushCopy
<1>3. InHand = 1 /\ InHand' = 0
  BY <1>1 DEF InHand
<1>4. discarded = 0
  BY <1>1, RecordFacts, ShadowAssumption DEF ShadowInd, Copied
<1>5. Popped = Len(log) + 1 /\ Popped \in 1 .. Len(accepted)
  BY <1>3, <1>4, ShadowFacts, RecordFacts
<1>6. out = accepted[Len(log) + 1] /\ out \in Values
  BY <1>1, <1>5, RecordFacts, ElementOfSeq DEF ShadowInd, InRing
<1>7. /\ log' \in Seq(Values) /\ Len(log') = Len(log) + 1
      /\ \A i \in 1 .. Len(log) : log'[i] = log[i]
      /\ log'[Len(log) + 1] = out
  BY <1>1, <1>6, RecordFacts, AppendProperties
<1>8. Settled' = Settled + 1 /\ Popped' = Popped
  <2>1. Settled' = Len(log') + discarded'
    BY DEF Settled
  <2>2. Settled' = Settled + 1
    BY <1>1, <1>4, <1>7, <2>1, ShadowFacts, RecordFacts
  <2>3. Popped' = Settled' + InHand'
    BY DEF Popped
  <2> QED
    BY <1>3, <2>2, <2>3, ShadowFacts
<1>9. Seen' = Seen
  BY <1>1, <1>8 DEF Seen
<1>10. /\ synced = Len(log) - chunk /\ synced % ChunkRecords = 0
       /\ chunk \in 0 .. ChunkRecords - 1 /\ synced \in 0 .. FileRecords
  BY <1>1 DEF ShadowInd, FlushAligned, ShadowTypeOK
<1>11. /\ chunk' \in 0 .. ChunkRecords - 1 /\ synced' \in 0 .. FileRecords
       /\ synced' = Len(log') - chunk' /\ synced' % ChunkRecords = 0
  <2>1. CASE chunk + 1 >= ChunkRecords /\ chunk' = 0 /\ synced' = Len(log) + 1
    <3>1. synced' = synced + ChunkRecords
      <4>1. ChunkRecords \in Nat \ {0} /\ Len(log) \in Nat /\ FileRecords \in Nat
        BY RecordFacts, ShadowAssumption
      <4>2. chunk + 1 = ChunkRecords
        BY <1>10, <2>1, <4>1
      <4> QED
        BY <1>10, <2>1, <4>1, <4>2
    <3>2. synced' % ChunkRecords = 0
      <4>1. synced \in Nat /\ ChunkRecords \in Nat \ {0} /\ synced % ChunkRecords = 0
        BY <1>10, ShadowAssumption
      <4> QED
        BY <3>1, <4>1, NextBoundary
    <3> QED
      BY <1>1, <1>7, <2>1, <3>2, RecordFacts, ShadowAssumption
  <2>2. CASE ~(chunk + 1 >= ChunkRecords) /\ chunk' = chunk + 1 /\ synced' = synced
    BY <1>7, <1>10, <2>2, RecordFacts, ShadowAssumption
  <2> QED
    BY <1>2, <2>1, <2>2
<1>12. ShadowTypeOK'
  BY <1>1, <1>7, <1>11 DEF ShadowInd, ShadowTypeOK, RingInv
<1>13. InRing'
  BY <1>1, <1>8 DEF ShadowInd, InRing
<1>14. Copied'
  <2>1. Len(log') <= FileRecords /\ ~(discarded' > 0)
    BY <1>1, <1>4, <1>7, RecordFacts, ShadowAssumption
  <2>2. ASSUME NEW i \in 1 .. Len(log') PROVE log'[i] = accepted[i]
    <3>1. CASE i \in 1 .. Len(log)
      BY <1>7, <3>1 DEF ShadowInd, Copied
    <3>2. CASE i = Len(log) + 1
      BY <1>6, <1>7, <3>2
    <3> QED
      BY <1>7, <2>2, <3>1, <3>2, RecordFacts
  <2> QED
    BY <1>1, <2>1, <2>2 DEF Copied
<1>15. Places' /\ Counted'
  BY <1>1 DEF ShadowInd, Places, Counted, InPush
<1>16. FlushAligned'
  BY <1>1, <1>11 DEF FlushAligned
<1>17. Arriving' /\ LastStep'
  BY <1>1, <1>9 DEF ShadowInd, Arriving, LastStep
<1> QED
  BY <1>12, <1>13, <1>14, <1>15, <1>16, <1>17 DEF ShadowInd

(* The record in hand stays there for good.                                *)
LEMMA FlushFaultKeepsShadowInd ==
  ASSUME ShadowInd, RingInv', FlushFault
  PROVE  ShadowInd'
<1>1. /\ flushPc = "copy" /\ flushPc' = "killed"
      /\ UNCHANGED <<slots, head, tail, headVis, tailVis, dropCount, pushPc, item, popPc, out>>
      /\ UNCHANGED <<mainPc, running, offered, accepted, stopHead, stopCount>>
      /\ UNCHANGED <<runVis, sized, log, chunk, synced, discarded>>
  BY DEF FlushFault, ringVars, mainVars
<1>2. ShadowTypeOK'
  BY <1>1 DEF ShadowInd, ShadowTypeOK, RingInv
<1>3. InHand' = InHand
  BY <1>1 DEF InHand
<1>4. InRing' /\ Copied' /\ Seen' = Seen /\ Settled' = Settled
  BY <1>1, <1>3, RecordsStay DEF Records
<1>5. Places' /\ Counted' /\ FlushAligned'
  BY <1>1 DEF ShadowInd, Places, Counted, InPush, FlushAligned
<1>6. Arriving' /\ LastStep'
  BY <1>1, <1>4 DEF ShadowInd, Arriving, LastStep
<1> QED
  BY <1>2, <1>4, <1>5, <1>6 DEF ShadowInd

LEMMA FlushFinalKeepsShadowInd ==
  ASSUME ShadowInd, RingInv', FlushFinal
  PROVE  ShadowInd'
<1>1. /\ flushPc = "final" /\ flushPc' = "done" /\ synced' = Len(log)
      /\ UNCHANGED <<slots, head, tail, headVis, tailVis, dropCount, pushPc, item, popPc, out>>
      /\ UNCHANGED <<mainPc, running, offered, accepted, stopHead, stopCount>>
      /\ UNCHANGED <<runVis, sized, log, chunk, discarded>>
  BY DEF FlushFinal, ringVars, mainVars
<1>2. synced' \in 0 .. FileRecords
  BY <1>1, RecordFacts, ShadowAssumption DEF ShadowInd, Copied
<1>3. ShadowTypeOK'
  BY <1>1, <1>2 DEF ShadowInd, ShadowTypeOK, RingInv
<1>4. InHand' = InHand
  BY <1>1 DEF InHand
<1>5. InRing' /\ Copied' /\ Seen' = Seen /\ Settled' = Settled
  BY <1>1, <1>4, RecordsStay DEF Records
<1>6. Places' /\ Counted' /\ FlushAligned'
  BY <1>1 DEF ShadowInd, Places, Counted, InPush, FlushAligned
<1>7. Arriving' /\ LastStep'
  BY <1>1, <1>5 DEF ShadowInd, Arriving, LastStep
<1> QED
  BY <1>3, <1>5, <1>6, <1>7 DEF ShadowInd

--------------------------------------------------------------------------------
(* The memory system.                                                      *)

LEMMA HeadArrivesKeepsShadowInd ==
  ASSUME ShadowInd, RingInv', HeadArrives
  PROVE  ShadowInd'
<1>1. /\ headVis # head /\ headVis' = Plus(headVis, 1) /\ ~FlagIsNext
      /\ UNCHANGED <<slots, head, tail, tailVis, dropCount, pushPc, item, popPc, out>>
      /\ UNCHANGED <<mainPc, running, offered, accepted, stopHead, stopCount>>
      /\ UNCHANGED <<runVis, flushPc, sized, log, chunk, synced, discarded>>
  BY DEF HeadArrives, HeadReachesConsumer, mainVars, flushVars
<1>2. /\ head \in Index /\ tail \in Index /\ headVis \in Index /\ stopHead \in Index
      /\ Dist(tail, headVis) + Dist(headVis, head) = Dist(tail, head)
  BY IndexFacts
<1>3. ShadowTypeOK'
  BY <1>1 DEF ShadowInd, ShadowTypeOK, RingInv
<1>4. /\ Dist(tail, headVis') = Dist(tail, headVis) + 1
      /\ Dist(headVis', head) = Dist(headVis, head) - 1
  <2>1. Plus(headVis, 1) # tail
    BY <1>1, <1>2, RingAssumption DEF Index, Dist, Plus
  <2> QED
    BY <1>1, <1>2, <2>1, DistFarStep, DistNearStep
<1>5. InHand' = InHand /\ Settled' = Settled /\ Popped' = Popped
  BY <1>1 DEF InHand, Settled, Popped
<1>6. Seen' = Seen + 1
  <2>1. Seen' = Popped + Dist(tail, headVis')
    BY <1>1, <1>5 DEF Seen
  <2>2. Popped \in Nat /\ Dist(tail, headVis) \in Nat /\ Seen = Popped + Dist(tail, headVis)
    BY ShadowFacts, IndexFacts
  <2> QED
    BY <1>4, <2>1, <2>2
<1>7. InRing'
  BY <1>1, <1>5 DEF ShadowInd, InRing
<1>8. Places' /\ Copied' /\ Counted' /\ FlushAligned' /\ LastStep'
  BY <1>1 DEF ShadowInd, Places, Copied, Counted, InPush, FlushAligned, LastStep
<1>9. Arriving'
  <2>1. Seen \in Nat /\ stopCount \in Nat
    BY ShadowFacts, RecordFacts
  <2>2. ~runVis => ~running /\ Seen' >= stopCount
    BY <1>6, <2>1 DEF ShadowInd, Arriving
  <2>3. ASSUME ~running, runVis
        PROVE  /\ Seen' + Dist(headVis', stopHead) = stopCount
               /\ Dist(headVis', stopHead) + Dist(stopHead, head) = Dist(headVis', head)
    <3>1. /\ Seen + Dist(headVis, stopHead) = stopCount
          /\ Dist(headVis, stopHead) + Dist(stopHead, head) = Dist(headVis, head)
      BY <2>3 DEF ShadowInd, Arriving
    <3>2. headVis # stopHead
      BY <1>1, <2>3 DEF FlagIsNext
    <3>3. Dist(headVis', stopHead) = Dist(headVis, stopHead) - 1
      BY <1>1, <1>2, <3>2, DistNearStep
    <3>4. /\ Dist(headVis, stopHead) \in Nat /\ Dist(stopHead, head) \in Nat
          /\ Dist(headVis, head) \in Nat
      BY <1>2, DistIsIndex DEF Index
    <3> QED
      BY <1>4, <1>6, <2>1, <3>1, <3>3, <3>4
  <2> QED
    BY <1>1, <1>5, <2>2, <2>3 DEF ShadowInd, Arriving
<1> QED
  BY <1>3, <1>7, <1>8, <1>9 DEF ShadowInd

LEMMA FlagArrivesKeepsShadowInd ==
  ASSUME ShadowInd, RingInv', FlagArrives
  PROVE  ShadowInd'
<1>1. /\ ~running /\ runVis /\ headVis = stopHead /\ runVis' = FALSE
      /\ UNCHANGED <<slots, head, tail, headVis, tailVis, dropCount, pushPc, item, popPc, out>>
      /\ UNCHANGED <<mainPc, running, offered, accepted, stopHead, stopCount>>
      /\ UNCHANGED <<flushPc, sized, log, chunk, synced, discarded>>
  BY DEF FlagArrives, FlagIsNext, ringVars, mainVars
<1>2. ShadowTypeOK'
  BY <1>1 DEF ShadowInd, ShadowTypeOK, RingInv
<1>3. InHand' = InHand
  BY <1>1 DEF InHand
<1>4. InRing' /\ Copied' /\ Seen' = Seen /\ Settled' = Settled
  BY <1>1, <1>3, RecordsStay DEF Records
<1>5. Places' /\ Counted' /\ FlushAligned' /\ LastStep'
  BY <1>1 DEF ShadowInd, Places, Counted, InPush, FlushAligned, LastStep
<1>6. Seen >= stopCount
  <2>1. Seen + Dist(headVis, stopHead) = stopCount
    BY <1>1 DEF ShadowInd, Arriving
  <2>2. Dist(headVis, stopHead) = 0
    BY <1>1, IndexFacts, DistZero
  <2> QED
    BY <2>1, <2>2, ShadowFacts
<1>7. Arriving'
  BY <1>1, <1>4, <1>6 DEF ShadowInd, Arriving
<1> QED
  BY <1>2, <1>4, <1>5, <1>7 DEF ShadowInd

(* The producer's view of m_tail is in no part but RingInv, and the rest   *)
(* of the steps change nothing.                                            *)
LEMMA TailArrivesKeepsShadowInd ==
  ASSUME ShadowInd, RingInv', TailArrives \/ UNCHANGED shadowVars
  PROVE  ShadowInd'
<1>1. /\ UNCHANGED <<slots, head, tail, headVis, dropCount, pushPc, item, popPc, out>>
      /\ UNCHANGED <<mainPc, running, offered, accepted, stopHead, stopCount>>
      /\ UNCHANGED <<runVis, flushPc, sized, log, chunk, synced, discarded>>
  BY DEF TailArrives, TailReachesProducer, shadowVars, ringVars, mainVars, flushVars
<1>2. ShadowTypeOK'
  BY <1>1 DEF ShadowInd, ShadowTypeOK, RingInv
<1>3. InHand' = InHand
  BY <1>1 DEF InHand
<1>4. InRing' /\ Copied' /\ Seen' = Seen /\ Settled' = Settled
  BY <1>1, <1>3, RecordsStay DEF Records
<1>5. Places' /\ Counted' /\ FlushAligned' /\ LastStep'
  BY <1>1 DEF ShadowInd, Places, Counted, InPush, FlushAligned, LastStep
<1>6. Arriving'
  BY <1>1, <1>4 DEF ShadowInd, Arriving
<1> QED
  BY <1>2, <1>4, <1>5, <1>6 DEF ShadowInd

--------------------------------------------------------------------------------
LEMMA StepKeepsShadowInd == ShadowInd /\ [ShadowNext]_shadowVars => ShadowInd'
<1> SUFFICES ASSUME ShadowInd, [ShadowNext]_shadowVars PROVE ShadowInd'
    OBVIOUS
<1>1. RingInv'
  <2>1. offered \in 0 .. MaxRecords
    BY RecordFacts
  <2> QED
    BY <2>1, ShadowStepIsRingStep, StepKeepsRingInv DEF ShadowInd
<1>2. CASE Main
  BY <1>1, <1>2, MainMovesKeepShadowInd, MainPushBeginKeepsShadowInd,
     MainPushWriteKeepsShadowInd, MainPushPublishKeepsShadowInd DEF Main
<1>3. CASE Flusher
  BY <1>1, <1>3, FlusherMovesKeepShadowInd, FlushTestKeepsShadowInd,
     FlushPopEndKeepsShadowInd, FlushFileFullKeepsShadowInd, FlushCopyKeepsShadowInd,
     FlushFaultKeepsShadowInd, FlushFinalKeepsShadowInd DEF Flusher
<1>4. CASE Sigint \/ HeadArrives \/ FlagArrives \/ TailArrives \/ UNCHANGED shadowVars
  BY <1>1, <1>4, SigintKeepsShadowInd, HeadArrivesKeepsShadowInd, FlagArrivesKeepsShadowInd,
     TailArrivesKeepsShadowInd
<1> QED
  BY <1>2, <1>3, <1>4 DEF ShadowNext, Shutdown

LEMMA ShadowIndHolds == ShadowSafety => []ShadowInd
BY InitShadowInd, StepKeepsShadowInd, PTL DEF ShadowSafety

(* The polling loop and the flusher are a producer and a consumer that use *)
(* the audit ring as it allows, so what is proved of the ring holds here.  *)
THEOREM ShadowLogUsesRing == ShadowSafety => RingSafety
<1>1. ShadowInit => RingInit
  BY DEF ShadowInit
<1>2. ShadowInd /\ [ShadowNext]_shadowVars => [RingNext]_ringVars
  BY ShadowStepIsRingStep DEF ShadowInd, ShadowTypeOK
<1> QED
  BY <1>1, <1>2, ShadowIndHolds, PTL DEF ShadowSafety, RingSafety

(* The file is the accepted records in order, and every record offered is  *)
(* refused and counted, under way, in the file, or discarded because the   *)
(* file is full, at every moment of push, pop, copy and signal.            *)
THEOREM EveryRecordAccountedFor == ShadowSafety => []ShadowInv
<1>1. ShadowInd => ShadowInv
  <2> SUFFICES ASSUME ShadowInd PROVE ShadowInv
      OBVIOUS
  <2>1. /\ log \in Seq(Values) /\ accepted \in Seq(Values) /\ Len(log) \in Nat
        /\ Len(log) <= Len(accepted)
    <3>1. /\ Settled = Len(log) + discarded /\ Popped = Settled + InHand
          /\ Popped <= Len(accepted) /\ InHand \in {0, 1}
      BY ShadowFacts
    <3> QED
      BY <3>1, RecordFacts
  <2>2. log = SubSeq(accepted, 1, Len(log))
    <3>1. /\ SubSeq(accepted, 1, Len(log)) \in Seq(Values)
          /\ Len(SubSeq(accepted, 1, Len(log))) = Len(log)
          /\ \A i \in 1 .. Len(log) : SubSeq(accepted, 1, Len(log))[i] = accepted[i]
      BY <2>1
    <3> QED
      BY <2>1, <3>1, SeqEqual DEF ShadowInd, Copied
  <2>3. Len(accepted) = Settled + InHand + Dist(tail, head)
    BY ShadowFacts
  <2> QED
    BY <2>2, <2>3 DEF ShadowInv, RecordsAccountedFor, ShadowInd, Counted, Copied
<1> QED
  BY <1>1, ShadowIndHolds, PTL

(* Every chunk handed to msync starts where the one before it ended, on a  *)
(* chunk boundary, and run ends with the whole file handed over.           *)
THEOREM ChunksAreAligned == ShadowSafety => []FlushAligned
<1>1. ShadowInd => FlushAligned
  BY DEF ShadowInd
<1> QED
  BY <1>1, ShadowIndHolds, PTL

(* When the flusher is done, every record accepted before the signal was   *)
(* copied or found the file full.                                          *)
THEOREM SignalLeavesNoRecordBehind == ShadowSafety => []StoppedIsSettled
<1>1. ShadowInd => StoppedIsSettled
  BY DEF ShadowInd, Arriving, StoppedIsSettled
<1> QED
  BY <1>1, ShadowIndHolds, PTL

(* What main's last step pushes after the signal is at most one record,    *)
(* and it is all that can stay in the ring.                                *)
THEOREM OneRecordStaysAtMost == ShadowSafety => []OneStraggler
<1>1. ShadowInd => OneStraggler
  <2> SUFFICES ASSUME ShadowInd, flushPc = "done" PROVE Len(accepted) - Settled <= 1
    BY DEF OneStraggler
  <2>1. Settled >= stopCount /\ Len(accepted) <= stopCount + 1
    BY DEF ShadowInd, Arriving, LastStep
  <2> QED
    BY <2>1, ShadowFacts, RecordFacts
<1> QED
  BY <1>1, ShadowIndHolds, PTL

--------------------------------------------------------------------------------
(* What is proved of the ring, in the shadow log.                          *)

(* The ring of the shadow log keeps its invariant: the order of the        *)
(* indices, the room and the item each thread holds past its check.        *)
THEOREM RingInvariantInLog == ShadowSafety => []RingInv
BY ShadowLogUsesRing, RingInvariant, PTL

(* The poll loop and the flusher are never on the same slot of plain       *)
(* memory.                                                                 *)
THEOREM LogHasNoSlotRace == ShadowSafety => []NoSlotRace
BY ShadowLogUsesRing, RingHasNoSlotRace, PTL

(* Between the poll loop and the flusher the ring is a bounded channel:    *)
(* nothing is lost, duplicated, reordered or altered.                      *)
THEOREM LogRingImplementsChannel == ShadowSafety => ImplementsChannel
BY ShadowLogUsesRing, RingImplementsChannel, PTL
================================================================================
