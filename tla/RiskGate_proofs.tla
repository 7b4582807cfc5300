---------------------------- MODULE RiskGate_proofs ----------------------------
(***************************************************************************)
(* Proofs about RiskGate for any number of traders, any limits and any     *)
(* inputs: its variables keep their types; the token bucket is overdrawn,  *)
(* and the position limit passed, by at most one order of each trader but  *)
(* one; the comparisons of check mean what they are for at every position  *)
(* reached; and a window of a refill period sees three buckets at most.    *)
(***************************************************************************)
EXTENDS RiskGate, FiniteSetTheorems, TLAPS

--------------------------------------------------------------------------------
(* Types. *)

LEMMA InitGateTypeOK == GateInit => GateTypeOK
BY GateAssumption, ChecksAssumption DEF GateInit, GateTypeOK

(* A signed quantity is an integer. *)
LEMMA SignedQtyIsInt ==
  ASSUME NEW o \in Orders \cup {NoOrder}
  PROVE  SideSign(o.side) * o.qty \in Int
<1>1. o.side \in {1, 2} /\ o.qty \in Int
  <2>1. CASE o \in Orders
    <3>1. o.side \in {Buy, Sell} /\ o.qty \in Qtys
      BY <2>1 DEF Orders
    <3>2. Qtys \subseteq Nat
      BY GateAssumption
    <3>3. o.side \in {1, 2}
      BY <3>1 DEF Buy, Sell
    <3>4. \A q \in Qtys : q \in Int
      BY <3>2
    <3> QED
      BY <3>1, <3>3, <3>4, Zenon
  <2>2. CASE o = NoOrder
    BY <2>2 DEF NoOrder, Buy
  <2> QED
    BY <2>1, <2>2
<1>2. SideSign(o.side) = 1 \/ SideSign(o.side) = -1
  BY <1>1 DEF SideSign
<1> QED
  BY <1>1, <1>2

LEMMA TradeKeepsGateTypeOK ==
  ASSUME GateTypeOK, NEW t \in Traders, Trade(t)
  PROVE  GateTypeOK'
<1> USE DEF GateTypeOK
<1>1. ASSUME NEW o \in Orders, CheckBegin(t, o) PROVE GateTypeOK'
  <2>1. \A panic \in BOOLEAN : SizeOk(o.qty, panic) \in BOOLEAN
    BY DEF SizeOk
  <2> QED
    BY <1>1, <2>1 DEF CheckBegin, feedVars
<1>2. CASE CheckLoad(t)
  <2>1. PICK l \in unread[t] : /\ unread' = [unread EXCEPT ![t] = @ \ {l}]
                               /\ passed' = [passed EXCEPT ![t] = @ /\ Found(l, order[t])]
    BY <1>2 DEF CheckLoad
  <2>2. UNCHANGED <<pos, tokens, clock, window, sends, pc, order, feedVars>>
    BY <1>2 DEF CheckLoad
  <2>3. unread' \in [Traders -> SUBSET Loads]
    BY <2>1
  <2>4. passed' \in [Traders -> BOOLEAN]
    BY <2>1
  <2> QED
    BY <2>2, <2>3, <2>4 DEF feedVars
<1>3. CASE CheckEnd(t)
  BY <1>3 DEF CheckEnd, feedVars
<1>4. CASE BookPosition(t)
  BY <1>4, SignedQtyIsInt DEF BookPosition, feedVars
<1>5. CASE BookToken(t)
  BY <1>5 DEF BookToken, feedVars
<1> QED
  BY <1>1, <1>2, <1>3, <1>4, <1>5 DEF Trade

LEMMA StepKeepsGateTypeOK == GateTypeOK /\ [GateNext]_gateVars => GateTypeOK'
<1> SUFFICES ASSUME GateTypeOK, [GateNext]_gateVars PROVE GateTypeOK'
    OBVIOUS
<1>1. CASE \E t \in Traders : Trade(t)
  BY <1>1, TradeKeepsGateTypeOK
<1>2. CASE Feed
  BY <1>2, GateAssumption
     DEF GateTypeOK, Feed, FeedPrice, FeedTooEarly, FeedRefill, traderVars
<1>3. CASE Tick
  BY <1>3, GateAssumption DEF GateTypeOK, Tick, traderVars, feedVars
<1>4. CASE UNCHANGED gateVars
  BY <1>4 DEF GateTypeOK, gateVars, traderVars, feedVars
<1> QED
  BY <1>1, <1>2, <1>3, <1>4 DEF GateNext

(* The variables keep their types, whatever the traders and the feed do. *)
THEOREM GateTypeCorrect == GateSpec => []GateTypeOK
BY InitGateTypeOK, StepKeepsGateTypeOK, PTL DEF GateSpec

--------------------------------------------------------------------------------
(* The token bucket. *)

(* A trader that saw a token and may still send on the strength of it. *)
IsArmed(t) == \/ pc[t] \in {"book", "pay"}
              \/ pc[t] = "check" /\ "rate" \notin unread[t] /\ passed[t]
Armed == {t \in Traders : IsArmed(t)}

(* Every armed trader will take one token more; there are never more of    *)
(* them than tokens and the one overshoot of each other trader.            *)
TokensCover == /\ tokens <= MaxTokens
               /\ MaxTokens = 0 => Armed = {}
               /\ Cardinality(Armed) <= tokens + Others

TokenInv == GateTypeOK /\ TokensCover

(* Armed traders are traders: a finite number, and no more than there are. *)
LEMMA ArmedBound ==
  /\ Cardinality(Traders) \in Nat \ {0}
  /\ IsFiniteSet(Armed) /\ Cardinality(Armed) \in 0 .. Cardinality(Traders)
<1>1. IsFiniteSet(Traders) /\ Traders # {}
  BY GateAssumption
<1>2. Cardinality(Traders) \in Nat /\ Cardinality(Traders) # 0
  BY <1>1, FS_CardinalityType, FS_EmptySet
<1>3. IsFiniteSet(Armed) /\ Cardinality(Armed) <= Cardinality(Traders)
  BY <1>1, FS_Subset DEF Armed
<1>4. Cardinality(Armed) \in Nat
  BY <1>3, FS_CardinalityType
<1> QED
  BY <1>2, <1>3, <1>4

(* With fewer armed traders the same tokens cover them. *)
LEMMA FewerArmed ==
  ASSUME TokenInv, GateTypeOK', UNCHANGED tokens, Armed' \subseteq Armed
  PROVE  TokenInv'
<1>1. Cardinality(Armed') <= Cardinality(Armed) /\ Cardinality(Armed') \in Nat
  BY ArmedBound, FS_Subset, FS_CardinalityType
<1>2. Cardinality(Armed) \in Nat /\ Cardinality(Traders) \in Nat
  BY ArmedBound
<1> QED
  BY <1>1, <1>2, GateAssumption DEF TokenInv, TokensCover, GateTypeOK, Others

(* A bucket that is not empty covers all traders. *)
LEMMA OneTokenCovers ==
  ASSUME GateTypeOK', tokens' <= MaxTokens, tokens' > 0
  PROVE  TokenInv'
<1>1. Cardinality(Armed') \in Nat /\ Cardinality(Armed') <= Cardinality(Traders)
  BY GateAssumption, FS_Subset, FS_CardinalityType DEF Armed
<1>2. Cardinality(Traders) \in Nat
  BY ArmedBound
<1> QED
  BY <1>1, <1>2, GateAssumption DEF TokenInv, TokensCover, GateTypeOK, Others

LEMMA InitTokenInv == GateInit => TokenInv
<1> SUFFICES ASSUME GateInit PROVE TokenInv
    OBVIOUS
<1>1. Armed = {}
  BY DEF GateInit, Armed, IsArmed
<1>2. Cardinality(Armed) = 0
  BY <1>1, FS_EmptySet
<1> QED
  BY <1>1, <1>2, ArmedBound, InitGateTypeOK, GateAssumption
     DEF GateInit, TokenInv, TokensCover, Others

LEMMA TradeKeepsTokenInv ==
  ASSUME TokenInv, NEW t \in Traders, Trade(t)
  PROVE  TokenInv'
<1> USE DEF TokenInv
<1>0. GateTypeOK'
  BY TradeKeepsGateTypeOK
<1>1. ASSUME NEW o \in Orders, CheckBegin(t, o) PROVE TokenInv'
  <2>1. Armed' \subseteq Armed
    BY <1>1 DEF CheckBegin, GateTypeOK, Armed, IsArmed, Loads
  <2> QED
    BY <1>0, <1>1, <2>1, FewerArmed DEF CheckBegin
<1>2. CASE CheckLoad(t)
  <2>1. PICK l \in unread[t] : /\ unread' = [unread EXCEPT ![t] = @ \ {l}]
                               /\ passed' = [passed EXCEPT ![t] = @ /\ Found(l, order[t])]
    BY <1>2 DEF CheckLoad
  <2>2. UNCHANGED <<tokens, pc>>
    BY <1>2 DEF CheckLoad
  <2>3. CASE tokens > 0
    BY <1>0, <2>2, <2>3, OneTokenCovers DEF TokensCover
  <2>4. CASE ~(tokens > 0)
    <3>1. l = "rate" => ~passed'[t]
      BY <2>1, <2>4 DEF Found, RateOk, GateTypeOK
    <3>2. Armed' \subseteq Armed
      BY <2>1, <2>2, <3>1 DEF GateTypeOK, Armed, IsArmed
    <3> QED
      BY <1>0, <2>2, <3>2, FewerArmed
  <2> QED
    BY <2>3, <2>4
<1>3. CASE CheckEnd(t)
  <2>1. Armed' \subseteq Armed
    BY <1>3 DEF CheckEnd, GateTypeOK, Armed, IsArmed
  <2> QED
    BY <1>0, <1>3, <2>1, FewerArmed DEF CheckEnd
<1>4. CASE BookPosition(t)
  <2>1. Armed' \subseteq Armed
    BY <1>4 DEF BookPosition, GateTypeOK, Armed, IsArmed
  <2> QED
    BY <1>0, <1>4, <2>1, FewerArmed DEF BookPosition
<1>5. CASE BookToken(t)
  <2>1. t \in Armed /\ Armed' = Armed \ {t}
    BY <1>5 DEF BookToken, GateTypeOK, Armed, IsArmed
  <2>2. Cardinality(Armed') = Cardinality(Armed) - 1
    BY <2>1, ArmedBound, FS_RemoveElement
  <2>3. tokens' = tokens - 1 /\ tokens \in Int
    BY <1>5 DEF BookToken, GateTypeOK
  <2>4. Cardinality(Armed) \in Nat /\ Cardinality(Traders) \in Nat
    BY ArmedBound
  <2> QED
    BY <1>0, <2>1, <2>2, <2>3, <2>4, GateAssumption DEF TokensCover, Others
<1> QED
  BY <1>1, <1>2, <1>3, <1>4, <1>5 DEF Trade

LEMMA StepKeepsTokenInv == TokenInv /\ [GateNext]_gateVars => TokenInv'
<1> SUFFICES ASSUME TokenInv, [GateNext]_gateVars PROVE TokenInv'
    OBVIOUS
<1>0. GateTypeOK'
  BY StepKeepsGateTypeOK DEF TokenInv
<1>1. CASE \E t \in Traders : Trade(t)
  BY <1>1, TradeKeepsTokenInv
<1>2. CASE FeedRefill
  <2>1. UNCHANGED <<pc, unread, passed>> /\ tokens' = MaxTokens
    BY <1>2 DEF FeedRefill, traderVars
  <2>2. CASE MaxTokens = 0
    <3>1. Armed = {} /\ Armed' = {}
      BY <2>1, <2>2 DEF TokenInv, TokensCover, Armed, IsArmed
    <3>2. Cardinality(Armed)' = 0
      BY <3>1, FS_EmptySet
    <3> QED
      BY <1>0, <2>1, <3>1, <3>2, ArmedBound, GateAssumption DEF TokenInv, TokensCover, Others
  <2>3. CASE MaxTokens # 0
    BY <1>0, <2>1, <2>3, OneTokenCovers, GateAssumption
  <2> QED
    BY <2>2, <2>3
<1>3. CASE FeedTooEarly \/ (\E p \in FeedPrices : FeedPrice(p)) \/ Tick \/ UNCHANGED gateVars
  <2>1. UNCHANGED <<pc, unread, passed, tokens>>
    BY <1>3 DEF FeedTooEarly, FeedPrice, Tick, gateVars, traderVars
  <2>2. Armed' \subseteq Armed
    BY <2>1 DEF Armed, IsArmed
  <2> QED
    BY <1>0, <2>1, <2>2, FewerArmed
<1> QED
  BY <1>1, <1>2, <1>3 DEF GateNext, Feed

(* check reserves nothing, and yet the bucket is never overdrawn by more   *)
(* than one order of each trader but one, nor refilled above its size.     *)
THEOREM TokenOvershootBounded == GateSpec => []TokensOvershoot
<1>1. TokenInv => TokensOvershoot
  BY ArmedBound, GateAssumption DEF TokenInv, TokensCover, GateTypeOK, TokensOvershoot, Others
<1> QED
  BY <1>1, InitTokenInv, StepKeepsTokenInv, PTL DEF GateSpec

--------------------------------------------------------------------------------
(* The position.                                                           *)

Bound == MaxPos + Others * MaxQty

(* The traders in C may each add up to MaxQty to p; the last to have seen  *)
(* p saw it within MaxPos, so one of them has its own order within it.     *)
Covered(p, C, q) ==
  /\ p <= Bound
  /\ C # {} => \E t \in C : p + q[t] + (Cardinality(C) - 1) * MaxQty <= Bound

(* The only arithmetic the argument needs of the product.                  *)
LEMMA RoomFacts ==
  ASSUME NEW n \in Nat, NEW m \in Nat, n <= m
  PROVE  /\ n * MaxQty \in Nat /\ n * MaxQty <= m * MaxQty
         /\ (n + 1) * MaxQty = n * MaxQty + MaxQty
BY ChecksAssumption

LEMMA BoundType ==
  /\ Others \in Nat /\ Bound \in Nat /\ Bound >= MaxPos
  /\ Cardinality(Traders) = Others + 1
<1>1. Others \in Nat /\ Cardinality(Traders) = Others + 1
  BY ArmedBound DEF Others
<1>2. Others * MaxQty \in Nat
  BY <1>1, RoomFacts
<1> QED
  BY <1>1, <1>2, ChecksAssumption DEF Bound

(* One trader leaves, having added its order or given it up.               *)
LEMMA LeaveKeepsCovered ==
  ASSUME NEW C \in SUBSET Traders, NEW u \in C, NEW q, NEW r, NEW p \in Int, NEW np \in Int,
         \A t \in C : q[t] \in 0 .. MaxQty, \A t \in C \ {u} : r[t] = q[t],
         np <= p + q[u], Covered(p, C, q)
  PROVE  Covered(np, C \ {u}, r)
<1> DEFINE D == C \ {u}
           n == Cardinality(D)
<1>1. IsFiniteSet(C) /\ IsFiniteSet(D) /\ n \in Nat /\ Cardinality(C) = n + 1
  <2>1. IsFiniteSet(C)
    BY GateAssumption, FS_Subset
  <2>2. IsFiniteSet(D) /\ n = Cardinality(C) - 1
    BY <2>1, FS_RemoveElement
  <2>3. n \in Nat /\ Cardinality(C) \in Nat
    BY <2>1, <2>2, FS_CardinalityType
  <2> QED
    BY <2>1, <2>2, <2>3
<1>2. PICK t \in C : p + q[t] + n * MaxQty <= Bound
  <2>1. (Cardinality(C) - 1) = n
    BY <1>1
  <2> QED
    BY <2>1 DEF Covered
<1>3. MaxQty \in Nat /\ Bound \in Int /\ n * MaxQty \in Nat /\ q[u] \in 0 .. MaxQty /\ q[t] \in 0 .. MaxQty
  BY <1>1, BoundType, RoomFacts, ChecksAssumption
<1>4. CASE D = {}
  <2>1. t = u
    BY <1>4
  <2>2. np <= Bound
    BY <1>2, <1>3, <2>1
  <2> QED
    BY <1>4, <2>2 DEF Covered
<1>5. CASE D # {}
  <2>1. PICK k \in Nat : n = k + 1
    <3>1. n # 0
      BY <1>1, <1>5, FS_EmptySet
    <3> QED
      BY <1>1, <3>1
  <2>2. n - 1 = k /\ k * MaxQty \in Nat /\ n * MaxQty = k * MaxQty + MaxQty
    BY <2>1, RoomFacts
  <2>3. PICK v \in D : v = t \/ t = u
    <3>1. t # u => t \in D
      OBVIOUS
    <3> QED
      BY <1>5, <3>1, Zenon
  <2>4. r[v] = q[v] /\ q[v] \in 0 .. MaxQty
    OBVIOUS
  <2>5. np + r[v] + k * MaxQty <= Bound
    BY <1>2, <1>3, <2>2, <2>3, <2>4
  <2>6. np <= Bound
    BY <1>3, <2>2, <2>4, <2>5
  <2> QED
    BY <2>2, <2>5, <2>6 DEF Covered
<1> QED
  BY <1>4, <1>5

(* One trader joins that has seen the position with its order in limits.   *)
LEMMA JoinKeepsCovered ==
  ASSUME NEW C \in SUBSET Traders, NEW u \in Traders \ C, NEW q, NEW p \in Int,
         q[u] \in Nat, p + q[u] <= MaxPos
  PROVE  Covered(p, C \cup {u}, q)
<1> DEFINE D == C \cup {u}
           n == Cardinality(C)
<1>1. IsFiniteSet(C) /\ n \in Nat /\ Cardinality(D) = n + 1
  <2>1. IsFiniteSet(C)
    BY GateAssumption, FS_Subset
  <2> QED
    BY <2>1, FS_AddElement, FS_CardinalityType
<1>2. n <= Others
  <2>1. Cardinality(D) <= Cardinality(Traders)
    BY GateAssumption, FS_Subset
  <2> QED
    BY <1>1, <2>1, BoundType
<1>3. n * MaxQty \in Nat /\ n * MaxQty <= Others * MaxQty /\ Others * MaxQty \in Nat
  BY <1>1, <1>2, BoundType, RoomFacts
<1>4. p + q[u] + n * MaxQty <= Bound
  BY <1>3, ChecksAssumption DEF Bound
<1>5. p <= Bound
  BY <1>3, ChecksAssumption DEF Bound
<1>6. Cardinality(D) - 1 = n
  BY <1>1
<1> QED
  BY <1>4, <1>5, <1>6 DEF Covered

(* Nobody joins or leaves, and the position does not rise.                 *)
LEMMA StayKeepsCovered ==
  ASSUME NEW C \in SUBSET Traders, NEW q, NEW r, NEW p \in Int, NEW np \in Int,
         \A t \in C : q[t] \in Nat, \A t \in C : r[t] = q[t], np <= p, Covered(p, C, q)
  PROVE  Covered(np, C, r)
<1>1. Bound \in Int
  BY BoundType
<1>2. np <= Bound
  BY <1>1 DEF Covered
<1>3. ASSUME C # {} PROVE \E t \in C : np + r[t] + (Cardinality(C) - 1) * MaxQty <= Bound
  <2>1. PICK t \in C : p + q[t] + (Cardinality(C) - 1) * MaxQty <= Bound
    BY <1>3 DEF Covered
  <2>2. Cardinality(C) \in Nat /\ Cardinality(C) # 0
    BY <1>3, GateAssumption, FS_Subset, FS_CardinalityType, FS_EmptySet
  <2>3. PICK k \in Nat : Cardinality(C) - 1 = k
    BY <2>2
  <2>4. k * MaxQty \in Nat
    BY RoomFacts
  <2>5. q[t] \in Nat /\ r[t] = q[t]
    OBVIOUS
  <2>6. np + r[t] + k * MaxQty <= Bound
    BY <1>1, <2>1, <2>3, <2>4, <2>5
  <2> QED
    BY <2>3, <2>6
<1> QED
  BY <1>2, <1>3 DEF Covered

--------------------------------------------------------------------------------
Demand == [t \in Traders |-> order[t].qty]

(* A trader that saw the position in limits and may still book its order.  *)
Holding(t) == \/ pc[t] = "book"
              \/ pc[t] = "check" /\ "position" \notin unread[t] /\ passed[t]
Committed(side) == {t \in Traders : order[t].side = side /\ Holding(t)}

(* Whoever has passed the first comparison has an order within the size.   *)
SizesOk == \A t \in Traders :
  pc[t] = "book" \/ (pc[t] = "check" /\ passed[t]) => order[t].qty <= MaxQty

SideCovered(side) == Covered(SideSign(side) * pos, Committed(side), Demand)

PosInv == GateTypeOK /\ SizesOk /\ SideCovered(Buy) /\ SideCovered(Sell)

LEMMA SideSigns == SideSign(Buy) = 1 /\ SideSign(Sell) = -1 /\ Buy # Sell
BY DEF SideSign, Buy, Sell

LEMMA OrderType ==
  ASSUME GateTypeOK, NEW t \in Traders
  PROVE  order[t].qty \in Nat /\ order[t].side \in {Buy, Sell}
<1>1. order[t] \in Orders \/ order[t] = NoOrder
  BY DEF GateTypeOK
<1>2. CASE order[t] \in Orders
  <2>1. order[t].qty \in Qtys /\ order[t].side \in {Buy, Sell}
    BY <1>2 DEF Orders
  <2>2. \A n \in Qtys : n \in Nat
    BY GateAssumption
  <2> QED
    BY <2>1, <2>2, Zenon
<1>3. CASE order[t] = NoOrder
  BY <1>3 DEF NoOrder
<1> QED
  BY <1>1, <1>2, <1>3

LEMMA HeldIsSmall ==
  ASSUME PosInv, NEW side \in {Buy, Sell}
  PROVE  /\ Committed(side) \in SUBSET Traders
         /\ \A t \in Committed(side) : Demand[t] \in 0 .. MaxQty
<1>1. ASSUME NEW t \in Committed(side) PROVE Demand[t] \in 0 .. MaxQty
  <2>1. Demand[t] = order[t].qty /\ order[t].qty \in Nat
    BY <1>1, OrderType DEF PosInv, Committed, Demand
  <2>2. order[t].qty <= MaxQty
    BY <1>1 DEF PosInv, SizesOk, Committed, Holding
  <2> QED
    BY <2>1, <2>2, ChecksAssumption
<1> QED
  BY <1>1 DEF Committed

(* The comparison of unsigned numbers says what it is for.                 *)
LEMMA PosOkMeansInLimits ==
  ASSUME PosInv, NEW side \in {Buy, Sell}, NEW qty \in 0 .. MaxQty, PosOk(pos, qty, side)
  PROVE  SideSign(side) * pos + qty <= MaxPos
<1>1. /\ pos \in Int /\ MaxPos \in Nat /\ MaxQty \in Nat /\ Word \in Nat /\ qty \in Nat /\ qty <= MaxQty
  BY ChecksAssumption DEF PosInv, GateTypeOK
<1>2. Word > 2 * MaxPos + Others * MaxQty + MaxQty /\ Others * MaxQty \in Nat
  <2>1. Others \in Nat /\ Cardinality(Traders) = Others + 1
    BY BoundType
  <2> QED
    BY <1>1, <2>1, LimitsFit, RoomFacts
<1>3. pos <= MaxPos + Others * MaxQty /\ -pos <= MaxPos + Others * MaxQty
  <2>1. 1 * pos = pos /\ (-1) * pos = -pos
    BY <1>1
  <2> QED
    BY <2>1, SideSigns DEF PosInv, SideCovered, Covered, Bound
<1>4. CASE side = Buy
  <2>1. Unsigned(pos + qty + MaxPos) <= Unsigned(2 * MaxPos)
    BY <1>1, <1>4, SideSigns DEF PosOk
  <2> QED
    BY <1>1, <1>2, <1>3, <1>4, <2>1, SideSigns DEF Unsigned
<1>5. CASE side = Sell
  <2>1. Unsigned(pos - qty + MaxPos) <= Unsigned(2 * MaxPos)
    <3>1. (-1) * qty = -qty
      BY <1>1
    <3> QED
      BY <1>1, <1>5, <3>1, SideSigns DEF PosOk
  <2>2. pos - qty + MaxPos >= 0
    BY <1>1, <1>2, <1>3, <2>1 DEF Unsigned
  <2> QED
    BY <1>1, <1>5, <2>2, SideSigns
<1> QED
  BY <1>4, <1>5

(* One side's cover when nobody of it changes, and when one of it leaves.  *)
LEMMA SideStays ==
  ASSUME PosInv, NEW side \in {Buy, Sell}, pos' \in Int,
         SideSign(side) * pos' <= SideSign(side) * pos,
         Committed(side)' = Committed(side),
         \A t \in Committed(side) : order'[t] = order[t]
  PROVE  SideCovered(side)'
<1>1. /\ Committed(side) \in SUBSET Traders
      /\ \A t \in Committed(side) : Demand[t] \in 0 .. MaxQty
  BY HeldIsSmall
<1>2. ASSUME NEW t \in Committed(side) PROVE Demand[t] \in Nat /\ Demand'[t] = Demand[t]
  <2>1. Demand[t] \in Nat
    BY <1>1, ChecksAssumption
  <2>2. Demand'[t] = Demand[t]
    BY <1>1 DEF Demand
  <2> QED
    BY <2>1, <2>2
<1>3. SideSign(side) * pos \in Int /\ SideSign(side) * pos' \in Int
  BY SideSigns DEF PosInv, GateTypeOK
<1>4. Covered(SideSign(side) * pos, Committed(side), Demand)
  BY DEF PosInv, SideCovered
<1>5. Covered(SideSign(side) * pos', Committed(side), Demand')
  BY <1>1, <1>2, <1>3, <1>4, StayKeepsCovered
<1> QED
  BY <1>5 DEF SideCovered

LEMMA SideLoses ==
  ASSUME PosInv, NEW side \in {Buy, Sell}, NEW u \in Committed(side), pos' \in Int,
         SideSign(side) * pos' <= SideSign(side) * pos + order[u].qty,
         Committed(side)' = Committed(side) \ {u},
         \A t \in Committed(side) \ {u} : order'[t] = order[t]
  PROVE  SideCovered(side)'
<1>1. /\ Committed(side) \in SUBSET Traders
      /\ \A t \in Committed(side) : Demand[t] \in 0 .. MaxQty
  BY HeldIsSmall
<1>2. \A t \in Committed(side) \ {u} : Demand'[t] = Demand[t]
  BY <1>1 DEF Demand
<1>3. /\ SideSign(side) * pos \in Int /\ SideSign(side) * pos' \in Int
      /\ SideSign(side) * pos' <= SideSign(side) * pos + Demand[u]
  BY <1>1, SideSigns DEF PosInv, GateTypeOK, Demand
<1>4. Covered(SideSign(side) * pos, Committed(side), Demand)
  BY DEF PosInv, SideCovered
<1>5. Covered(SideSign(side) * pos', Committed(side) \ {u}, Demand')
  BY <1>1, <1>2, <1>3, <1>4, LeaveKeepsCovered
<1> QED
  BY <1>5 DEF SideCovered

(* The same for a step that leaves the position alone.                     *)
LEMMA SidesStay ==
  ASSUME PosInv, UNCHANGED pos, NEW side \in {Buy, Sell},
         Committed(side)' = Committed(side), \A t \in Committed(side) : order'[t] = order[t]
  PROVE  SideCovered(side)'
<1>1. pos' \in Int /\ SideSign(side) * pos' <= SideSign(side) * pos
  BY SideSigns DEF PosInv, GateTypeOK
<1> QED
  BY <1>1, SideStays

LEMMA CheckLoadKeepsSide ==
  ASSUME PosInv, NEW t \in Traders, CheckLoad(t), NEW side \in {Buy, Sell}
  PROVE  SideCovered(side)'
<1>1. PICK l \in unread[t] : /\ unread' = [unread EXCEPT ![t] = @ \ {l}]
                             /\ passed' = [passed EXCEPT ![t] = @ /\ Found(l, order[t])]
  BY DEF CheckLoad
<1>2. GateTypeOK /\ UNCHANGED <<pos, pc, order>> /\ pc[t] = "check"
  BY DEF CheckLoad, PosInv
<1>3. \A u \in Traders : u # t => unread'[u] = unread[u] /\ passed'[u] = passed[u]
  BY <1>1, <1>2 DEF GateTypeOK
<1>4. /\ unread'[t] = unread[t] \ {l}
      /\ passed'[t] = (passed[t] /\ Found(l, order[t]))
  BY <1>1, <1>2 DEF GateTypeOK
<1>5. \A u \in Traders : u # t => (u \in Committed(side)' <=> u \in Committed(side))
  BY <1>2, <1>3 DEF Committed, Holding
<1>6. CASE t \in Committed(side) <=> t \in Committed(side)'
  <2>1. Committed(side)' = Committed(side)
    BY <1>5, <1>6 DEF Committed
  <2> QED
    BY <1>2, <2>1, SidesStay
<1>7. CASE t \in Committed(side) /\ t \notin Committed(side)'
  <2>1. Committed(side)' = Committed(side) \ {t}
    BY <1>5, <1>7 DEF Committed
  <2>2. pos' \in Int /\ SideSign(side) * pos' <= SideSign(side) * pos + order[t].qty
    BY <1>2, SideSigns, OrderType DEF GateTypeOK
  <2> QED
    BY <1>2, <1>7, <2>1, <2>2, SideLoses
<1>8. CASE t \notin Committed(side) /\ t \in Committed(side)'
  <2>1. passed'[t] = TRUE /\ "position" \notin unread'[t] /\ order[t].side = side
    BY <1>2, <1>8 DEF Committed, Holding, GateTypeOK
  <2>2. passed[t] = TRUE /\ Found(l, order[t])
    BY <1>2, <1>4, <2>1, Zenon DEF GateTypeOK
  <2>3. "position" \in unread[t]
    BY <1>2, <1>8, <2>1, <2>2 DEF Committed, Holding
  <2>4. l = "position"
    BY <1>4, <2>1, <2>3
  <2>5. PosOk(pos, order[t].qty, side)
    BY <2>1, <2>2, <2>4 DEF Found
  <2>6. order[t].qty \in 0 .. MaxQty
    <3>1. order[t].qty \in Nat
      BY <1>2, OrderType
    <3>2. order[t].qty <= MaxQty
      BY <1>2, <2>2 DEF PosInv, SizesOk
    <3> QED
      BY <3>1, <3>2, ChecksAssumption
  <2>7. SideSign(side) * pos + order[t].qty <= MaxPos
    BY <2>5, <2>6, PosOkMeansInLimits
  <2>8. Committed(side)' = Committed(side) \cup {t}
    BY <1>5, <1>8 DEF Committed
  <2>9. Demand' = Demand /\ Demand[t] = order[t].qty
    BY <1>2 DEF Demand
  <2>10. SideSign(side) * pos \in Int /\ Committed(side) \in SUBSET Traders
    BY <1>2, SideSigns DEF GateTypeOK, Committed
  <2>11. Covered(SideSign(side) * pos, Committed(side) \cup {t}, Demand)
    <3>1. Demand[t] \in Nat /\ SideSign(side) * pos + Demand[t] <= MaxPos
      BY <2>6, <2>7, <2>9
    <3> HIDE DEF Demand
    <3> QED
      BY <1>8, <2>10, <3>1, JoinKeepsCovered
  <2> QED
    BY <1>2, <2>8, <2>9, <2>11 DEF SideCovered
<1> QED
  BY <1>6, <1>7, <1>8

LEMMA BookPositionKeepsSide ==
  ASSUME PosInv, NEW t \in Traders, BookPosition(t), NEW side \in {Buy, Sell}
  PROVE  SideCovered(side)'
<1>1. /\ GateTypeOK /\ pc[t] = "book" /\ pc' = [pc EXCEPT ![t] = "pay"]
      /\ pos' = pos + SideSign(order[t].side) * order[t].qty
      /\ UNCHANGED <<order, unread, passed>>
  BY DEF BookPosition, PosInv
<1>2. pc'[t] = "pay" /\ \A u \in Traders : u # t => pc'[u] = pc[u]
  BY <1>1 DEF GateTypeOK
<1>3. Committed(side)' = Committed(side) \ {t}
  BY <1>1, <1>2 DEF Committed, Holding
<1>4. order[t].qty \in Nat /\ order[t].side \in {Buy, Sell} /\ pos \in Int
  BY <1>1, OrderType DEF GateTypeOK
<1>5. pos' \in Int
  BY <1>1, <1>4, SideSigns
<1>6. CASE order[t].side = side
  <2>1. t \in Committed(side)
    BY <1>1, <1>6 DEF Committed, Holding
  <2>2. SideSign(side) * pos' <= SideSign(side) * pos + order[t].qty
    BY <1>1, <1>4, <1>6, SideSigns
  <2> QED
    BY <1>1, <1>3, <1>5, <2>1, <2>2, SideLoses
<1>7. CASE order[t].side # side
  <2>1. Committed(side)' = Committed(side)
    BY <1>3, <1>7 DEF Committed
  <2>2. SideSign(side) * pos' <= SideSign(side) * pos
    BY <1>1, <1>4, <1>7, SideSigns
  <2> QED
    BY <1>1, <1>5, <2>1, <2>2, SideStays
<1> QED
  BY <1>6, <1>7

LEMMA TradeKeepsPosInv ==
  ASSUME PosInv, NEW t \in Traders, Trade(t)
  PROVE  PosInv'
<1>1. GateTypeOK /\ GateTypeOK' /\ SizesOk
  BY TradeKeepsGateTypeOK DEF PosInv
<1>2. ASSUME NEW o \in Orders, CheckBegin(t, o) PROVE PosInv'
  <2>1. /\ pc[t] = "idle" /\ pc' = [pc EXCEPT ![t] = "check"] /\ order' = [order EXCEPT ![t] = o]
        /\ unread' = [unread EXCEPT ![t] = Loads] /\ UNCHANGED pos
    BY <1>2 DEF CheckBegin
  <2>2. PICK panic \in BOOLEAN : passed' = [passed EXCEPT ![t] = SizeOk(o.qty, panic)]
    BY <1>2 DEF CheckBegin
  <2>3. /\ pc'[t] = "check" /\ order'[t] = o /\ unread'[t] = Loads
        /\ passed'[t] = SizeOk(o.qty, panic)
        /\ \A u \in Traders : u # t => /\ pc'[u] = pc[u] /\ order'[u] = order[u]
                                       /\ unread'[u] = unread[u] /\ passed'[u] = passed[u]
    BY <1>1, <2>1, <2>2 DEF GateTypeOK
  <2>4. SizeOk(o.qty, panic) => o.qty <= MaxQty
    <3>1. o.qty \in Nat
      <4>1. o.qty \in Qtys /\ \A n \in Qtys : n \in Nat
        BY GateAssumption DEF Orders
      <4> QED
        BY <4>1, Zenon
    <3> QED
      BY <3>1, ChecksAssumption DEF SizeOk, QtyLimit
  <2>5. SizesOk'
    BY <1>1, <2>3, <2>4 DEF SizesOk
  <2>6. ASSUME NEW side \in {Buy, Sell} PROVE SideCovered(side)'
    <3>1. Committed(side)' = Committed(side) /\ t \notin Committed(side)
      BY <2>1, <2>3 DEF Committed, Holding, Loads
    <3>2. \A u \in Committed(side) : order'[u] = order[u]
      BY <2>3, <3>1 DEF Committed
    <3> QED
      BY <2>1, <3>1, <3>2, SidesStay
  <2> QED
    BY <1>1, <2>5, <2>6 DEF PosInv
<1>3. CASE CheckLoad(t)
  <2>1. SizesOk'
    <3>1. PICK l \in unread[t] : passed' = [passed EXCEPT ![t] = @ /\ Found(l, order[t])]
      BY <1>3 DEF CheckLoad
    <3>2. UNCHANGED <<pc, order>>
      BY <1>3 DEF CheckLoad
    <3>3. \A u \in Traders : passed'[u] => passed[u]
      BY <1>1, <3>1 DEF GateTypeOK
    <3> QED
      BY <1>1, <3>2, <3>3 DEF SizesOk
  <2> QED
    BY <1>1, <1>3, <2>1, CheckLoadKeepsSide DEF PosInv
<1>4. CASE CheckEnd(t)
  <2>1. /\ pc[t] = "check" /\ unread[t] = {} /\ UNCHANGED <<pos, unread>>
        /\ \/ passed[t] /\ pc' = [pc EXCEPT ![t] = "book"] /\ UNCHANGED order
           \/ ~passed[t] /\ pc' = [pc EXCEPT ![t] = "idle"] /\ order' = [order EXCEPT ![t] = NoOrder]
        /\ passed' = [passed EXCEPT ![t] = TRUE]
    BY <1>4 DEF CheckEnd
  <2>2. \A u \in Traders : u # t => /\ pc'[u] = pc[u] /\ order'[u] = order[u]
                                    /\ unread'[u] = unread[u] /\ passed'[u] = passed[u]
    BY <1>1, <2>1 DEF GateTypeOK
  <2>3. \/ passed[t] /\ pc'[t] = "book" /\ order'[t] = order[t]
        \/ ~passed[t] /\ pc'[t] = "idle"
    BY <1>1, <2>1 DEF GateTypeOK
  <2>4. SizesOk'
    BY <1>1, <2>1, <2>2, <2>3 DEF SizesOk
  <2>5. ASSUME NEW side \in {Buy, Sell} PROVE SideCovered(side)'
    <3>1. Committed(side)' = Committed(side)
      BY <2>1, <2>2, <2>3 DEF Committed, Holding
    <3>2. \A u \in Committed(side) : order'[u] = order[u]
      BY <2>1, <2>2, <2>3 DEF Committed, Holding
    <3> QED
      BY <2>1, <3>1, <3>2, SidesStay
  <2> QED
    BY <1>1, <2>4, <2>5 DEF PosInv
<1>5. CASE BookPosition(t)
  <2>1. SizesOk'
    BY <1>1, <1>5 DEF BookPosition, SizesOk, GateTypeOK
  <2> QED
    BY <1>1, <1>5, <2>1, BookPositionKeepsSide DEF PosInv
<1>6. CASE BookToken(t)
  <2>1. /\ pc[t] = "pay" /\ UNCHANGED <<pos, unread, passed>> /\ pc'[t] = "idle"
        /\ \A u \in Traders : u # t => pc'[u] = pc[u] /\ order'[u] = order[u]
    BY <1>1, <1>6 DEF BookToken, GateTypeOK
  <2>2. SizesOk'
    BY <1>1, <2>1 DEF SizesOk
  <2>3. ASSUME NEW side \in {Buy, Sell} PROVE SideCovered(side)'
    <3>1. Committed(side)' = Committed(side) /\ t \notin Committed(side)
      BY <2>1 DEF Committed, Holding
    <3>2. \A u \in Committed(side) : order'[u] = order[u]
      BY <2>1, <3>1 DEF Committed
    <3> QED
      BY <2>1, <3>1, <3>2, SidesStay
  <2> QED
    BY <1>1, <2>2, <2>3 DEF PosInv
<1> QED
  BY <1>2, <1>3, <1>4, <1>5, <1>6 DEF Trade

LEMMA StepKeepsPosInv == PosInv /\ [GateNext]_gateVars => PosInv'
<1> SUFFICES ASSUME PosInv, [GateNext]_gateVars PROVE PosInv'
    OBVIOUS
<1>1. CASE \E t \in Traders : Trade(t)
  BY <1>1, TradeKeepsPosInv
<1>2. CASE Feed \/ Tick \/ UNCHANGED gateVars
  <2>1. UNCHANGED <<pos, traderVars>>
    BY <1>2 DEF Feed, FeedPrice, FeedTooEarly, FeedRefill, Tick, gateVars
  <2>2. GateTypeOK'
    BY StepKeepsGateTypeOK DEF PosInv
  <2>3. SizesOk'
    BY <2>1 DEF PosInv, SizesOk, traderVars
  <2>4. ASSUME NEW side \in {Buy, Sell} PROVE SideCovered(side)'
    <3>1. Committed(side)' = Committed(side) /\ \A u \in Committed(side) : order'[u] = order[u]
      BY <2>1 DEF Committed, Holding, traderVars
    <3> QED
      BY <2>1, <3>1, SidesStay
  <2> QED
    BY <2>2, <2>3, <2>4 DEF PosInv
<1> QED
  BY <1>1, <1>2 DEF GateNext

LEMMA InitPosInv == GateInit => PosInv
<1> SUFFICES ASSUME GateInit PROVE PosInv
    OBVIOUS
<1>1. GateTypeOK
  BY InitGateTypeOK
<1>2. SizesOk
  BY DEF GateInit, SizesOk
<1>3. ASSUME NEW side \in {Buy, Sell} PROVE SideCovered(side)
  <2>1. Committed(side) = {}
    BY DEF GateInit, Committed, Holding
  <2>2. SideSign(side) * pos = 0
    BY SideSigns DEF GateInit
  <2>3. 0 <= Bound
    BY BoundType
  <2> QED
    BY <2>1, <2>2, <2>3 DEF SideCovered, Covered
<1> QED
  BY <1>1, <1>2, <1>3 DEF PosInv

(* check reserves nothing, and yet the position passes its limit by at     *)
(* most one order of full size of each trader but one.                     *)
THEOREM PositionOvershootBounded == GateSpec => []PositionOvershoot
<1>1. PosInv => PositionOvershoot
  <2> SUFFICES ASSUME PosInv PROVE PositionOvershoot
    OBVIOUS
  <2>1. pos \in Int /\ Bound \in Int
    BY BoundType DEF PosInv, GateTypeOK
  <2>2. 1 * pos <= Bound /\ (-1) * pos <= Bound
    BY SideSigns DEF PosInv, SideCovered, Covered
  <2> QED
    BY <2>1, <2>2 DEF PositionOvershoot, Abs, Bound
<1> QED
  BY <1>1, InitPosInv, StepKeepsPosInv, PTL DEF GateSpec

--------------------------------------------------------------------------------
(* The meaning of the comparisons.                                         *)

(* At a position no further out than the races lead to, the comparison of  *)
(* unsigned numbers says that the position and the order are in limits.    *)
LEMMA PosOkSound ==
  ASSUME GateTypeOK, PositionOvershoot, NEW q \in 0 .. MaxQty, NEW side \in {Buy, Sell}
  PROVE  PosOk(pos, q, side) <=> Abs(pos + SideSign(side) * q) <= MaxPos
<1>1. /\ pos \in Int /\ q \in Int /\ q <= MaxQty /\ 0 <= q
      /\ MaxPos \in Nat /\ MaxQty \in Nat /\ Word \in Nat
  BY ChecksAssumption DEF GateTypeOK
<1>2. Others * MaxQty \in Nat /\ Word > 2 * MaxPos + Others * MaxQty + MaxQty
  BY <1>1, BoundType, LimitsFit, RoomFacts
<1>3. pos <= MaxPos + Others * MaxQty /\ -pos <= MaxPos + Others * MaxQty
  BY <1>1, <1>2 DEF PositionOvershoot, Abs
<1>4. SideSign(side) * q = q \/ SideSign(side) * q = -q
  <2>1. 1 * q = q /\ (-1) * q = -q
    BY <1>1
  <2> QED
    BY <2>1, SideSigns
<1> DEFINE x == pos + SideSign(side) * q
<1>5. x \in Int /\ x + MaxPos \in Int /\ x + MaxPos > MaxPos + MaxPos - Word /\ x + MaxPos < Word
  BY <1>1, <1>2, <1>3, <1>4
<1>6. x + MaxPos >= -(Others * MaxQty) - MaxQty
  BY <1>1, <1>2, <1>3, <1>4
<1> HIDE DEF x
<1>7. Unsigned(x + MaxPos) <= Unsigned(2 * MaxPos) <=> Abs(x) <= MaxPos
  BY <1>1, <1>2, <1>5, <1>6 DEF Unsigned, Abs
<1> QED
  BY <1>7 DEF x, PosOk

(* The product of a drift and 10000 does not wrap, and a reference below   *)
(* zero gives a limit above every drift.                                   *)
LEMMA PriceOkSound ==
  ASSUME GateTypeOK, NEW p \in Prices
  PROVE  /\ lastPx > 0 =>
              (PriceOk(p, lastPx) <=> Abs(p - lastPx) * 10000 <= lastPx * BandBps)
         /\ lastPx < 0 => PriceOk(p, lastPx)
<1>1. /\ p \in Int /\ lastPx \in Int /\ BandBps \in Nat /\ BandBps > 0 /\ Word \in Nat
  <2>1. \A x \in Prices : x \in Int
    BY GateAssumption
  <2>2. \A x \in FeedPrices : x \in Int
    BY GateAssumption
  <2>3. lastPx = 0 \/ lastPx \in FeedPrices
    BY DEF GateTypeOK
  <2>4. p \in Int
    BY <2>1, Zenon
  <2>5. lastPx \in Int
    BY <2>2, <2>3
  <2> QED
    BY <2>4, <2>5, ChecksAssumption, PricesFit
<1> DEFINE drift == Abs(p - lastPx) * 10000
           limit == Abs(lastPx) * BandBps
<1>2. Abs(lastPx) \in Nat /\ Abs(p - lastPx) \in Nat
  BY <1>1 DEF Abs
<1>3. drift \in Nat /\ limit \in Nat
  BY <1>1, <1>2
<1>4. SUFFICES ASSUME lastPx # 0
               PROVE  /\ lastPx > 0 => (PriceOk(p, lastPx) <=> drift <= lastPx * BandBps)
                      /\ lastPx < 0 => PriceOk(p, lastPx)
  BY <1>1
<1>5. drift + limit < Word
  BY <1>4, PricesFit DEF GateTypeOK
<1>6. drift % Word = drift
  <2> HIDE DEF drift, limit
  <2> QED
    BY <1>1, <1>3, <1>5
<1>7. PriceOk(p, lastPx) <=> drift <= Unsigned(lastPx * BandBps)
  BY <1>4, <1>6 DEF PriceOk
<1>8. CASE lastPx > 0
  <2>1. lastPx * BandBps \in Int /\ lastPx * BandBps >= 0
    BY <1>1, <1>8
  <2>2. Unsigned(lastPx * BandBps) = lastPx * BandBps
    BY <2>1 DEF Unsigned
  <2> QED
    BY <1>1, <1>7, <1>8, <2>2
<1>9. CASE lastPx < 0
  <2>1. limit = -(lastPx * BandBps) /\ lastPx * BandBps \in Int /\ lastPx * BandBps < 0
    BY <1>1, <1>9 DEF Abs
  <2>2. Unsigned(lastPx * BandBps) = Word - limit
    BY <1>1, <1>3, <2>1 DEF Unsigned
  <2>3. drift <= Word - limit
    <3> HIDE DEF drift, limit
    <3> QED
      BY <1>1, <1>3, <1>5
  <2> QED
    BY <1>1, <1>7, <1>9, <2>2, <2>3
<1> QED
  BY <1>1, <1>4, <1>8, <1>9

(* The branch-free comparisons mean what they are for, at every position   *)
(* the races of any number of traders lead to.                             *)
THEOREM ChecksAreSound == GateSpec => []GateInv
<1>1. GateTypeOK /\ PositionOvershoot => GateInv
  <2> SUFFICES ASSUME GateTypeOK, PositionOvershoot PROVE ChecksSound
    BY DEF GateInv
  <2>1. \A q \in 0 .. MaxQty, side \in {Buy, Sell} :
          PosOk(pos, q, side) <=> Abs(pos + SideSign(side) * q) <= MaxPos
    BY PosOkSound
  <2>2. \A p \in Prices :
          /\ lastPx > 0 => (PriceOk(p, lastPx) <=> Abs(p - lastPx) * 10000 <= lastPx * BandBps)
          /\ lastPx < 0 => PriceOk(p, lastPx)
    BY PriceOkSound
  <2> QED
    BY <2>1, <2>2 DEF ChecksSound
<1> QED
  BY <1>1, GateTypeCorrect, PositionOvershootBounded, PTL

--------------------------------------------------------------------------------
(* The rate of orders.                                                     *)

Bucket == MaxTokens + Others
InWindow == clock \in window .. window + Period

(* What a refill decided on before the window may still add, and what one  *)
(* decided on inside it may: there is one of each at most, since the next  *)
(* needs a reading more than Period after the one before.                  *)
LateRefill == IF feedPc = "test" /\ feedNow < window THEN Bucket ELSE 0
OwnRefill == IF lastRefill < window THEN Bucket ELSE 0

RateInv ==
  /\ TokenInv
  /\ feedNow <= clock /\ lastRefill <= clock
  /\ clock < window => sends = 0
  /\ sends <= 3 * Bucket
  /\ InWindow => sends + (tokens + Others) + LateRefill + OwnRefill <= 3 * Bucket

(* The numbers the arithmetic is about.                                    *)
LEMMA RateFacts ==
  ASSUME TokenInv
  PROVE  /\ clock \in Nat /\ window \in Nat /\ sends \in Nat /\ feedNow \in Nat
         /\ lastRefill \in Nat /\ Period \in Nat /\ MaxTokens \in Nat
         /\ Others \in Nat /\ tokens \in Int /\ -Others <= tokens /\ tokens <= MaxTokens
<1>1. TokensOvershoot
  BY ArmedBound, GateAssumption DEF TokenInv, TokensCover, GateTypeOK, TokensOvershoot, Others
<1> QED
  BY <1>1, BoundType, GateAssumption DEF TokenInv, GateTypeOK, TokensOvershoot

LEMMA InitRateInv == GateInit => RateInv
<1> SUFFICES ASSUME GateInit PROVE RateInv
    OBVIOUS
<1>1. TokenInv
  BY InitTokenInv
<1>2. clock = Period + 1 /\ window >= Period + 1 /\ sends = 0 /\ feedNow = 0 /\ lastRefill = 0
      /\ tokens = MaxTokens /\ feedPc = "idle" /\ LateRefill = 0
  BY <1>1, RateFacts DEF GateInit, LateRefill
<1> QED
  BY <1>1, <1>2, RateFacts DEF RateInv, Bucket, OwnRefill, InWindow

LEMMA StepKeepsRateInv == RateInv /\ [GateNext]_gateVars => RateInv'
<1> SUFFICES ASSUME RateInv, [GateNext]_gateVars PROVE RateInv'
    OBVIOUS
<1>1. TokenInv /\ TokenInv'
  BY StepKeepsTokenInv DEF RateInv
<1>2. /\ clock \in Nat /\ window \in Nat /\ sends \in Nat /\ feedNow \in Nat
      /\ lastRefill \in Nat /\ Period \in Nat /\ MaxTokens \in Nat
      /\ Others \in Nat /\ tokens \in Int /\ -Others <= tokens /\ tokens <= MaxTokens
  BY <1>1, RateFacts
<1>3. tokens' \in Int /\ -Others <= tokens' /\ tokens' <= MaxTokens
  <2>1. tokens' \in Int /\ Cardinality(Armed') <= tokens' + Others /\ tokens' <= MaxTokens
    BY <1>1 DEF TokenInv, TokensCover, GateTypeOK
  <2>2. Cardinality(Armed') \in Nat
    BY GateAssumption, FS_Subset, FS_CardinalityType DEF Armed
  <2> QED
    BY <1>2, <2>1, <2>2
<1>4. CASE \E t \in Traders : Trade(t)
  <2>1. PICK t \in Traders : Trade(t)
    BY <1>4
  <2>2. CASE BookToken(t)
    <3>1. /\ tokens' = tokens - 1
          /\ sends' = IF InWindow THEN sends + 1 ELSE sends
          /\ UNCHANGED <<clock, window, feedVars>>
      BY <2>2 DEF BookToken, InWindow
    <3> QED
      BY <1>1, <1>2, <1>3, <3>1 DEF RateInv, Bucket, InWindow, LateRefill, OwnRefill, feedVars
  <2>3. CASE ~BookToken(t)
    <3>1. UNCHANGED <<tokens, sends, clock, window, feedVars>>
      BY <2>1, <2>3 DEF Trade, CheckBegin, CheckLoad, CheckEnd, BookPosition
    <3> QED
      BY <1>1, <3>1 DEF RateInv, Bucket, InWindow, LateRefill, OwnRefill, feedVars
  <2> QED
    BY <2>2, <2>3
<1>5. CASE \E p \in FeedPrices : FeedPrice(p)
  <2>1. /\ feedPc = "idle" /\ feedPc' = "test" /\ feedNow' = clock
        /\ UNCHANGED <<tokens, sends, clock, window, lastRefill>>
    BY <1>5 DEF FeedPrice
  <2> QED
    BY <1>1, <1>2, <2>1 DEF RateInv, Bucket, InWindow, LateRefill, OwnRefill
<1>6. CASE FeedTooEarly
  <2>1. /\ feedPc' = "idle" /\ feedNow' = 0
        /\ UNCHANGED <<tokens, sends, clock, window, lastRefill>>
    BY <1>6 DEF FeedTooEarly
  <2> QED
    BY <1>1, <1>2, <2>1 DEF RateInv, Bucket, InWindow, LateRefill, OwnRefill
<1>7. CASE FeedRefill
  <2>1. /\ feedPc = "test" /\ feedNow > lastRefill + Period
        /\ tokens' = MaxTokens /\ lastRefill' = feedNow /\ feedPc' = "idle" /\ feedNow' = 0
        /\ UNCHANGED <<sends, clock, window>>
    BY <1>2, <1>7 DEF FeedRefill
  <2> QED
    BY <1>1, <1>2, <2>1 DEF RateInv, Bucket, InWindow, LateRefill, OwnRefill
<1>8. CASE Tick
  <2>1. clock' = clock + 1 /\ UNCHANGED <<tokens, sends, window, feedVars>>
    BY <1>8 DEF Tick
  <2> QED
    BY <1>1, <1>2, <2>1 DEF RateInv, Bucket, InWindow, LateRefill, OwnRefill, feedVars
<1>9. CASE UNCHANGED gateVars
  BY <1>1, <1>9 DEF RateInv, Bucket, InWindow, LateRefill, OwnRefill, gateVars, feedVars
<1> QED
  BY <1>4, <1>5, <1>6, <1>7, <1>8, <1>9 DEF GateNext, Feed

(* No window of one refill period sees more than three buckets of orders,  *)
(* each with its overshoot, however late the feed's thread stores a refill *)
(* it has decided on.                                                      *)
THEOREM RateOvershootBounded == GateSpec => []RateOvershoot
<1>1. RateInv => RateOvershoot
  BY DEF RateInv, RateOvershoot, Bucket
<1> QED
  BY <1>1, InitRateInv, StepKeepsRateInv, PTL DEF GateSpec
================================================================================
